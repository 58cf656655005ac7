----------------------------- MODULE DosDriver ------------------------------
(***************************************************************************)
(* The MS-DOS block driver: the request handlers of                        *)
(* msdos/src/driver/commands.c and the exchanges they make with the        *)
(* FujiNet DiskService through msdos/src/nio (nio.c, nio_transaction.c).   *)
(*                                                                         *)
(* DOS makes one request at a time.  A step is what a handler does between *)
(* two exchanges, or one attempt of an exchange.  Frames carry a device    *)
(* and a command but no sequence number: a reply that missed its timeout   *)
(* stays on the line and is read later.                                    *)
(*                                                                         *)
(* The data of a sector is [slot, lba, val]: where the peer took it from   *)
(* and what it holds.  Requests refused before anything else happens (bad  *)
(* unit, bad length, unknown command) change nothing and are left out, and *)
(* so are the text of IOCTL_SET_STATE, the console and the diagnostics.    *)
(***************************************************************************)
EXTENDS Naturals, Sequences, FiniteSets, FiniteSetsExt

CONSTANTS
  Units,         \* 0..FN_MAX_DEV - 1
  Slots,         \* the peer's slots, numbered as the units are
  ReadOnly,      \* slots whose medium is write protected
  NumLba,        \* sectors of a large medium
  CacheSize,     \* CACHE_SECTORS
  MaxBatch,      \* the configured FUJI_BATCH_SECTORS
  IoRetries,     \* nio_io_retries
  Retries,       \* nio_transport_retries
  MaxStale,      \* NIO_MAX_STALE_RESPONSES
  MaxLate,       \* bound: replies on the line between two attempts
  Written,       \* contents DOS writes
  MaxCount,      \* bound: sectors of one request
  MaxMedia,      \* bound: media changed on the peer's side
  MaxRequests    \* bound: requests DOS makes

ASSUME ConstantsAssumption ==
  /\ Units \subseteq Slots /\ 0 \in Units /\ ReadOnly \subseteq Slots
  /\ IsFiniteSet(Slots) /\ Written \subseteq {0, 1}
  /\ NumLba \in Nat /\ NumLba >= 2
  /\ CacheSize \in Nat \ {0} /\ MaxBatch \in Nat \ {0}
  /\ {IoRetries, Retries, MaxStale, MaxLate, MaxCount, MaxMedia,
      MaxRequests} \subseteq Nat

VARIABLES
  nio_unit_slot, cache, cache_next, info_cache, media_changed, bpb,
  nio_batch_sectors,
  op,        \* the request DOS waits for
  call,      \* the exchange that request waits for
  pipe,      \* replies sent by the peer and not yet read, oldest first
  disk, inserted, changed,   \* the peer's slots (external)
  media, requests,  \* media changed and requests made so far
  misfit,    \* history: a reply to an earlier exchange of the same command
             \* was accepted
  outdated   \* history: <<unit, lba>> whose cached copies are older than the
             \* disk for a reason the code leaves open

driverVars == <<nio_unit_slot, cache, cache_next, info_cache, media_changed,
                bpb, nio_batch_sectors>>
peerVars   == <<disk, inserted, changed, media>>
vars == <<driverVars, op, call, pipe, peerVars, requests, misfit, outdated>>

Lbas    == 0..(NumLba - 1)
Vals    == {0, 1}
Sectors == [slot : Slots, lba : Lbas, val : Vals]
NoInfo  == [ok |-> 0, inserted |-> 0, changed |-> 0, readonly |-> 0]
Infos   == [ok : {0, 1}, inserted : {0, 1}, changed : {0, 1}, readonly : {0, 1}]
Entries == [unit : Units, lba : Lbas, data : Sectors]

Commands == {"BEGIN_HOST_SESSION", "INFO", "READ_SECTOR", "READ_SECTORS",
             "WRITE_SECTORS", "CLEAR_CHANGED", "CONTROL"}
Results  == {"ok", "frame", "failed"}

Idle   == [cmd |-> "idle", at |-> "-", unit |-> 0, sector |-> 0, left |-> 0,
           val |-> 0, attempt |-> 0, buf |-> <<>>, info |-> NoInfo]
NoCall == [cmd |-> "none", slot |-> 0, lba |-> 0, n |-> 0, val |-> 0,
           tries |-> 0, result |-> "none", data |-> <<>>, info |-> NoInfo]

-----------------------------------------------------------------------------
(* The sector cache.  An entry is a sequence of length 0 (not valid) or 1. *)

Matches(u, l) ==
  {i \in 0..(CacheSize - 1) :
     cache[i] # <<>> /\ cache[i][1].unit = u /\ cache[i][1].lba = l}

Cached(u, l) == Matches(u, l) # {}
cache_find(u, l) == Min(Matches(u, l))
CachedData(u, l) == cache[cache_find(u, l)][1].data

\* BUG: the index is not wrapped.
Bugcache_store(u, s, data) ==
  /\ cache' = [i \in 0..(CacheSize - 1) |->
                 LET k == {j \in 1..Len(data) : cache_next + j - 1 = i}
                 IN  IF k = {} THEN cache[i]
                     ELSE <<[unit |-> u, lba |-> s + Max(k) - 1,
                             data |-> data[Max(k)]]>>]
  /\ cache_next' = cache_next + Len(data)

\* cache_store of data[1], data[2], ... for sectors s, s + 1, ... in turn; what
\* is already cached is stored again.
cache_store(u, s, data) ==
  /\ cache' = [i \in 0..(CacheSize - 1) |->
                 LET k == {j \in 1..Len(data) :
                             (cache_next + j - 1) % CacheSize = i}
                 IN  IF k = {} THEN cache[i]
                     ELSE <<[unit |-> u, lba |-> s + Max(k) - 1,
                             data |-> data[Max(k)]]>>]
  /\ cache_next' = (cache_next + Len(data)) % CacheSize

\* cache_update_or_invalidate for the n sectors just written: the first match
\* of each.  The lines of Output never pass a null buffer.
Updated(u, s, n, v) ==
  [i \in 0..(CacheSize - 1) |->
     IF \E l \in s..(s + n - 1) : Cached(u, l) /\ cache_find(u, l) = i
     THEN <<[cache[i][1] EXCEPT
               !.data = [slot |-> nio_unit_slot[u], lba |-> cache[i][1].lba,
                         val |-> v]]>>
     ELSE cache[i]]

-----------------------------------------------------------------------------
(* One exchange.                                                           *)

NewCall(c, u, l, n, v) ==
  [NoCall EXCEPT !.cmd = c, !.slot = nio_unit_slot[u], !.lba = l, !.n = n,
                 !.val = v, !.result = "pending"]

\* nio_call, or the exchange nio_disk_write_sectors makes itself, begins: what
\* is still on the line is an answer to something else.
Exchange(c, u, l, n, v) ==
  /\ call' = NewCall(c, u, l, n, v)
  /\ pipe' = [i \in DOMAIN pipe |-> [pipe[i] EXCEPT !.old = 1]]

Returned == call.result \notin {"none", "pending"}

\* The DiskService (external): what it answers and how it changes.
Served == \/ call.cmd \in {"BEGIN_HOST_SESSION", "INFO", "CLEAR_CHANGED",
                           "CONTROL"}
          \/ inserted[call.slot] = 1 /\ call.cmd # "WRITE_SECTORS"
          \/ inserted[call.slot] = 1 /\ call.slot \notin ReadOnly

Reply ==
  [cmd |-> call.cmd, old |-> 0, ok |-> IF Served THEN 1 ELSE 0, n |-> call.n,
   info |-> IF call.cmd # "INFO" THEN NoInfo ELSE
            [ok |-> 1, inserted |-> inserted[call.slot],
             changed |-> changed[call.slot],
             readonly |-> IF call.slot \in ReadOnly THEN 1 ELSE 0],
   data |-> IF Served /\ call.cmd \in {"READ_SECTOR", "READ_SECTORS"}
            THEN [i \in 1..call.n |->
                    [slot |-> call.slot, lba |-> call.lba + i - 1,
                     val |-> disk[call.slot][call.lba + i - 1]]]
            ELSE <<>>]

PeerExecutes ==
  /\ disk' = IF call.cmd = "WRITE_SECTORS" /\ Served
             THEN [disk EXCEPT ![call.slot] =
                     [l \in Lbas |-> IF l \in call.lba..(call.lba + call.n - 1)
                                     THEN call.val ELSE @[l]]]
             ELSE disk
  /\ changed' = IF call.cmd = "CLEAR_CHANGED"
                THEN [changed EXCEPT ![call.slot] = 0] ELSE changed
  /\ UNCHANGED <<inserted, media>>

\* nio_should_retry_error, in the loop of nio_transaction_call.  The write is
\* sent once.
MayRetry(e) ==
  /\ e \in {"UART", "TIMEOUT", "FRAME"}
  /\ call.cmd # "WRITE_SECTORS" /\ call.tries < Retries

\* The callers tell apart: done, a batch whose frame was damaged in length or
\* checksum (nio_last_error, for the downshift), and any other failure.
Fails(e, rest) ==
  /\ Len(rest) <= MaxLate
  /\ pipe' = rest
  /\ call' = IF MayRetry(e) THEN [call EXCEPT !.tries = @ + 1]
             ELSE [call EXCEPT !.tries = 0,
                               !.result = IF e = "FRAME" /\ call.cmd = "READ_SECTORS"
                                             /\ call.n > 1
                                          THEN "frame" ELSE "failed"]
  /\ UNCHANGED misfit

\* The status, the parsers of nio_disk_protocol.c (too much data), and the
\* caller's comparison of bytes_read or bytes_written with the batch.
Sound(r) ==
  /\ r.ok = 1 /\ r.n >= call.n
  /\ call.cmd \in {"READ_SECTOR", "READ_SECTORS"} => r.n <= call.n

Accepts(r, rest) ==
  /\ Len(rest) <= MaxLate
  /\ pipe' = rest
  /\ call' = IF Sound(r)
             THEN [call EXCEPT !.tries = 0, !.result = "ok", !.data = r.data,
                               !.info = r.info]
             ELSE [call EXCEPT !.tries = 0, !.result = "failed"]
  /\ misfit' = IF r.old = 1 /\ r.cmd = call.cmd THEN 1 ELSE misfit

\* nio_protocol_validate_response on an undamaged frame: device and command
\* are all that is compared.
Answers(r) == r.cmd = call.cmd

\* nio_disk_write_sectors makes its exchange itself and reads one frame.
StaleAllowed == IF call.cmd = "WRITE_SECTORS" THEN 0 ELSE MaxStale

\* The frames read after the request was sent: skip those of other commands,
\* then time out, read a damaged frame or one too many of another command, or
\* accept.
Receive(line) ==
  \E j \in 0..StaleAllowed :
    /\ j <= Len(line) /\ \A i \in 1..j : ~Answers(line[i])
    /\ LET rest == SubSeq(line, j + 1, Len(line))
       IN  \/ Fails("TIMEOUT", rest)
           \/ /\ rest # <<>>
              /\ \/ \E e \in {"FRAME", "UART"} : Fails(e, Tail(rest))
                 \/ /\ ~Answers(Head(rest)) /\ j = StaleAllowed
                    /\ Fails("DEVICE_COMMAND", Tail(rest))
                 \/ /\ Answers(Head(rest))
                    /\ Accepts(Head(rest), Tail(rest))

\* nio_transaction_once: port_flush_rx drops what has arrived, the request is
\* sent and reaches the peer or does not, the reply is awaited.
Transact ==
  /\ call.result = "pending"
  /\ \E flushed \in 0..Len(pipe) :
       LET kept == SubSeq(pipe, flushed + 1, Len(pipe))
       IN  \/ PeerExecutes /\ Receive(Append(kept, Reply))
           \/ UNCHANGED peerVars /\ Receive(kept)
  /\ UNCHANGED <<driverVars, op, requests, outdated>>

Finish == op' = Idle /\ call' = NoCall /\ UNCHANGED pipe

-----------------------------------------------------------------------------
(* The handlers.                                                           *)

\* Init_cmd: probe_fujinet_nio goes on whatever BEGIN_HOST_SESSION gave, and
\* without an answer to INFO the driver is not installed.
InitProbe ==
  /\ op.cmd = "init" /\ Returned
  /\ \/ /\ call.cmd = "BEGIN_HOST_SESSION"
        /\ Exchange("INFO", 0, 0, 0, 0) /\ UNCHANGED op
     \/ /\ call.cmd = "INFO"
        /\ op' = IF call.result = "ok" THEN Idle ELSE [Idle EXCEPT !.cmd = "absent"]
        /\ call' = NoCall /\ UNCHANGED pipe
  /\ UNCHANGED <<driverVars, peerVars, misfit, outdated>>

\* DOS may make its next request.  Nothing is claimed once a reply was taken
\* for another, so none follows.
NewRequest ==
  /\ op = Idle /\ misfit = 0
  /\ requests < MaxRequests /\ requests' = requests + 1

Request(c, at, u, s, n, v) ==
  /\ NewRequest
  /\ op' = [Idle EXCEPT !.cmd = c, !.at = at, !.unit = u, !.sector = s,
                        !.left = n, !.val = v]

Media_check(u) ==
  /\ IF media_changed[u] = 1
     THEN /\ NewRequest /\ UNCHANGED op
          /\ media_changed' = [media_changed EXCEPT ![u] = 0]
          /\ info_cache' = [info_cache EXCEPT ![u] = NoInfo]
     ELSE /\ Request("check", "info", u, 0, 0, 0)
          /\ UNCHANGED <<media_changed, info_cache>>
  /\ UNCHANGED <<nio_unit_slot, cache, cache_next, bpb, nio_batch_sectors,
                 call, pipe, peerVars, misfit, outdated>>

Build_bpb(u) ==
  /\ Request("bpb", "info", u, 0, 0, 0)
  /\ UNCHANGED <<driverVars, call, pipe, peerVars, misfit, outdated>>

Input(u, s, n) ==
  /\ Request("input", "loop", u, s, n, 0)
  /\ UNCHANGED <<driverVars, call, pipe, peerVars, misfit, outdated>>

Output(u, s, n, v) ==
  /\ Request("output", "info", u, s, n, v)
  /\ UNCHANGED <<driverVars, call, pipe, peerVars, misfit, outdated>>

\* FUJI_IOCTL_NIO_CALL, and the same block through INT F5.
Control_call(u) ==
  /\ Request("control", "call", u, 0, 0, 0)
  /\ Exchange("CONTROL", u, 0, 0, 0)
  /\ UNCHANGED <<driverVars, peerVars, misfit, outdated>>

ControlDone ==
  /\ op.cmd = "control" /\ Returned /\ Finish
  /\ UNCHANGED <<driverVars, peerVars, misfit, outdated>>

\* BUG: the unit's entries stay in the cache.
BugSet_unit_map(u, s) ==
  /\ NewRequest
  /\ info_cache' = [info_cache EXCEPT ![u] = NoInfo]
  /\ nio_unit_slot' = [nio_unit_slot EXCEPT ![u] = s]
  /\ media_changed' = [media_changed EXCEPT ![u] = 1]
  /\ UNCHANGED <<cache, cache_next, bpb, nio_batch_sectors, op, call, pipe,
                 peerVars, misfit, outdated>>

\* FUJI_IOCTL_SET_UNIT_MAP with cache_invalidate_unit.
Set_unit_map(u, s) ==
  /\ NewRequest
  /\ cache' = [i \in DOMAIN cache |->
                 IF cache[i] # <<>> /\ cache[i][1].unit = u THEN <<>>
                 ELSE cache[i]]
  /\ info_cache' = [info_cache EXCEPT ![u] = NoInfo]
  /\ nio_unit_slot' = [nio_unit_slot EXCEPT ![u] = s]
  /\ media_changed' = [media_changed EXCEPT ![u] = 1]
  /\ outdated' = {p \in outdated : p[1] # u}
  /\ UNCHANGED <<cache_next, bpb, nio_batch_sectors, op, call, pipe, peerVars,
                 misfit>>

\* disk_info_cached: the cached answer, or an exchange.
Disk_info_cached ==
  /\ op.at = "info" /\ call = NoCall
  /\ IF info_cache[op.unit].ok = 1
     THEN /\ op' = [op EXCEPT !.at = "got", !.info = info_cache[op.unit]]
          /\ UNCHANGED <<call, pipe>>
     ELSE Exchange("INFO", op.unit, 0, 0, 0) /\ UNCHANGED op
  /\ UNCHANGED <<driverVars, peerVars, misfit, outdated>>

Disk_info_read ==
  /\ op.at = "info" /\ Returned
  /\ LET info == IF call.result = "ok" THEN call.info ELSE NoInfo
     IN  /\ op' = [op EXCEPT !.at = "got", !.info = info]
         /\ info_cache' = [info_cache EXCEPT ![op.unit] = info]
  /\ call' = NoCall
  /\ UNCHANGED <<nio_unit_slot, cache, cache_next, media_changed, bpb,
                 nio_batch_sectors, pipe, peerVars, misfit, outdated>>

Media_check_answer ==
  /\ op.cmd = "check" /\ op.at = "got"
  /\ info_cache' = IF op.info.changed = 1
                   THEN [info_cache EXCEPT ![op.unit] = NoInfo] ELSE info_cache
  /\ Finish
  /\ UNCHANGED <<nio_unit_slot, cache, cache_next, media_changed, bpb,
                 nio_batch_sectors, peerVars, misfit, outdated>>

\* The number of sectors the boot sector's BPB states, copied from it.
SectorMax(boot) == IF boot.val = 0 THEN NumLba ELSE NumLba - 1

\* Build_bpb_cmd after disk_info_cached, whose failure is not an error here.
Build_bpb_sector0 ==
  /\ op.cmd = "bpb" /\ op.at = "got"
  /\ \/ /\ op.info.ok = 1 /\ op.info.inserted = 0 /\ op.info.changed = 0
        /\ Finish /\ UNCHANGED bpb
     \/ /\ ~(op.info.ok = 1 /\ op.info.inserted = 0 /\ op.info.changed = 0)
        /\ IF Cached(op.unit, 0)
           THEN /\ bpb' = [bpb EXCEPT ![op.unit] =
                             SectorMax(CachedData(op.unit, 0))]
                /\ Exchange("CLEAR_CHANGED", op.unit, 0, 0, 0)
                /\ op' = [op EXCEPT !.at = "clear", !.info = NoInfo]
           ELSE /\ Exchange("READ_SECTOR", op.unit, 0, 1, 0)
                /\ op' = [op EXCEPT !.at = "read", !.info = NoInfo]
                /\ UNCHANGED bpb
  /\ UNCHANGED <<nio_unit_slot, cache, cache_next, info_cache, media_changed,
                 nio_batch_sectors, peerVars, misfit, outdated>>

Build_bpb_read ==
  /\ op.cmd = "bpb" /\ op.at = "read" /\ Returned
  /\ IF call.result = "ok"
     THEN /\ cache_store(op.unit, 0, call.data)
          /\ bpb' = [bpb EXCEPT ![op.unit] = SectorMax(call.data[1])]
          /\ Exchange("CLEAR_CHANGED", op.unit, 0, 0, 0)
          /\ op' = [op EXCEPT !.at = "clear"]
     ELSE Finish /\ UNCHANGED <<cache, cache_next, bpb>>
  /\ UNCHANGED <<nio_unit_slot, info_cache, media_changed, nio_batch_sectors,
                 peerVars, misfit, outdated>>

Build_bpb_clear ==
  /\ op.cmd = "bpb" /\ op.at = "clear" /\ Returned
  /\ info_cache' = IF call.result = "ok"
                   THEN [info_cache EXCEPT ![op.unit] = NoInfo] ELSE info_cache
  /\ Finish
  /\ UNCHANGED <<nio_unit_slot, cache, cache_next, media_changed, bpb,
                 nio_batch_sectors, peerVars, misfit, outdated>>

Batch == Min({op.left, nio_batch_sectors, bpb[op.unit] - op.sector})

\* The head of the loop of Input_cmd: the end, a sector beyond the medium, a
\* cached sector, or an exchange for the sectors from here on.
Input_loop ==
  /\ op.cmd = "input" /\ op.at = "loop"
  /\ \/ /\ op.left = 0 \/ op.sector >= bpb[op.unit]
        /\ Finish
     \/ /\ op.left > 0 /\ op.sector < bpb[op.unit]
        /\ Cached(op.unit, op.sector)
        /\ op' = [op EXCEPT !.sector = @ + 1, !.left = @ - 1,
                            !.buf = Append(@, CachedData(op.unit, op.sector))]
        /\ UNCHANGED <<call, pipe>>
     \/ /\ op.left > 0 /\ op.sector < bpb[op.unit]
        /\ ~Cached(op.unit, op.sector)
        /\ Exchange("READ_SECTORS", op.unit, op.sector, Batch, 0)
        /\ op' = [op EXCEPT !.at = "fetch"]
  /\ UNCHANGED <<driverVars, peerVars, misfit, outdated>>

\* BUG: the limit is compared the wrong way round and never lowered.
BugDownshifted(fetch) ==
  IF nio_batch_sectors < fetch \div 2 THEN fetch \div 2 ELSE nio_batch_sectors

Downshifted(fetch) ==
  IF nio_batch_sectors > fetch \div 2 THEN fetch \div 2 ELSE nio_batch_sectors

\* The exchange for a batch is over: store it, lower the batch size and start
\* over, try again, or give up with the sectors read so far.
Input_fetched ==
  /\ op.cmd = "input" /\ op.at = "fetch" /\ Returned
  /\ \/ /\ call.result = "ok"
        /\ cache_store(op.unit, op.sector, call.data)
        /\ op' = [op EXCEPT !.at = "loop", !.attempt = 0, !.sector = @ + call.n,
                            !.left = @ - call.n, !.buf = @ \o call.data]
        /\ call' = NoCall /\ UNCHANGED <<pipe, nio_batch_sectors>>
     \/ /\ call.result = "frame"
        /\ nio_batch_sectors' = Downshifted(call.n)
        /\ op' = [op EXCEPT !.at = "loop", !.attempt = 0]
        /\ call' = NoCall /\ UNCHANGED <<pipe, cache, cache_next>>
     \/ /\ call.result = "failed"
        /\ IF op.attempt < IoRetries
           THEN /\ op' = [op EXCEPT !.attempt = @ + 1]
                /\ call' = [call EXCEPT !.result = "pending"]
                /\ UNCHANGED pipe
           ELSE Finish
        /\ UNCHANGED <<cache, cache_next, nio_batch_sectors>>
  /\ UNCHANGED <<nio_unit_slot, info_cache, media_changed, bpb, peerVars,
                 misfit, outdated>>

Output_start ==
  /\ op.cmd = "output" /\ op.at = "got"
  /\ IF op.info.ok = 0 \/ op.info.readonly = 1
     THEN Finish
     ELSE /\ op' = [op EXCEPT !.at = "loop", !.info = NoInfo]
          /\ UNCHANGED <<call, pipe>>
  /\ UNCHANGED <<driverVars, peerVars, misfit, outdated>>

Output_loop ==
  /\ op.cmd = "output" /\ op.at = "loop"
  /\ IF op.left = 0 \/ op.sector >= bpb[op.unit]
     THEN Finish
     ELSE /\ Exchange("WRITE_SECTORS", op.unit, op.sector, Batch, op.val)
          /\ op' = [op EXCEPT !.at = "write"]
  /\ UNCHANGED <<driverVars, peerVars, misfit, outdated>>

\* Copies a write leaves behind: any copy when the write failed and may yet
\* have been done, else a second copy and those of other units on the slot.
LeftBehind ==
  {p \in Units \X (call.lba..(call.lba + call.n - 1)) :
     /\ nio_unit_slot[p[1]] = call.slot
     /\ \/ call.result # "ok" \/ p[1] # op.unit
        \/ Cardinality(Matches(p[1], p[2])) > 1}

\* BUG: the cache is left as it is.
BugOutput_written ==
  /\ op.cmd = "output" /\ op.at = "write" /\ Returned
  /\ IF call.result = "ok"
     THEN /\ op' = [op EXCEPT !.at = "loop", !.sector = @ + call.n,
                              !.left = @ - call.n]
          /\ call' = NoCall /\ UNCHANGED pipe
     ELSE Finish
  /\ outdated' = outdated \cup LeftBehind
  /\ UNCHANGED <<driverVars, peerVars, misfit>>

Output_written ==
  /\ op.cmd = "output" /\ op.at = "write" /\ Returned
  /\ IF call.result = "ok"
     THEN /\ cache' = Updated(op.unit, op.sector, call.n, op.val)
          /\ op' = [op EXCEPT !.at = "loop", !.sector = @ + call.n,
                              !.left = @ - call.n]
          /\ call' = NoCall /\ UNCHANGED pipe
     ELSE Finish /\ UNCHANGED cache
  /\ outdated' = outdated \cup LeftBehind
  /\ UNCHANGED <<nio_unit_slot, cache_next, info_cache, media_changed, bpb,
                 nio_batch_sectors, peerVars, misfit>>

\* On the peer's side the medium of a slot in use is taken out, or another one
\* put in (external).
HostMedia(s) ==
  /\ op.cmd # "absent" /\ misfit = 0
  /\ media < MaxMedia /\ media' = media + 1
  /\ \/ /\ inserted' = [inserted EXCEPT ![s] = 0] /\ UNCHANGED disk
     \/ /\ inserted' = [inserted EXCEPT ![s] = 1]
        /\ disk' = [disk EXCEPT ![s] = [l \in Lbas |-> 1 - @[l]]]
  /\ changed' = [changed EXCEPT ![s] = 1]
  /\ outdated' = outdated \cup ({u \in Units : nio_unit_slot[u] = s} \X Lbas)
  /\ UNCHANGED <<driverVars, op, call, pipe, requests, misfit>>

-----------------------------------------------------------------------------
Init ==
  /\ nio_unit_slot = [u \in Units |-> u]
  /\ cache = [i \in 0..(CacheSize - 1) |-> <<>>] /\ cache_next = 0
  /\ info_cache = [u \in Units |-> NoInfo]
  /\ media_changed = [u \in Units |-> 0]
  /\ bpb = [u \in Units |-> NumLba]
  /\ nio_batch_sectors = MaxBatch
  /\ op = [Idle EXCEPT !.cmd = "init"]
  /\ call = NewCall("BEGIN_HOST_SESSION", 0, 0, 0, 0) /\ pipe = <<>>
  /\ disk = [s \in Slots |-> [l \in Lbas |-> 0]]
  /\ inserted = [s \in Slots |-> 1] /\ changed = [s \in Slots |-> 0]
  /\ media = 0 /\ requests = 0 /\ misfit = 0 /\ outdated = {}

Handler ==
  /\ \/ InitProbe \/ ControlDone \/ Disk_info_cached \/ Disk_info_read
     \/ Media_check_answer \/ Build_bpb_sector0 \/ Build_bpb_read
     \/ Build_bpb_clear \/ Input_loop \/ Input_fetched \/ Output_start
     \/ Output_loop \/ Output_written
  /\ UNCHANGED requests

DosRequest(u) ==
  \/ Media_check(u) \/ Build_bpb(u) \/ Control_call(u)
  \/ \E s \in Slots : Set_unit_map(u, s)
  \/ \E s \in Lbas, n \in 1..MaxCount :
       Input(u, s, n) \/ \E v \in Written : Output(u, s, n, v)

Next ==
  \/ Transact \/ Handler
  \/ \E u \in Units : DosRequest(u)
  \/ \E u \in Units : HostMedia(nio_unit_slot[u])

\* The processor runs the handler, and every attempt ends: the timeout counts
\* down while nothing is received.
Spec == Init /\ [][Next]_vars /\ WF_vars(Transact) /\ WF_vars(Handler)

-----------------------------------------------------------------------------
(* Properties.                                                             *)

TypeOK ==
  /\ nio_unit_slot \in [Units -> Slots]
  /\ DOMAIN cache = 0..(CacheSize - 1)
  /\ \A i \in DOMAIN cache : cache[i] = <<>> \/ cache[i][1] \in Entries
  /\ cache_next \in 0..(CacheSize - 1)
  /\ info_cache \in [Units -> Infos] /\ media_changed \in [Units -> {0, 1}]
  /\ bpb \in [Units -> 1..NumLba] /\ nio_batch_sectors \in 1..MaxBatch
  /\ op.cmd \in {"idle", "absent", "init", "check", "bpb", "input", "output",
                 "control"}
  /\ op.unit \in Units /\ op.sector \in 0..(NumLba + MaxCount)
  /\ op.left \in 0..MaxCount /\ op.attempt \in 0..IoRetries
  /\ op.info \in Infos /\ op.buf \in Seq(Sectors)
  /\ call.cmd \in Commands \cup {"none"} /\ call.slot \in Slots
  /\ call.tries \in 0..Retries
  /\ call.result \in Results \cup {"none", "pending"}
  /\ Len(pipe) <= MaxLate
  /\ disk \in [Slots -> [Lbas -> Vals]]
  /\ inserted \in [Slots -> {0, 1}] /\ changed \in [Slots -> {0, 1}]
  /\ misfit \in {0, 1} /\ outdated \subseteq Units \X Lbas

\* The sector that position i of DOS's buffer stands for.
BufLba(i) == op.sector - Len(op.buf) + i - 1

(* Whatever the remapping, the batches and the retries did, a sector in the *)
(* cache or in DOS's buffer is the one asked for, from the slot the unit is *)
(* mapped to, unless a late reply was taken for another of the same command *)
(* (nio_protocol_validate_response compares only device and command):       *)
(* cache_invalidate_unit, cache_store, Input_cmd.                           *)
NoForeignData ==
  misfit = 0 =>
    /\ \A i \in DOMAIN cache : cache[i] # <<>> =>
         /\ cache[i][1].data.slot = nio_unit_slot[cache[i][1].unit]
         /\ cache[i][1].data.lba = cache[i][1].lba
    /\ \A i \in DOMAIN op.buf :
         /\ op.buf[i].slot = nio_unit_slot[op.unit]
         /\ op.buf[i].lba = BufLba(i)

(* What the cache would answer, and what DOS's buffer already holds, is     *)
(* what the disk holds, except where the code leaves an old copy: a medium  *)
(* changed behind it, a write that failed, a sector cached twice or under   *)
(* two units when it was written (cache_update_or_invalidate, Output_cmd).  *)
ReadsAreCurrent ==
  misfit = 0 =>
    /\ \A u \in Units, l \in Lbas :
         Cached(u, l) /\ <<u, l>> \notin outdated
           /\ ~(op.at = "write" /\ l \in call.lba..(call.lba + call.n - 1)) =>
         CachedData(u, l).val = disk[nio_unit_slot[u]][l]
    /\ \A i \in DOMAIN op.buf : <<op.unit, BufLba(i)>> \notin outdated =>
         op.buf[i].val = disk[nio_unit_slot[op.unit]][BufLba(i)]

(* Every DOS request ends: the attempts of an exchange, the I/O retries and *)
(* the restarts of the batch loop with a smaller batch run out, whatever    *)
(* the line does (nio_transaction_call, Input_cmd).                         *)
RequestsEnd ==
  (op.cmd \notin {"idle", "absent"}) ~> (op.cmd \in {"idle", "absent"})
=============================================================================
