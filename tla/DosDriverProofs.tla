-------------------------- MODULE DosDriverProofs ---------------------------
(***************************************************************************)
(* Proofs about the MS-DOS block driver, for any units, slots, sizes of    *)
(* the cache and of the batch, limits of the retries and replies kept on   *)
(* the line.  Three layers, each proved with the ones before it: Books     *)
(* (types, and the point every handler and its exchange can be at),        *)
(* OwnBooks (whose sectors are held) and FreshBooks (how old they are).    *)
(***************************************************************************)
EXTENDS DosDriver, FiniteSetTheorems, SequenceTheorems, WellFoundedInduction,
        TLAPS

(* The fields of the three records, and what one reply holds.              *)

OpCmds  == {"idle", "absent", "init", "check", "bpb", "input", "output",
            "control"}
Points  == {"-", "call", "info", "got", "read", "clear", "loop", "fetch",
            "write"}
Reads   == {"READ_SECTOR", "READ_SECTORS"}

OpType  == [cmd : OpCmds, at : Points, unit : Units, sector : Nat,
            left : 0..MaxCount, val : Vals, attempt : 0..IoRetries,
            buf : Seq(Sectors), info : Infos]

CallType == [cmd : Commands \cup {"none"}, slot : Slots, lba : Nat, n : Nat,
             val : Vals, tries : 0..Retries,
             result : Results \cup {"none", "pending"}, data : Seq(Sectors),
             info : Infos]

ReplyType == [cmd : Commands, old : {0, 1}, ok : {0, 1}, n : Nat,
              info : Infos, data : Seq(Sectors)]

(* The driver's own tables, as TypeOK has them. *)
DriverTypes ==
  /\ nio_unit_slot \in [Units -> Slots]
  /\ DOMAIN cache = 0..(CacheSize - 1)
  /\ \A i \in DOMAIN cache : cache[i] = <<>> \/ cache[i][1] \in Entries
  /\ cache_next \in 0..(CacheSize - 1)
  /\ info_cache \in [Units -> Infos] /\ media_changed \in [Units -> {0, 1}]
  /\ bpb \in [Units -> 1..NumLba] /\ nio_batch_sectors \in 1..MaxBatch

(* The peer's tables and the history. *)
PeerTypes ==
  /\ disk \in [Slots -> [Lbas -> Vals]]
  /\ inserted \in [Slots -> {0, 1}] /\ changed \in [Slots -> {0, 1}]
  /\ misfit \in {0, 1} /\ outdated \subseteq Units \X Lbas

(* Successful replies to a read hold the sectors they count. *)
FullReply(r) == r.cmd \in Reads /\ r.ok = 1 => Len(r.data) = r.n

LineTypes ==
  /\ pipe \in Seq(ReplyType) /\ Len(pipe) <= MaxLate
  /\ \A i \in 1..Len(pipe) : FullReply(pipe[i])

(* An exchange stays on the medium, is for the slot of the request's unit,  *)
(* and has its sectors when it succeeded. *)
CallBooks ==
  /\ call \in CallType
  /\ call.lba + call.n <= NumLba
  /\ call.cmd = "none" <=> call.result = "none"
  /\ call.cmd # "none" => call.slot = nio_unit_slot[op.unit]
  /\ call.result = "frame" => call.n > 1
  /\ call.cmd \in Reads /\ call.result = "ok" => Len(call.data) = call.n

(* Where a request can be, and the exchange it then has. *)
OpBooks ==
  /\ op \in OpType
  /\ op.sector + op.left <= NumLba + MaxCount
  /\ op.cmd # "input" => op.buf = <<>>
  /\ Len(op.buf) <= op.sector
  /\ op.cmd \in {"idle", "absent", "init"} => op.at = "-" /\ op.unit = 0
  /\ op.cmd = "control" => op.at = "call"
  /\ op.cmd = "check" => op.at \in {"info", "got"}
  /\ op.cmd = "bpb" => op.at \in {"info", "got", "read", "clear"}
  /\ op.cmd = "input" => op.at \in {"loop", "fetch"}
  /\ op.cmd = "output" => op.at \in {"info", "got", "loop", "write"}

PointBooks ==
  /\ op.cmd \in {"idle", "absent"} => call.cmd = "none"
  /\ op.cmd = "init" => call.cmd \in {"BEGIN_HOST_SESSION", "INFO"}
  /\ op.at = "call" => call.cmd = "CONTROL"
  /\ op.at = "info" => call.cmd \in {"none", "INFO"}
  /\ op.at \in {"got", "loop"} => call.cmd = "none"
  /\ op.at = "read" => call.cmd = "READ_SECTOR" /\ call.lba = 0 /\ call.n = 1
  /\ op.at = "clear" => call.cmd = "CLEAR_CHANGED"
  /\ op.at = "fetch" =>
       /\ call.cmd = "READ_SECTORS" /\ call.lba = op.sector
       /\ call.n \in 1..op.left
  /\ op.at = "write" =>
       /\ call.cmd = "WRITE_SECTORS" /\ call.lba = op.sector
       /\ call.n \in 1..op.left /\ call.val = op.val

Books == DriverTypes /\ PeerTypes /\ LineTypes /\ CallBooks /\ OpBooks
         /\ PointBooks

-----------------------------------------------------------------------------
(* Whose data it is.                                                       *)

(* The sectors of one answered read are those the exchange asks for. *)
Asked(data) ==
  \A j \in 1..call.n : data[j].slot = call.slot /\ data[j].lba = call.lba + j - 1

CacheOwn ==
  \A i \in DOMAIN cache : cache[i] # <<>> =>
    /\ cache[i][1].data.slot = nio_unit_slot[cache[i][1].unit]
    /\ cache[i][1].data.lba = cache[i][1].lba

BufferOwn ==
  \A i \in DOMAIN op.buf :
    /\ op.buf[i].slot = nio_unit_slot[op.unit]
    /\ op.buf[i].lba = BufLba(i)

CallOwn == call.cmd \in Reads /\ call.result = "ok" => Asked(call.data)

(* What was sent for the present exchange has its command, its count and,  *)
(* for a read, its sectors. *)
LineOwn ==
  call.cmd # "none" => \A i \in 1..Len(pipe) : pipe[i].old = 0 =>
    /\ pipe[i].cmd = call.cmd /\ pipe[i].n = call.n
    /\ call.cmd \in Reads /\ pipe[i].ok = 1 => Asked(pipe[i].data)

OwnBooks == misfit = 0 => CacheOwn /\ BufferOwn /\ CallOwn /\ LineOwn

-----------------------------------------------------------------------------
(* How old it is.                                                          *)

(* The disk holds v in sector l of the exchange's slot, or the unit's copy *)
(* of the sector is known to be behind. *)
Fresh(l, v) == <<op.unit, l>> \in outdated \/ disk[call.slot][l] = v

(* The write in progress may change what a unit's copy of sector l is of. *)
BeingWritten(u, l) ==
  /\ op.at = "write" /\ l \in call.lba..(call.lba + call.n - 1)
  /\ nio_unit_slot[u] = call.slot

CopiesFresh ==
  \A i \in DOMAIN cache : cache[i] # <<>> =>
    \/ <<cache[i][1].unit, cache[i][1].lba>> \in outdated
    \/ BeingWritten(cache[i][1].unit, cache[i][1].lba)
    \/ cache[i][1].data.val = disk[nio_unit_slot[cache[i][1].unit]][cache[i][1].lba]

BufferFresh ==
  \A i \in DOMAIN op.buf : <<op.unit, BufLba(i)>> \notin outdated =>
    op.buf[i].val = disk[nio_unit_slot[op.unit]][BufLba(i)]

CallFresh ==
  call.result = "ok" => \A j \in 1..call.n :
    /\ call.cmd \in Reads => Fresh(call.lba + j - 1, call.data[j].val)
    /\ call.cmd = "WRITE_SECTORS" => Fresh(call.lba + j - 1, call.val)

LineFresh ==
  call.cmd # "none" => \A i \in 1..Len(pipe) :
    pipe[i].old = 0 /\ pipe[i].ok = 1 => \A j \in 1..call.n :
      /\ call.cmd \in Reads => Fresh(call.lba + j - 1, pipe[i].data[j].val)
      /\ call.cmd = "WRITE_SECTORS" => Fresh(call.lba + j - 1, call.val)

FreshBooks == misfit = 0 => CopiesFresh /\ BufferFresh /\ CallFresh /\ LineFresh
-----------------------------------------------------------------------------
(* The least and the greatest element of a set of numbers.                 *)

(* Every nonempty set of numbers has a least element. *)
LEMMA LeastExists ==
  ASSUME NEW T, T \subseteq Nat, T # {}
  PROVE  \E x \in T : \A y \in T : x <= y
<1>1. IsWellFoundedOn(OpToRel(<, Nat), Nat)
  BY NatLessThanWellFounded
<1>2. PICK x \in T : \A y \in T : ~(<<y, x>> \in OpToRel(<, Nat))
  BY <1>1, WFMin
<1>3. \A y \in T : ~(y < x)
  BY <1>2 DEF OpToRel
<1>4. QED  BY <1>3

(* Every nonempty bounded set of numbers has a greatest element. *)
LEMMA GreatestExists ==
  ASSUME NEW n \in Nat, NEW T, T \subseteq 0..n, T # {}
  PROVE  \E x \in T : \A y \in T : x >= y
<1> DEFINE M == {n - x : x \in T}
<1>1. \A x \in T : n - x \in Nat
  OBVIOUS
<1>2. M \subseteq Nat
  BY <1>1
<1>3. PICK z \in T : TRUE
  OBVIOUS
<1>4. n - z \in M
  BY <1>3
<1>5. M # {}
  BY <1>4
<1>6. PICK m \in M : \A y \in M : m <= y
  BY <1>2, <1>5, LeastExists
<1>7. PICK x \in T : m = n - x
  BY <1>6
<1>8. \A y \in T : n - x <= n - y
  <2>1. TAKE y \in T
  <2>2. n - y \in M
    BY <2>1
  <2>3. QED  BY <1>6, <1>7, <2>2
<1>9. \A y \in T : x >= y
  <2>1. TAKE y \in T
  <2>2. n - x <= n - y /\ x \in 0..n /\ y \in 0..n
    BY <1>8, <2>1
  <2>3. QED  BY <2>2
<1>10. QED  BY <1>7, <1>9

(* Min(T) is the least element: the first match cache_find returns. *)
LEMMA MinIsLeast ==
  ASSUME NEW T, T \subseteq Nat, T # {}
  PROVE  Min(T) \in T /\ \A y \in T : Min(T) <= y
<1>1. \E x \in T : \A y \in T : x <= y
  BY LeastExists
<1>2. QED  BY <1>1 DEF Min

(* Max(T) is the greatest element: the last store to an index of the cache. *)
LEMMA MaxIsIn ==
  ASSUME NEW n \in Nat, NEW T, T \subseteq 0..n, T # {}
  PROVE  Max(T) \in T
<1>1. \E x \in T : \A y \in T : x >= y
  BY GreatestExists
<1>2. QED  BY <1>1 DEF Max

(* The constants, one by one. *)
LEMMA Constants ==
  /\ NumLba \in Nat /\ NumLba >= 2 /\ CacheSize \in Nat /\ CacheSize >= 1
  /\ MaxBatch \in Nat /\ MaxBatch >= 1
  /\ IoRetries \in Nat /\ Retries \in Nat /\ MaxStale \in Nat
  /\ MaxLate \in Nat /\ MaxCount \in Nat
  /\ 0 \in Units /\ 0 \in Slots /\ Units \subseteq Slots
  /\ Written \subseteq Vals
BY ConstantsAssumption DEF Vals

(* The empty records have the types of their fields. *)
LEMMA EmptyRecords ==
  /\ NoInfo \in Infos /\ Idle \in OpType /\ NoCall \in CallType
  /\ Idle.cmd = "idle" /\ Idle.at = "-" /\ Idle.unit = 0 /\ Idle.sector = 0
  /\ Idle.left = 0 /\ Idle.val = 0 /\ Idle.attempt = 0 /\ Idle.buf = <<>>
  /\ Idle.info = NoInfo
  /\ NoCall.cmd = "none" /\ NoCall.result = "none" /\ NoCall.lba = 0
  /\ NoCall.n = 0
<1>1. NoInfo \in Infos
  BY DEF NoInfo, Infos
<1>2. <<>> \in Seq(Sectors)
  OBVIOUS
<1>3. Idle \in OpType
  BY <1>1, <1>2, Constants DEF Idle, OpType, OpCmds, Points, Vals
<1>4. NoCall \in CallType
  BY <1>1, <1>2, Constants DEF NoCall, CallType, Vals
<1>5. QED  BY <1>1, <1>3, <1>4 DEF Idle, NoCall

(* A remainder is an index of the cache. *)
LEMMA WrapInRange ==
  ASSUME NEW a \in Nat, NEW n \in Nat, n >= 1
  PROVE  a % n \in 0..(n - 1)
OBVIOUS

-----------------------------------------------------------------------------
(* What the operators on the cache do to one entry.                        *)

(* cache_find returns an entry that matches, while there is one. *)
LEMMA FindMatches ==
  ASSUME NEW u, NEW l, Cached(u, l)
  PROVE  /\ cache_find(u, l) \in 0..(CacheSize - 1)
         /\ cache[cache_find(u, l)] # <<>>
         /\ cache[cache_find(u, l)][1].unit = u
         /\ cache[cache_find(u, l)][1].lba = l
<1>1. Matches(u, l) \subseteq Nat /\ Matches(u, l) # {}
  BY Constants DEF Matches, Cached
<1>2. cache_find(u, l) \in Matches(u, l)
  BY <1>1, MinIsLeast DEF cache_find
<1>3. QED  BY <1>2 DEF Matches

(* cache_store leaves an entry as it was, or makes it one of the sectors     *)
(* stored. *)
LEMMA StoreEntry ==
  ASSUME NEW u, NEW s \in Nat, NEW data \in Seq(Sectors),
         cache_next \in 0..(CacheSize - 1),
         cache_store(u, s, data)
  PROVE  /\ DOMAIN cache' = 0..(CacheSize - 1)
         /\ cache_next' \in 0..(CacheSize - 1)
         /\ \A i \in 0..(CacheSize - 1) :
              \/ cache'[i] = cache[i]
              \/ \E j \in 1..Len(data) :
                   cache'[i] = <<[unit |-> u, lba |-> s + j - 1,
                                  data |-> data[j]]>>
<1> DEFINE k(i) == {j \in 1..Len(data) :
                      (cache_next + j - 1) % CacheSize = i}
<1>1. cache' = [i \in 0..(CacheSize - 1) |->
                  IF k(i) = {} THEN cache[i]
                  ELSE <<[unit |-> u, lba |-> s + Max(k(i)) - 1,
                          data |-> data[Max(k(i))]]>>]
  BY DEF cache_store
<1>2. Len(data) \in Nat
  OBVIOUS
<1>3. cache_next' \in 0..(CacheSize - 1)
  <2>1. cache_next' = (cache_next + Len(data)) % CacheSize
    BY DEF cache_store
  <2>2. cache_next + Len(data) \in Nat
    BY <1>2, Constants
  <2>3. QED  BY <2>1, <2>2, WrapInRange, Constants
<1>4. ASSUME NEW i \in 0..(CacheSize - 1), k(i) # {}
      PROVE  Max(k(i)) \in 1..Len(data)
  <2>1. k(i) \subseteq 0..Len(data)
    BY <1>2
  <2>2. Max(k(i)) \in k(i)
    BY <1>2, <1>4, <2>1, MaxIsIn
  <2>3. QED  BY <2>2
<1> HIDE DEF k
<1>5. ASSUME NEW i \in 0..(CacheSize - 1)
      PROVE  \/ cache'[i] = cache[i]
             \/ \E j \in 1..Len(data) :
                  cache'[i] = <<[unit |-> u, lba |-> s + j - 1,
                                 data |-> data[j]]>>
  <2>1. CASE k(i) = {}
    BY <1>1, <2>1
  <2>2. CASE k(i) # {}
    BY <1>1, <1>4, <2>2
  <2>3. QED  BY <2>1, <2>2
<1>6. QED  BY <1>1, <1>3, <1>5

(* cache_update_or_invalidate leaves an entry as it was, or it is one of the *)
(* sectors written and gets the content written. *)
LEMMA UpdatedEntry ==
  ASSUME NEW u, NEW s, NEW n, NEW v, DriverTypes,
         NEW i \in 0..(CacheSize - 1)
  PROVE  \/ Updated(u, s, n, v)[i] = cache[i]
         \/ /\ cache[i] # <<>> /\ cache[i][1].unit = u
            /\ cache[i][1].lba \in s..(s + n - 1)
            /\ Updated(u, s, n, v)[i] =
                 <<[unit |-> u, lba |-> cache[i][1].lba,
                    data |-> [slot |-> nio_unit_slot[u],
                              lba |-> cache[i][1].lba, val |-> v]]>>
<1> DEFINE hit == \E l \in s..(s + n - 1) : Cached(u, l) /\ cache_find(u, l) = i
<1> DEFINE new == [slot |-> nio_unit_slot[u], lba |-> cache[i][1].lba,
                   val |-> v]
<1>1. Updated(u, s, n, v)[i] =
        IF hit THEN <<[cache[i][1] EXCEPT !.data = new]>> ELSE cache[i]
  BY DEF Updated
<1>2. CASE ~hit
  BY <1>1, <1>2
<1>3. CASE hit
  <2>1. PICK l \in s..(s + n - 1) : Cached(u, l) /\ cache_find(u, l) = i
    BY <1>3
  <2>2. cache[i] # <<>> /\ cache[i][1].unit = u /\ cache[i][1].lba = l
    BY <2>1, FindMatches
  <2>3. cache[i][1] \in Entries
    BY <2>2 DEF DriverTypes
  <2> HIDE DEF new, hit
  <2>4. [cache[i][1] EXCEPT !.data = new] =
          [unit |-> cache[i][1].unit, lba |-> cache[i][1].lba, data |-> new]
    BY <2>3 DEF Entries
  <2>5. QED  BY <1>1, <1>3, <2>1, <2>2, <2>4 DEF new
<1>4. QED  BY <1>2, <1>3

(* The size of a batch: at least one sector, no more than are asked for or   *)
(* allowed, and none beyond the medium. *)
LEMMA BatchSize ==
  ASSUME DriverTypes, op \in OpType, op.left > 0,
         op.sector < bpb[op.unit]
  PROVE  /\ Batch \in 1..op.left /\ Batch <= nio_batch_sectors
         /\ op.sector + Batch <= NumLba
<1> DEFINE a == op.left  b == nio_batch_sectors  c == bpb[op.unit]
           s == op.sector  T == {a, b, c - s}
<1>1. a \in Nat /\ a > 0 /\ b \in Nat /\ b > 0 /\ c \in Nat /\ c <= NumLba
      /\ s \in Nat /\ s < c
  BY Constants DEF DriverTypes, OpType
<1>2. Batch = Min(T)
  BY DEF Batch
<1> HIDE DEF a, b, c, s
<1>3. T \subseteq Nat /\ T # {}
  BY <1>1
<1>4. Min(T) \in T /\ Min(T) <= a /\ Min(T) <= b /\ Min(T) <= c - s
  BY <1>3, MinIsLeast
<1> HIDE DEF T
<1>5. Min(T) \in Nat /\ Min(T) > 0
  BY <1>1, <1>4 DEF T
<1>6. QED  BY <1>1, <1>2, <1>4, <1>5, Constants DEF a, b, c, s

-----------------------------------------------------------------------------
(* What an exchange does to the line.                                      *)

(* A new exchange makes everything on the line old, and nothing else of it. *)
LEMMA ExchangeFacts ==
  ASSUME Books, NEW c \in Commands, NEW u \in Units, NEW l \in Nat,
         NEW n \in Nat, NEW v \in Vals, Exchange(c, u, l, n, v)
  PROVE  /\ call' \in CallType
         /\ call'.cmd = c /\ call'.slot = nio_unit_slot[u] /\ call'.lba = l
         /\ call'.n = n /\ call'.val = v /\ call'.result = "pending"
         /\ LineTypes'
         /\ \A i \in 1..Len(pipe') : pipe'[i].old = 1
<1>1. /\ call' = [cmd |-> c, slot |-> nio_unit_slot[u], lba |-> l, n |-> n,
                  val |-> v, tries |-> 0, result |-> "pending",
                  data |-> <<>>, info |-> NoInfo]
      /\ nio_unit_slot[u] \in Slots
  BY DEF Exchange, NewCall, NoCall, Books, DriverTypes
<1>2. call' \in CallType
  BY <1>1, EmptyRecords, Constants DEF CallType
<1>3. pipe \in Seq(ReplyType) /\ DOMAIN pipe = 1..Len(pipe)
      /\ Len(pipe) \in Nat /\ Len(pipe) <= MaxLate
  BY DEF Books, LineTypes
<1>4. pipe' = [i \in 1..Len(pipe) |-> [pipe[i] EXCEPT !.old = 1]]
  BY <1>3 DEF Exchange
<1>5. ASSUME NEW i \in 1..Len(pipe)
      PROVE  /\ pipe'[i] \in ReplyType /\ FullReply(pipe'[i])
             /\ pipe'[i].old = 1
  <2>1. pipe[i] \in ReplyType /\ FullReply(pipe[i])
    BY <1>3 DEF Books, LineTypes
  <2>2. pipe'[i] = [cmd |-> pipe[i].cmd, old |-> 1, ok |-> pipe[i].ok,
                    n |-> pipe[i].n, info |-> pipe[i].info,
                    data |-> pipe[i].data]
    BY <1>4, <2>1 DEF ReplyType
  <2>3. QED  BY <2>1, <2>2 DEF ReplyType, FullReply
<1>6. pipe' \in Seq(ReplyType) /\ Len(pipe') = Len(pipe)
  BY <1>3, <1>4, <1>5
<1>7. LineTypes'
  BY <1>3, <1>5, <1>6 DEF LineTypes
<1>8. QED  BY <1>1, <1>2, <1>5, <1>6, <1>7

(* A function on 1..n is a sequence of length n. *)
LEMMA FunctionIsSeq ==
  ASSUME NEW S, NEW n \in Nat, NEW f \in [1..n -> S]
  PROVE  f \in Seq(S) /\ Len(f) = n
OBVIOUS

(* What the peer answers is a reply of the right type, to this exchange. *)
LEMMA ReplyFacts ==
  ASSUME Books, call.cmd # "none"
  PROVE  /\ Reply \in ReplyType /\ FullReply(Reply)
         /\ Reply.cmd = call.cmd /\ Reply.n = call.n /\ Reply.old = 0
         /\ Reply.ok = 1 <=> Served
         /\ call.cmd \in Reads /\ Served => \A j \in 1..call.n :
              Reply.data[j] = [slot |-> call.slot, lba |-> call.lba + j - 1,
                               val |-> disk[call.slot][call.lba + j - 1]]
<1> DEFINE got == [i \in 1..call.n |->
                     [slot |-> call.slot, lba |-> call.lba + i - 1,
                      val |-> disk[call.slot][call.lba + i - 1]]]
           answer == [ok |-> 1, inserted |-> inserted[call.slot],
                      changed |-> changed[call.slot],
                      readonly |-> IF call.slot \in ReadOnly THEN 1 ELSE 0]
           info == IF call.cmd # "INFO" THEN NoInfo ELSE answer
           reads == Served /\ call.cmd \in Reads
           data == IF reads THEN got ELSE <<>>
           ok == IF Served THEN 1 ELSE 0
<1>1. call.cmd \in Commands /\ call.slot \in Slots /\ call.lba \in Nat
      /\ call.n \in Nat /\ call.lba + call.n <= NumLba
  BY DEF Books, CallBooks, CallType
<1>2. ASSUME NEW i \in 1..call.n
      PROVE  got[i] \in Sectors
  <2>1. call.lba + i - 1 \in Lbas
    BY <1>1, Constants DEF Lbas
  <2>2. disk[call.slot][call.lba + i - 1] \in Vals
    BY <1>1, <2>1 DEF Books, PeerTypes
  <2>3. QED  BY <1>1, <2>1, <2>2 DEF Sectors
<1>3. got \in Seq(Sectors) /\ Len(got) = call.n
  <2>1. got \in [1..call.n -> Sectors]
    BY <1>2
  <2> HIDE DEF got
  <2>2. QED  BY <1>1, <2>1, FunctionIsSeq
<1>4. info \in Infos
  BY <1>1, EmptyRecords DEF Infos, Books, PeerTypes
<1>5. Reply = [cmd |-> call.cmd, old |-> 0, ok |-> ok, n |-> call.n,
               info |-> info, data |-> data]
  BY DEF Reply, Reads
<1>6. reads => data = got
  OBVIOUS
<1>7. ~reads => data = <<>>
  OBVIOUS
<1>8. data \in Seq(Sectors)
  BY <1>3, <1>6, <1>7
<1>9. ok \in {0, 1} /\ (ok = 1 <=> Served)
  OBVIOUS
<1>10. call.cmd \in Reads /\ Served => \A j \in 1..call.n :
         data[j] = [slot |-> call.slot, lba |-> call.lba + j - 1,
                    val |-> disk[call.slot][call.lba + j - 1]]
  BY <1>6
<1> HIDE DEF got, answer, info, data, ok
<1>11. Reply \in ReplyType
  BY <1>1, <1>4, <1>5, <1>8, <1>9 DEF ReplyType
<1>12. FullReply(Reply)
  BY <1>3, <1>5, <1>6, <1>9 DEF FullReply
<1>13. QED  BY <1>5, <1>9, <1>10, <1>11, <1>12

(* Something of the line: what was on it, or the answer to this attempt. *)
Came(done, r) ==
  \/ done = 1 /\ r = Reply
  \/ \E k \in 1..Len(pipe) : r = pipe[k]

(* The three ways one attempt of an exchange ends. *)
TriesAgain ==
  /\ call' = [call EXCEPT !.tries = @ + 1] /\ call.tries < Retries
  /\ misfit' = misfit

GivesUp(res) ==
  /\ call' = [call EXCEPT !.tries = 0, !.result = res]
  /\ res = "frame" => call.n > 1
  /\ misfit' = misfit

Takes(r) ==
  /\ r.cmd = call.cmd
  /\ call' = IF Sound(r)
             THEN [call EXCEPT !.tries = 0, !.result = "ok", !.data = r.data,
                               !.info = r.info]
             ELSE [call EXCEPT !.tries = 0, !.result = "failed"]
  /\ misfit' = IF r.old = 1 THEN 1 ELSE misfit

(* What stays on the line of what was on it is what came. *)
LineKeeps(done) ==
  /\ pipe' \in Seq(ReplyType) /\ Len(pipe') <= MaxLate
  /\ \A i \in 1..Len(pipe') : Came(done, pipe'[i])

(* A failed attempt is repeated or given up. *)
LEMMA FailFacts ==
  ASSUME NEW e, NEW rest, Fails(e, rest)
  PROVE  /\ pipe' = rest /\ Len(rest) <= MaxLate
         /\ TriesAgain \/ \E res \in {"frame", "failed"} : GivesUp(res)
BY DEF Fails, MayRetry, TriesAgain, GivesUp

(* A reply that answers the exchange is taken. *)
LEMMA AcceptFacts ==
  ASSUME NEW r, NEW rest, Accepts(r, rest), Answers(r)
  PROVE  pipe' = rest /\ Len(rest) <= MaxLate /\ Takes(r)
BY DEF Accepts, Takes, Answers

(* The end of a line is made of its elements. *)
LEMMA Suffix ==
  ASSUME NEW S, NEW s \in Seq(S), NEW j \in 0..Len(s)
  PROVE  /\ SubSeq(s, j + 1, Len(s)) \in Seq(S)
         /\ \A i \in 1..Len(SubSeq(s, j + 1, Len(s))) :
              \E k \in 1..Len(s) : SubSeq(s, j + 1, Len(s))[i] = s[k]
<1> DEFINE t == SubSeq(s, j + 1, Len(s))
<1>1. Len(s) \in Nat
  OBVIOUS
<1>2. Len(t) = Len(s) - j /\ t \in Seq(S)
  BY <1>1
<1>3. \A i \in 1..Len(t) : t[i] = s[i + j]
  BY <1>1, <1>2
<1> HIDE DEF t
<1>4. \A i \in 1..Len(t) : i + j \in 1..Len(s)
  BY <1>1, <1>2
<1>5. QED  BY <1>2, <1>3, <1>4 DEF t

(* The tail of a line is made of its elements. *)
LEMMA TailElements ==
  ASSUME NEW S, NEW s \in Seq(S), s # <<>>
  PROVE  /\ Tail(s) \in Seq(S) /\ Head(s) \in S /\ Head(s) = s[1]
         /\ 1 \in 1..Len(s)
         /\ \A i \in 1..Len(Tail(s)) : \E k \in 1..Len(s) : Tail(s)[i] = s[k]
<1>1. Len(s) \in Nat /\ Len(s) >= 1 /\ Len(Tail(s)) = Len(s) - 1
      /\ Tail(s) \in Seq(S) /\ Head(s) = s[1] /\ s[1] \in S
  OBVIOUS
<1>2. \A i \in 1..Len(Tail(s)) : Tail(s)[i] = s[i + 1]
  OBVIOUS
<1>3. \A i \in 1..Len(Tail(s)) : i + 1 \in 1..Len(s)
  BY <1>1
<1>4. QED  BY <1>1, <1>2, <1>3

(* What one attempt makes of a line: a reply taken, another attempt, or *)
(* none.                                                                *)
LEMMA ReceiveFacts ==
  ASSUME NEW done, NEW line \in Seq(ReplyType), Receive(line),
         \A i \in 1..Len(line) : Came(done, line[i])
  PROVE  /\ LineKeeps(done)
         /\ \/ TriesAgain
            \/ \E res \in {"frame", "failed"} : GivesUp(res)
            \/ \E r \in ReplyType : Came(done, r) /\ Takes(r)
<1>1. PICK j \in 0..StaleAllowed :
        /\ j <= Len(line)
        /\ LET rest == SubSeq(line, j + 1, Len(line))
           IN  \/ Fails("TIMEOUT", rest)
               \/ /\ rest # <<>>
                  /\ \/ \E e \in {"FRAME", "UART"} : Fails(e, Tail(rest))
                     \/ /\ ~Answers(Head(rest)) /\ j = StaleAllowed
                        /\ Fails("DEVICE_COMMAND", Tail(rest))
                     \/ /\ Answers(Head(rest))
                        /\ Accepts(Head(rest), Tail(rest))
  BY DEF Receive
<1>2. StaleAllowed \in Nat
  BY Constants DEF StaleAllowed
<1>3. j \in 0..Len(line)
  BY <1>1, <1>2
<1> DEFINE rest == SubSeq(line, j + 1, Len(line))
<1>4. rest \in Seq(ReplyType) /\ \A i \in 1..Len(rest) : Came(done, rest[i])
  <2>1. \A i \in 1..Len(rest) : \E k \in 1..Len(line) : rest[i] = line[k]
    BY <1>3, Suffix
  <2>2. rest \in Seq(ReplyType)
    BY <1>3, Suffix
  <2> HIDE DEF rest
  <2>3. QED  BY <2>1, <2>2
<1>5. \/ Fails("TIMEOUT", rest)
      \/ /\ rest # <<>>
         /\ \/ \E e \in {"FRAME", "UART"} : Fails(e, Tail(rest))
            \/ Fails("DEVICE_COMMAND", Tail(rest))
            \/ Answers(Head(rest)) /\ Accepts(Head(rest), Tail(rest))
  BY <1>1
<1> HIDE DEF rest
<1>6. CASE Fails("TIMEOUT", rest)
  BY <1>4, <1>6, FailFacts DEF LineKeeps
<1>7. ASSUME rest # <<>>
      PROVE  /\ Tail(rest) \in Seq(ReplyType) /\ Head(rest) \in ReplyType
             /\ Came(done, Head(rest))
             /\ \A i \in 1..Len(Tail(rest)) : Came(done, Tail(rest)[i])
  <2>1. /\ Tail(rest) \in Seq(ReplyType) /\ Head(rest) \in ReplyType
        /\ Head(rest) = rest[1] /\ 1 \in 1..Len(rest)
        /\ \A i \in 1..Len(Tail(rest)) :
             \E k \in 1..Len(rest) : Tail(rest)[i] = rest[k]
    BY <1>4, <1>7, TailElements
  <2>2. QED  BY <1>4, <2>1
<1>8. ASSUME NEW e, rest # <<>>, Fails(e, Tail(rest))
      PROVE  LineKeeps(done)
             /\ (TriesAgain \/ \E res \in {"frame", "failed"} : GivesUp(res))
  BY <1>7, <1>8, FailFacts DEF LineKeeps
<1>9. CASE rest # <<>> /\ Answers(Head(rest))
           /\ Accepts(Head(rest), Tail(rest))
  <2>1. pipe' = Tail(rest) /\ Len(Tail(rest)) <= MaxLate /\ Takes(Head(rest))
    BY <1>9, AcceptFacts
  <2>2. QED  BY <1>7, <1>9, <2>1 DEF LineKeeps
<1>10. QED  BY <1>5, <1>6, <1>8, <1>9

(* One attempt of an exchange: the peer did it or not, and it ends one of    *)
(* three ways. *)
LEMMA TransactFacts ==
  ASSUME Books, Transact
  PROVE  /\ UNCHANGED <<driverVars, op, requests, outdated>>
         /\ call.result = "pending" /\ call.cmd # "none"
         /\ \E done \in {0, 1} :
              /\ done = 1 => PeerExecutes
              /\ done = 0 => UNCHANGED peerVars
              /\ LineKeeps(done)
              /\ \/ TriesAgain
                 \/ \E res \in {"frame", "failed"} : GivesUp(res)
                 \/ \E r \in ReplyType : Came(done, r) /\ Takes(r)
<1>1. UNCHANGED <<driverVars, op, requests, outdated>>
      /\ call.result = "pending"
  BY DEF Transact
<1>2. call.cmd # "none"
  BY <1>1 DEF Books, CallBooks
<1>3. PICK flushed \in 0..Len(pipe) :
        LET kept == SubSeq(pipe, flushed + 1, Len(pipe))
        IN  \/ PeerExecutes /\ Receive(Append(kept, Reply))
            \/ UNCHANGED peerVars /\ Receive(kept)
  BY DEF Transact
<1> DEFINE kept == SubSeq(pipe, flushed + 1, Len(pipe))
<1>4. pipe \in Seq(ReplyType)
  BY DEF Books, LineTypes
<1>5. /\ kept \in Seq(ReplyType)
      /\ \A i \in 1..Len(kept) : \E k \in 1..Len(pipe) : kept[i] = pipe[k]
  BY <1>4, Suffix
<1>6. \/ PeerExecutes /\ Receive(Append(kept, Reply))
      \/ UNCHANGED peerVars /\ Receive(kept)
  BY <1>3
<1> HIDE DEF kept
<1>7. CASE PeerExecutes /\ Receive(Append(kept, Reply))
  <2>1. Reply \in ReplyType
    BY <1>2, ReplyFacts
  <2>2. Append(kept, Reply) \in Seq(ReplyType)
        /\ Len(Append(kept, Reply)) = Len(kept) + 1 /\ Len(kept) \in Nat
    BY <1>5, <2>1
  <2>3. \A i \in 1..Len(kept) : Append(kept, Reply)[i] = kept[i]
    BY <1>5, <2>1
  <2>4. Append(kept, Reply)[Len(kept) + 1] = Reply
    BY <1>5, <2>1
  <2> DEFINE line == Append(kept, Reply)
  <2>5. \A i \in 1..Len(line) : i \in 1..Len(kept) \/ i = Len(kept) + 1
    BY <2>2
  <2>6. \A i \in 1..Len(line) : Came(1, line[i])
    BY <1>5, <2>3, <2>4, <2>5 DEF Came
  <2>7. line \in Seq(ReplyType) /\ Receive(line)
    BY <1>7, <2>2
  <2> HIDE DEF line
  <2>8. /\ LineKeeps(1)
        /\ \/ TriesAgain
           \/ \E res \in {"frame", "failed"} : GivesUp(res)
           \/ \E r \in ReplyType : Came(1, r) /\ Takes(r)
    BY <2>6, <2>7, ReceiveFacts
  <2>9. QED  BY <1>1, <1>2, <1>7, <2>8
<1>8. CASE UNCHANGED peerVars /\ Receive(kept)
  <2>1. \A i \in 1..Len(kept) : Came(0, kept[i])
    BY <1>5 DEF Came
  <2>2. /\ LineKeeps(0)
        /\ \/ TriesAgain
           \/ \E res \in {"frame", "failed"} : GivesUp(res)
           \/ \E r \in ReplyType : Came(0, r) /\ Takes(r)
    BY <1>5, <1>8, <2>1, ReceiveFacts
  <2>3. QED  BY <1>1, <1>2, <1>8, <2>2
<1>9. QED  BY <1>6, <1>7, <1>8

-----------------------------------------------------------------------------
(* The types and the points of the requests.  One lemma per step.          *)

(* The end of a request keeps the books. *)
LEMMA FinishBooks ==
  ASSUME Books, Finish
  PROVE  LineTypes' /\ CallBooks' /\ OpBooks' /\ PointBooks'
<1>1. op' = Idle /\ call' = NoCall /\ pipe' = pipe
  BY DEF Finish
<1>2. LineTypes'
  BY <1>1 DEF Books, LineTypes
<1>3. CallBooks'
  BY <1>1, EmptyRecords, Constants DEF CallBooks
<1>4. OpBooks' /\ PointBooks'
  BY <1>1, EmptyRecords, Constants DEF OpBooks, PointBooks
<1>5. QED  BY <1>2, <1>3, <1>4

(* A new request finds the driver idle, and is what DOS asked for. *)
LEMMA RequestFacts ==
  ASSUME Books, NEW c \in OpCmds, NEW at \in Points, NEW u \in Units,
         NEW s \in Nat, NEW n \in 0..MaxCount, NEW v \in Vals,
         Request(c, at, u, s, n, v)
  PROVE  /\ op' \in OpType
         /\ op'.cmd = c /\ op'.at = at /\ op'.unit = u /\ op'.sector = s
         /\ op'.left = n /\ op'.val = v /\ op'.buf = <<>>
         /\ op.cmd = "idle" /\ op.at = "-" /\ call.cmd = "none"
<1>1. op' = [cmd |-> c, at |-> at, unit |-> u, sector |-> s, left |-> n,
             val |-> v, attempt |-> 0, buf |-> <<>>, info |-> NoInfo]
  BY DEF Request, Idle
<1>2. op' \in OpType
  BY <1>1, EmptyRecords, Constants DEF OpType
<1>3. op.cmd = "idle" /\ op.at = "-"
  BY EmptyRecords DEF Request, NewRequest
<1>4. call.cmd = "none"
  BY <1>3 DEF Books, PointBooks
<1>5. QED  BY <1>1, <1>2, <1>3, <1>4

(* The driver's tables are as they were. *)
LEMMA SameDriver ==
  ASSUME Books, UNCHANGED driverVars
  PROVE  DriverTypes'
BY DEF Books, DriverTypes, driverVars

(* The peer's tables are as they were. *)
LEMMA SamePeer ==
  ASSUME Books, UNCHANGED <<peerVars, misfit, outdated>>
  PROVE  PeerTypes'
BY DEF Books, PeerTypes, peerVars

(* The line is as it was. *)
LEMMA SameLine ==
  ASSUME Books, UNCHANGED pipe
  PROVE  LineTypes'
BY DEF Books, LineTypes

(* The exchange is as it was, and so is the slot it is for. *)
LEMMA SameCall ==
  ASSUME Books, UNCHANGED <<call, nio_unit_slot>>, op'.unit = op.unit
  PROVE  CallBooks'
BY DEF Books, CallBooks

(* There is no exchange. *)
LEMMA NoneCall ==
  ASSUME Books, call.cmd = "none", UNCHANGED call
  PROVE  CallBooks'
BY DEF Books, CallBooks

(* The exchange has just begun. *)
LEMMA NewCallBooks ==
  ASSUME Books, NEW c \in Commands, NEW u \in Units, NEW l \in Nat,
         NEW n \in Nat, NEW v \in Vals, l + n <= NumLba,
         Exchange(c, u, l, n, v), UNCHANGED nio_unit_slot, op'.unit = u
  PROVE  CallBooks' /\ LineTypes'
<1>1. /\ call' \in CallType
      /\ call'.cmd = c /\ call'.slot = nio_unit_slot[u] /\ call'.lba = l
      /\ call'.n = n /\ call'.val = v /\ call'.result = "pending"
      /\ LineTypes'
  BY ExchangeFacts
<1>2. c # "none"
  BY DEF Commands
<1>3. QED  BY <1>1, <1>2 DEF CallBooks

(* A request for the BPB keeps the books (Build_bpb_cmd). *)
LEMMA BuildBpbBooks ==
  ASSUME Books, NEW u \in Units, Build_bpb(u)
  PROVE  Books'
<1>1. Request("bpb", "info", u, 0, 0, 0)
      /\ UNCHANGED <<driverVars, call, pipe, peerVars, misfit, outdated>>
  BY DEF Build_bpb
<1>2. "bpb" \in OpCmds /\ "info" \in Points /\ 0 \in Nat /\ 0 \in 0..MaxCount
      /\ 0 \in Vals /\ 0 + 0 <= NumLba + MaxCount
  BY Constants DEF OpCmds, Points, Vals, Lbas
<1>3. /\ op' \in OpType
      /\ op'.cmd = "bpb" /\ op'.at = "info" /\ op'.sector = 0
      /\ op'.left = 0 /\ op'.buf = <<>> /\ call.cmd = "none"
  BY <1>1, <1>2, RequestFacts
<1>4. UNCHANGED call
  BY <1>1
<1>5. OpBooks'
  BY <1>2, <1>3, Constants DEF OpBooks
<1>6. PointBooks'
  BY <1>3, <1>4 DEF PointBooks
<1>7. DriverTypes' /\ PeerTypes' /\ LineTypes' /\ CallBooks'
  BY <1>1, <1>3, SameDriver, SamePeer, SameLine, NoneCall
<1>8. QED  BY <1>5, <1>6, <1>7 DEF Books

(* A request to read keeps them (Input_cmd). *)
LEMMA InputBooks ==
  ASSUME Books, NEW u \in Units, NEW s \in Lbas,
         NEW n \in 1..MaxCount, Input(u, s, n)
  PROVE  Books'
<1>1. Request("input", "loop", u, s, n, 0)
      /\ UNCHANGED <<driverVars, call, pipe, peerVars, misfit, outdated>>
  BY DEF Input
<1>2. "input" \in OpCmds /\ "loop" \in Points /\ s \in Nat /\ n \in 0..MaxCount
      /\ 0 \in Vals /\ s + n <= NumLba + MaxCount
  BY Constants DEF OpCmds, Points, Vals, Lbas
<1>3. /\ op' \in OpType
      /\ op'.cmd = "input" /\ op'.at = "loop" /\ op'.sector = s
      /\ op'.left = n /\ op'.buf = <<>> /\ call.cmd = "none"
  BY <1>1, <1>2, RequestFacts
<1>4. UNCHANGED call
  BY <1>1
<1>5. OpBooks'
  BY <1>2, <1>3, Constants DEF OpBooks
<1>6. PointBooks'
  BY <1>3, <1>4 DEF PointBooks
<1>7. DriverTypes' /\ PeerTypes' /\ LineTypes' /\ CallBooks'
  BY <1>1, <1>3, SameDriver, SamePeer, SameLine, NoneCall
<1>8. QED  BY <1>5, <1>6, <1>7 DEF Books

(* A request to write keeps them (Output_cmd). *)
LEMMA OutputBooks ==
  ASSUME Books, NEW u \in Units, NEW s \in Lbas,
         NEW n \in 1..MaxCount, NEW v \in Written, Output(u, s, n, v)
  PROVE  Books'
<1>1. Request("output", "info", u, s, n, v)
      /\ UNCHANGED <<driverVars, call, pipe, peerVars, misfit, outdated>>
  BY DEF Output
<1>2. "output" \in OpCmds /\ "info" \in Points /\ s \in Nat /\ n \in 0..MaxCount
      /\ v \in Vals /\ s + n <= NumLba + MaxCount
  BY Constants DEF OpCmds, Points, Vals, Lbas
<1>3. /\ op' \in OpType
      /\ op'.cmd = "output" /\ op'.at = "info" /\ op'.sector = s
      /\ op'.left = n /\ op'.buf = <<>> /\ call.cmd = "none"
  BY <1>1, <1>2, RequestFacts
<1>4. UNCHANGED call
  BY <1>1
<1>5. OpBooks'
  BY <1>2, <1>3, Constants DEF OpBooks
<1>6. PointBooks'
  BY <1>3, <1>4 DEF PointBooks
<1>7. DriverTypes' /\ PeerTypes' /\ LineTypes' /\ CallBooks'
  BY <1>1, <1>3, SameDriver, SamePeer, SameLine, NoneCall
<1>8. QED  BY <1>5, <1>6, <1>7 DEF Books

(* A request to check the medium keeps them (Media_check_cmd). *)
LEMMA MediaCheckBooks ==
  ASSUME Books, NEW u \in Units, Media_check(u)
  PROVE  Books'
<1>1. UNCHANGED <<nio_unit_slot, cache, cache_next, bpb, nio_batch_sectors,
                  call, pipe, peerVars, misfit, outdated>>
  BY DEF Media_check
<1>2. PeerTypes' /\ LineTypes'
  BY <1>1, SamePeer, SameLine
<1>3. CASE media_changed[u] = 1
  <2>1. /\ media_changed' = [media_changed EXCEPT ![u] = 0]
        /\ info_cache' = [info_cache EXCEPT ![u] = NoInfo]
        /\ UNCHANGED op
    BY <1>3 DEF Media_check
  <2>2. DriverTypes'
    BY <1>1, <2>1, EmptyRecords DEF Books, DriverTypes
  <2>3. CallBooks'
    BY <1>1, <2>1, SameCall
  <2>4. OpBooks' /\ PointBooks'
    BY <1>1, <2>1 DEF Books, OpBooks, PointBooks
  <2>5. QED  BY <1>2, <2>2, <2>3, <2>4 DEF Books
<1>4. CASE media_changed[u] # 1
  <2>1. Request("check", "info", u, 0, 0, 0)
        /\ UNCHANGED <<media_changed, info_cache>>
    BY <1>4 DEF Media_check
  <2>2. "check" \in OpCmds /\ "info" \in Points /\ 0 \in Nat
        /\ 0 \in 0..MaxCount /\ 0 \in Vals
    BY Constants DEF OpCmds, Points, Vals
  <2>3. /\ op' \in OpType
        /\ op'.cmd = "check" /\ op'.at = "info" /\ op'.sector = 0
        /\ op'.left = 0 /\ op'.buf = <<>> /\ call.cmd = "none"
    BY <2>1, <2>2, RequestFacts
  <2>4. DriverTypes' /\ CallBooks'
    BY <1>1, <2>1, <2>3, SameDriver, NoneCall DEF driverVars
  <2>5. OpBooks'
    BY <2>3, Constants DEF OpBooks
  <2>6. PointBooks'
    BY <1>1, <2>3 DEF PointBooks
  <2>7. QED  BY <1>2, <2>4, <2>5, <2>6 DEF Books
<1>5. QED  BY <1>3, <1>4

(* A control request to the peer keeps them. *)
LEMMA ControlCallBooks ==
  ASSUME Books, NEW u \in Units, Control_call(u)
  PROVE  Books'
<1>1. Request("control", "call", u, 0, 0, 0) /\ Exchange("CONTROL", u, 0, 0, 0)
      /\ UNCHANGED <<driverVars, peerVars, misfit, outdated>>
  BY DEF Control_call
<1>2. "control" \in OpCmds /\ "call" \in Points /\ 0 \in Nat
      /\ 0 \in 0..MaxCount /\ 0 \in Vals /\ "CONTROL" \in Commands
      /\ 0 + 0 <= NumLba
  BY Constants DEF OpCmds, Points, Vals, Commands
<1>3. /\ op' \in OpType
      /\ op'.cmd = "control" /\ op'.at = "call" /\ op'.sector = 0
      /\ op'.unit = u /\ op'.left = 0 /\ op'.buf = <<>>
  BY <1>1, <1>2, RequestFacts
<1>4. call'.cmd = "CONTROL"
  BY <1>1, <1>2, ExchangeFacts
<1>5. CallBooks' /\ LineTypes'
  BY <1>1, <1>2, <1>3, NewCallBooks DEF driverVars
<1>6. OpBooks'
  BY <1>3, Constants DEF OpBooks
<1>7. PointBooks'
  BY <1>3, <1>4 DEF PointBooks
<1>8. QED  BY <1>1, <1>5, <1>6, <1>7, SameDriver, SamePeer DEF Books

(* A remapping keeps them (Set_unit_map). *)
LEMMA SetUnitMapBooks ==
  ASSUME Books, NEW u \in Units, NEW s \in Slots, Set_unit_map(u, s)
  PROVE  Books'
<1>1. /\ cache' = [i \in DOMAIN cache |->
                     IF cache[i] # <<>> /\ cache[i][1].unit = u THEN <<>>
                     ELSE cache[i]]
      /\ info_cache' = [info_cache EXCEPT ![u] = NoInfo]
      /\ nio_unit_slot' = [nio_unit_slot EXCEPT ![u] = s]
      /\ media_changed' = [media_changed EXCEPT ![u] = 1]
      /\ outdated' \subseteq outdated
      /\ UNCHANGED <<cache_next, bpb, nio_batch_sectors, op, call, pipe,
                     peerVars, misfit>>
  BY DEF Set_unit_map
<1>2. DriverTypes'
  BY <1>1, EmptyRecords DEF Books, DriverTypes
<1>3. PeerTypes'
  BY <1>1 DEF Books, PeerTypes, peerVars
<1>4. call.cmd = "none"
  BY EmptyRecords DEF Set_unit_map, NewRequest, Books, PointBooks
<1>5. LineTypes' /\ CallBooks'
  BY <1>1, <1>4, SameLine, NoneCall
<1>6. OpBooks' /\ PointBooks'
  BY <1>1 DEF Books, OpBooks, PointBooks
<1>7. QED  BY <1>2, <1>3, <1>5, <1>6 DEF Books

(* A medium changed on the peer's side keeps them. *)
LEMMA HostMediaBooks ==
  ASSUME Books, NEW s \in Slots, HostMedia(s)
  PROVE  Books'
<1>1. UNCHANGED <<driverVars, op, call, pipe, misfit>>
  BY DEF HostMedia
<1>2. inserted' \in [Slots -> {0, 1}] /\ changed' \in [Slots -> {0, 1}]
  BY DEF HostMedia, Books, PeerTypes
<1>3. disk' \in [Slots -> [Lbas -> Vals]]
  <2>1. CASE UNCHANGED disk
    BY <2>1 DEF Books, PeerTypes
  <2>2. CASE disk' = [disk EXCEPT ![s] = [l \in Lbas |-> 1 - @[l]]]
    <3>1. disk \in [Slots -> [Lbas -> Vals]] /\ disk[s] \in [Lbas -> Vals]
      BY DEF Books, PeerTypes
    <3>2. \A v \in Vals : 1 - v \in Vals
      BY DEF Vals
    <3> DEFINE other == [l \in Lbas |-> 1 - disk[s][l]]
    <3>3. other \in [Lbas -> Vals]
      BY <3>1, <3>2
    <3>4. disk' = [disk EXCEPT ![s] = other]
      BY <2>2
    <3> HIDE DEF other
    <3>5. QED  BY <3>1, <3>3, <3>4
  <2>3. QED  BY <2>1, <2>2 DEF HostMedia
<1>4. outdated' \subseteq Units \X Lbas
  BY DEF HostMedia, Books, PeerTypes
<1>5. PeerTypes'
  BY <1>1, <1>2, <1>3, <1>4 DEF Books, PeerTypes
<1>6. OpBooks' /\ PointBooks' /\ CallBooks' /\ LineTypes'
  BY <1>1 DEF Books, OpBooks, PointBooks, CallBooks, LineTypes, driverVars
<1>7. QED  BY <1>1, <1>5, <1>6, SameDriver DEF Books

(* A step of the probe at start-up keeps them. *)
LEMMA InitProbeBooks ==
  ASSUME Books, InitProbe
  PROVE  Books'
<1>1. op.cmd = "init" /\ UNCHANGED <<driverVars, peerVars, misfit, outdated>>
  BY DEF InitProbe
<1>2. DriverTypes' /\ PeerTypes'
  BY <1>1, SameDriver, SamePeer
<1>3. CASE Exchange("INFO", 0, 0, 0, 0) /\ UNCHANGED op
  <2>1. "INFO" \in Commands /\ 0 \in Units /\ 0 \in Nat /\ 0 \in Vals
        /\ 0 + 0 <= NumLba
    BY Constants DEF Commands, Vals
  <2>2. op.unit = 0
    BY <1>1, <1>3 DEF Books, OpBooks
  <2>3. CallBooks' /\ LineTypes'
    BY <1>1, <1>3, <2>1, <2>2, NewCallBooks DEF driverVars
  <2>4. call'.cmd = "INFO"
    BY <1>3, <2>1, ExchangeFacts
  <2>5. OpBooks' /\ PointBooks'
    BY <1>1, <1>3, <2>4 DEF Books, OpBooks, PointBooks
  <2>6. QED  BY <1>2, <2>3, <2>5 DEF Books
<1>4. CASE /\ op' = IF call.result = "ok" THEN Idle
                    ELSE [Idle EXCEPT !.cmd = "absent"]
           /\ call' = NoCall /\ UNCHANGED pipe
  <2>1. CASE op' = Idle
    BY <1>2, <1>4, <2>1, FinishBooks DEF Finish, Books
  <2>2. CASE op' = [Idle EXCEPT !.cmd = "absent"]
    <3>1. op' = [cmd |-> "absent", at |-> "-", unit |-> 0, sector |-> 0,
                 left |-> 0, val |-> 0, attempt |-> 0, buf |-> <<>>,
                 info |-> NoInfo]
      BY <2>2 DEF Idle
    <3>2. OpBooks' /\ PointBooks'
      BY <1>4, <3>1, EmptyRecords, Constants
         DEF OpBooks, PointBooks, OpType, OpCmds, Points, Vals
    <3>3. CallBooks'
      BY <1>4, EmptyRecords, Constants DEF CallBooks
    <3>4. QED  BY <1>2, <1>4, <3>2, <3>3, SameLine DEF Books
  <2>3. QED  BY <1>4, <2>1, <2>2
<1>5. QED  BY <1>3, <1>4 DEF InitProbe

(* What came along is a sound reply. *)
LEMMA CameFacts ==
  ASSUME Books, call.cmd # "none", NEW done, NEW r, Came(done, r)
  PROVE  r \in ReplyType /\ FullReply(r)
<1>1. CASE r = Reply
  BY <1>1, ReplyFacts
<1>2. CASE \E k \in 1..Len(pipe) : r = pipe[k]
  <2>1. PICK k \in 1..Len(pipe) : r = pipe[k]
    BY <1>2
  <2>2. pipe \in Seq(ReplyType)
    BY DEF Books, LineTypes
  <2>3. QED  BY <2>1, <2>2 DEF Books, LineTypes
<1>3. QED  BY <1>1, <1>2 DEF Came

(* The exchange during one attempt: what it asks for stays, and if it         *)
(* succeeded its data is that of the reply taken. *)
CallKept ==
  /\ call' \in CallType
  /\ call'.cmd = call.cmd /\ call'.slot = call.slot /\ call'.lba = call.lba
  /\ call'.n = call.n /\ call'.val = call.val /\ call'.result # "none"
  /\ call'.result = "frame" => call.n > 1

(* An attempt that is repeated changes the count of the attempts only. *)
LEMMA TriesAgainFacts ==
  ASSUME Books, call.result = "pending", TriesAgain
  PROVE  CallKept /\ call'.result = "pending"
<1>1. call \in CallType /\ call.tries < Retries
  BY DEF Books, CallBooks, TriesAgain
<1>2. call.tries + 1 \in 0..Retries
  BY <1>1, Constants DEF CallType
<1>3. call' = [cmd |-> call.cmd, slot |-> call.slot, lba |-> call.lba,
               n |-> call.n, val |-> call.val, tries |-> call.tries + 1,
               result |-> call.result, data |-> call.data,
               info |-> call.info]
  BY <1>1 DEF TriesAgain, CallType
<1>4. QED  BY <1>1, <1>2, <1>3 DEF CallKept, CallType

(* An exchange that is given up has its result and nothing else changed. *)
LEMMA GivesUpFacts ==
  ASSUME Books, NEW res \in {"frame", "failed"}, GivesUp(res)
  PROVE  CallKept /\ call'.result = res
<1>1. call \in CallType
  BY DEF Books, CallBooks
<1>2. call' = [cmd |-> call.cmd, slot |-> call.slot, lba |-> call.lba,
               n |-> call.n, val |-> call.val, tries |-> 0,
               result |-> res, data |-> call.data, info |-> call.info]
  BY <1>1 DEF GivesUp, CallType
<1>3. res = "frame" => call.n > 1
  BY DEF GivesUp
<1>4. call' \in CallType
  BY <1>1, <1>2, Constants DEF CallType, Results
<1>5. QED  BY <1>2, <1>3, <1>4 DEF CallKept

(* An exchange that takes a reply has its result, and its data when it is *)
(* sound.                                                                 *)
LEMMA TakesFacts ==
  ASSUME Books, NEW r \in ReplyType, Takes(r)
  PROVE  /\ CallKept /\ r.cmd = call.cmd /\ call'.result \in {"ok", "failed"}
         /\ call'.result = "ok" => Sound(r) /\ call'.data = r.data
         /\ misfit' = IF r.old = 1 THEN 1 ELSE misfit
<1>1. call \in CallType
  BY DEF Books, CallBooks
<1>2. CASE Sound(r)
  <2>1. call' = [cmd |-> call.cmd, slot |-> call.slot, lba |-> call.lba,
                 n |-> call.n, val |-> call.val, tries |-> 0,
                 result |-> "ok", data |-> r.data, info |-> r.info]
    BY <1>1, <1>2 DEF Takes, CallType
  <2>2. call' \in CallType
    BY <1>1, <2>1, Constants DEF CallType, ReplyType, Results
  <2>3. QED  BY <1>2, <2>1, <2>2 DEF CallKept, Takes
<1>3. CASE ~Sound(r)
  <2>1. call' = [cmd |-> call.cmd, slot |-> call.slot, lba |-> call.lba,
                 n |-> call.n, val |-> call.val, tries |-> 0,
                 result |-> "failed", data |-> call.data, info |-> call.info]
    BY <1>1, <1>3 DEF Takes, CallType
  <2>2. call' \in CallType
    BY <1>1, <2>1, Constants DEF CallType, Results
  <2>3. QED  BY <2>1, <2>2 DEF CallKept, Takes
<1>4. QED  BY <1>2, <1>3

(* A batch that succeeded holds its sectors. *)
LEMMA SoundData ==
  ASSUME Books, NEW r \in ReplyType, FullReply(r), Sound(r),
         r.cmd = call.cmd, call.cmd \in Reads
  PROVE  Len(r.data) = call.n
<1>1. r.n \in Nat /\ call.n \in Nat
  BY DEF ReplyType, Books, CallBooks, CallType
<1>2. r.n >= call.n /\ r.n <= call.n /\ r.ok = 1
  BY DEF Sound, Reads
<1>3. Len(r.data) = r.n
  BY <1>2 DEF FullReply
<1>4. QED  BY <1>1, <1>2, <1>3

(* The peer's step keeps its tables. *)
LEMMA PeerExecutesTypes ==
  ASSUME Books, PeerExecutes
  PROVE  /\ disk' \in [Slots -> [Lbas -> Vals]]
         /\ inserted' \in [Slots -> {0, 1}] /\ changed' \in [Slots -> {0, 1}]
<1>1. call.slot \in Slots /\ call.val \in Vals
  BY DEF Books, CallBooks, CallType
<1>2. inserted' \in [Slots -> {0, 1}] /\ changed' \in [Slots -> {0, 1}]
  BY DEF PeerExecutes, Books, PeerTypes
<1> DEFINE new == [l \in Lbas |-> IF l \in call.lba..(call.lba + call.n - 1)
                                  THEN call.val ELSE disk[call.slot][l]]
<1>3. disk \in [Slots -> [Lbas -> Vals]]
  BY DEF Books, PeerTypes
<1>4. new \in [Lbas -> Vals]
  BY <1>1, <1>3
<1>5. disk' = disk \/ disk' = [disk EXCEPT ![call.slot] = new]
  BY DEF PeerExecutes
<1> HIDE DEF new
<1>6. disk' \in [Slots -> [Lbas -> Vals]]
  BY <1>3, <1>4, <1>5
<1>7. QED  BY <1>2, <1>6

(* One attempt of an exchange keeps the books (nio_transact). *)
LEMMA TransactBooks ==
  ASSUME Books, Transact
  PROVE  Books'
<1>1. /\ UNCHANGED <<driverVars, op, requests, outdated>>
      /\ call.result = "pending" /\ call.cmd # "none"
  BY TransactFacts
<1>2. PICK done \in {0, 1} :
        /\ done = 1 => PeerExecutes
        /\ done = 0 => UNCHANGED peerVars
        /\ LineKeeps(done)
        /\ \/ TriesAgain
           \/ \E res \in {"frame", "failed"} : GivesUp(res)
           \/ \E r \in ReplyType : Came(done, r) /\ Takes(r)
  BY TransactFacts
<1>3. DriverTypes' /\ OpBooks'
  BY <1>1, SameDriver DEF Books, OpBooks
<1>4. LineTypes'
  <2>1. \A i \in 1..Len(pipe') : FullReply(pipe'[i])
    BY <1>1, <1>2, CameFacts DEF LineKeeps
  <2>2. QED  BY <1>2, <2>1 DEF LineKeeps, LineTypes, FullReply
<1>5. CallKept /\ misfit' \in {0, 1}
      /\ (call.cmd \in Reads /\ call'.result = "ok" =>
            Len(call'.data) = call.n)
  <2>1. misfit \in {0, 1}
    BY DEF Books, PeerTypes
  <2>2. CASE TriesAgain
    BY <1>1, <2>1, <2>2, TriesAgainFacts DEF TriesAgain
  <2>3. ASSUME NEW res \in {"frame", "failed"}, GivesUp(res)
        PROVE  <1>5!:
    BY <2>1, <2>3, GivesUpFacts DEF GivesUp
  <2>4. ASSUME NEW r \in ReplyType, Came(done, r), Takes(r)
        PROVE  <1>5!:
    <3>1. FullReply(r)
      BY <1>1, <2>4, CameFacts
    <3>2. /\ CallKept /\ r.cmd = call.cmd
          /\ call'.result = "ok" => Sound(r) /\ call'.data = r.data
          /\ misfit' = IF r.old = 1 THEN 1 ELSE misfit
      BY <2>4, TakesFacts
    <3>3. call.cmd \in Reads /\ call'.result = "ok" =>
            Len(call'.data) = call.n
      BY <3>1, <3>2, SoundData
    <3>4. QED  BY <2>1, <3>2, <3>3
  <2>5. QED  BY <1>2, <2>2, <2>3, <2>4
<1>6. CallBooks'
  <2>1. /\ call.lba + call.n <= NumLba
        /\ call.slot = nio_unit_slot[op.unit]
    BY <1>1 DEF Books, CallBooks
  <2>2. UNCHANGED <<nio_unit_slot, op>>
    BY <1>1 DEF driverVars
  <2>3. QED  BY <1>1, <1>5, <2>1, <2>2 DEF CallBooks, CallKept
<1>7. PointBooks'
  <2>1. PointBooks /\ UNCHANGED op
    BY <1>1 DEF Books
  <2>2. QED  BY <1>5, <2>1 DEF PointBooks, CallKept
<1>8. PeerTypes'
  <2>1. outdated' \subseteq Units \X Lbas
    BY <1>1 DEF Books, PeerTypes
  <2>2. CASE done = 1
    BY <1>2, <1>5, <2>1, <2>2, PeerExecutesTypes DEF PeerTypes
  <2>3. CASE done = 0
    BY <1>2, <1>5, <2>1, <2>3 DEF Books, PeerTypes, peerVars
  <2>4. QED  BY <1>2, <2>2, <2>3
<1>9. QED  BY <1>3, <1>4, <1>6, <1>7, <1>8 DEF Books

(* A step inside a handler: what the request is for stays. *)
OpKept ==
  /\ op' \in OpType /\ op'.cmd = op.cmd /\ op'.unit = op.unit
  /\ op'.val = op.val

OpKeptAt(at) ==
  /\ OpKept /\ op'.at = at /\ op'.sector = op.sector /\ op'.left = op.left
  /\ op'.buf = op.buf

(* The books of a request that only goes on to another point. *)
LEMMA MovedOp ==
  ASSUME Books, NEW at, OpKeptAt(at),
         \/ op.cmd = "check" /\ at \in {"info", "got"}
         \/ op.cmd = "bpb" /\ at \in {"info", "got", "read", "clear"}
         \/ op.cmd = "input" /\ at \in {"loop", "fetch"}
         \/ op.cmd = "output" /\ at \in {"info", "got", "loop", "write"}
  PROVE  OpBooks'
BY DEF Books, OpBooks, OpKeptAt, OpKept

(* Which requests wait at which points. *)
LEMMA AtPoints ==
  ASSUME Books
  PROVE  /\ op.at = "info" => op.cmd \in {"check", "bpb", "output"}
         /\ op \in OpType /\ op.unit \in Units /\ op.info \in Infos
         /\ call \in CallType /\ call.info \in Infos
         /\ call.data \in Seq(Sectors) /\ call.n \in Nat /\ call.lba \in Nat
BY DEF Books, OpBooks, CallBooks, OpType, OpCmds, CallType

(* The end of a control request keeps the books. *)
LEMMA ControlDoneBooks ==
  ASSUME Books, ControlDone
  PROVE  Books'
<1>1. Finish /\ UNCHANGED <<driverVars, peerVars, misfit, outdated>>
  BY DEF ControlDone
<1>2. QED  BY <1>1, FinishBooks, SameDriver, SamePeer DEF Books

(* disk_info_cached keeps the books. *)
LEMMA DiskInfoCachedBooks ==
  ASSUME Books, Disk_info_cached
  PROVE  Books'
<1>1. op.at = "info" /\ call = NoCall
      /\ UNCHANGED <<driverVars, peerVars, misfit, outdated>>
  BY DEF Disk_info_cached
<1>2. DriverTypes' /\ PeerTypes'
  BY <1>1, SameDriver, SamePeer
<1>3. CASE info_cache[op.unit].ok = 1
  <2>1. op' = [op EXCEPT !.at = "got", !.info = info_cache[op.unit]]
        /\ UNCHANGED <<call, pipe>>
    BY <1>3 DEF Disk_info_cached
  <2>2. info_cache[op.unit] \in Infos
    BY AtPoints DEF Books, DriverTypes
  <2>3. OpKeptAt("got")
    BY <2>1, <2>2, AtPoints DEF OpKeptAt, OpKept, OpType, Points
  <2>4. OpBooks'
    BY <1>1, <2>3, AtPoints, MovedOp
  <2>5. PointBooks'
    BY <1>1, <2>1, <2>3, AtPoints, EmptyRecords
       DEF PointBooks, OpKeptAt, OpKept
  <2>6. CallBooks' /\ LineTypes'
    BY <1>1, <2>1, <2>3, SameCall, SameLine DEF OpKeptAt, OpKept, driverVars
  <2>7. QED  BY <1>2, <2>4, <2>5, <2>6 DEF Books
<1>4. CASE info_cache[op.unit].ok # 1
  <2>1. Exchange("INFO", op.unit, 0, 0, 0) /\ UNCHANGED op
    BY <1>4 DEF Disk_info_cached
  <2>2. "INFO" \in Commands /\ op.unit \in Units /\ 0 \in Nat /\ 0 \in Vals
        /\ 0 + 0 <= NumLba
    BY Constants, AtPoints DEF Commands, Vals
  <2>3. CallBooks' /\ LineTypes'
    BY <1>1, <2>1, <2>2, NewCallBooks DEF driverVars
  <2>4. call'.cmd = "INFO"
    BY <2>1, <2>2, ExchangeFacts
  <2>5. OpBooks' /\ PointBooks'
    BY <1>1, <2>1, <2>4, AtPoints DEF Books, OpBooks, PointBooks
  <2>6. QED  BY <1>2, <2>3, <2>5 DEF Books
<1>5. QED  BY <1>3, <1>4

(* So does disk_info_cached after its exchange. *)
LEMMA DiskInfoReadBooks ==
  ASSUME Books, Disk_info_read
  PROVE  Books'
<1> DEFINE info == IF call.result = "ok" THEN call.info ELSE NoInfo
<1>1. /\ op.at = "info" /\ call' = NoCall
      /\ op' = [op EXCEPT !.at = "got", !.info = info]
      /\ info_cache' = [info_cache EXCEPT ![op.unit] = info]
      /\ UNCHANGED <<nio_unit_slot, cache, cache_next, media_changed, bpb,
                     nio_batch_sectors, pipe, peerVars, misfit, outdated>>
  BY DEF Disk_info_read
<1>2. info \in Infos
  BY AtPoints, EmptyRecords
<1> HIDE DEF info
<1>3. OpKeptAt("got")
  BY <1>1, <1>2, AtPoints DEF OpKeptAt, OpKept, OpType, Points
<1>4. OpBooks'
  BY <1>1, <1>3, AtPoints, MovedOp
<1>5. DriverTypes'
  BY <1>1, <1>2, AtPoints DEF Books, DriverTypes
<1>6. PointBooks'
  BY <1>1, <1>3, AtPoints, EmptyRecords DEF PointBooks, OpKeptAt, OpKept
<1>7. CallBooks'
  BY <1>1, EmptyRecords, Constants DEF CallBooks
<1>8. QED  BY <1>1, <1>4, <1>5, <1>6, <1>7, SamePeer, SameLine DEF Books

(* So does the answer of Media_check_cmd. *)
LEMMA MediaCheckAnswerBooks ==
  ASSUME Books, Media_check_answer
  PROVE  Books'
<1>1. /\ info_cache' = info_cache
         \/ info_cache' = [info_cache EXCEPT ![op.unit] = NoInfo]
      /\ Finish
      /\ UNCHANGED <<nio_unit_slot, cache, cache_next, media_changed, bpb,
                     nio_batch_sectors, peerVars, misfit, outdated>>
  BY DEF Media_check_answer
<1>2. DriverTypes'
  BY <1>1, EmptyRecords DEF Books, DriverTypes
<1>3. QED  BY <1>1, <1>2, FinishBooks, SamePeer DEF Books

(* A boot sector states a size within the medium. *)
LEMMA SectorMaxType ==
  ASSUME NEW boot
  PROVE  SectorMax(boot) \in 1..NumLba
BY Constants DEF SectorMax

(* So does Build_bpb_cmd at its sector 0. *)
LEMMA BuildBpbSector0Books ==
  ASSUME Books, Build_bpb_sector0
  PROVE  Books'
<1>1. /\ op.cmd = "bpb" /\ op.at = "got"
      /\ UNCHANGED <<nio_unit_slot, cache, cache_next, info_cache,
                     media_changed, nio_batch_sectors, peerVars, misfit,
                     outdated>>
  BY DEF Build_bpb_sector0
<1>2. PeerTypes'
  BY <1>1, SamePeer
<1>3. ASSUME UNCHANGED bpb  PROVE DriverTypes'
  BY <1>1, <1>3, SameDriver DEF driverVars
<1>4. CASE Finish /\ UNCHANGED bpb
  BY <1>2, <1>3, <1>4, FinishBooks DEF Books
<1>5. CASE /\ bpb' = [bpb EXCEPT ![op.unit] = SectorMax(CachedData(op.unit, 0))]
           /\ Exchange("CLEAR_CHANGED", op.unit, 0, 0, 0)
           /\ op' = [op EXCEPT !.at = "clear", !.info = NoInfo]
  <2>1. "CLEAR_CHANGED" \in Commands /\ op.unit \in Units /\ 0 \in Nat
        /\ 0 \in Vals /\ 0 + 0 <= NumLba
    BY Constants, AtPoints DEF Commands, Vals
  <2>2. OpKeptAt("clear")
    BY <1>5, AtPoints, EmptyRecords DEF OpKeptAt, OpKept, OpType, Points
  <2>3. CallBooks' /\ LineTypes'
    BY <1>1, <1>5, <2>1, <2>2, NewCallBooks DEF OpKeptAt, OpKept
  <2>4. call'.cmd = "CLEAR_CHANGED"
    BY <1>5, <2>1, ExchangeFacts
  <2>5. OpBooks'
    BY <1>1, <2>2, MovedOp
  <2>6. PointBooks'
    BY <1>1, <2>2, <2>4 DEF PointBooks, OpKeptAt, OpKept
  <2>7. DriverTypes'
    BY <1>1, <1>5, SectorMaxType DEF Books, DriverTypes
  <2>8. QED  BY <1>2, <2>3, <2>5, <2>6, <2>7 DEF Books
<1>6. CASE /\ Exchange("READ_SECTOR", op.unit, 0, 1, 0)
           /\ op' = [op EXCEPT !.at = "read", !.info = NoInfo]
           /\ UNCHANGED bpb
  <2>1. "READ_SECTOR" \in Commands /\ op.unit \in Units /\ 0 \in Nat /\ 1 \in Nat
        /\ 0 \in Vals /\ 0 + 1 <= NumLba
    BY Constants, AtPoints DEF Commands, Vals
  <2>2. OpKeptAt("read")
    BY <1>6, AtPoints, EmptyRecords DEF OpKeptAt, OpKept, OpType, Points
  <2>3. CallBooks' /\ LineTypes'
    BY <1>1, <1>6, <2>1, <2>2, NewCallBooks DEF OpKeptAt, OpKept
  <2>4. call'.cmd = "READ_SECTOR" /\ call'.lba = 0 /\ call'.n = 1
    BY <1>6 DEF Exchange, NewCall, NoCall
  <2>5. OpBooks'
    BY <1>1, <2>2, MovedOp
  <2>6. PointBooks'
    BY <1>1, <2>2, <2>4 DEF PointBooks, OpKeptAt, OpKept
  <2>7. QED  BY <1>2, <1>3, <1>6, <2>3, <2>5, <2>6 DEF Books
<1>7. QED  BY <1>4, <1>5, <1>6 DEF Build_bpb_sector0

(* Storing sectors on the medium keeps the cache's type. *)
LEMMA StoreTypes ==
  ASSUME Books, NEW u \in Units, NEW s \in Nat, NEW data \in Seq(Sectors),
         s + Len(data) <= NumLba, cache_store(u, s, data)
  PROVE  /\ DOMAIN cache' = 0..(CacheSize - 1)
         /\ cache_next' \in 0..(CacheSize - 1)
         /\ \A i \in 0..(CacheSize - 1) :
              cache'[i] = <<>> \/ cache'[i][1] \in Entries
<1>1. /\ DOMAIN cache' = 0..(CacheSize - 1)
      /\ cache_next' \in 0..(CacheSize - 1)
      /\ \A i \in 0..(CacheSize - 1) :
           \/ cache'[i] = cache[i]
           \/ \E j \in 1..Len(data) :
                cache'[i] = <<[unit |-> u, lba |-> s + j - 1,
                               data |-> data[j]]>>
  BY StoreEntry DEF Books, DriverTypes
<1>2. \A j \in 1..Len(data) : s + j - 1 \in Lbas /\ data[j] \in Sectors
  <2>1. TAKE j \in 1..Len(data)
  <2>2. Len(data) \in Nat /\ data[j] \in Sectors
    OBVIOUS
  <2>3. QED  BY <2>2, Constants DEF Lbas
<1>3. ASSUME NEW i \in 0..(CacheSize - 1)
      PROVE  cache'[i] = <<>> \/ cache'[i][1] \in Entries
  <2>1. CASE cache'[i] = cache[i]
    BY <2>1 DEF Books, DriverTypes
  <2>2. ASSUME NEW j \in 1..Len(data),
               cache'[i] = <<[unit |-> u, lba |-> s + j - 1,
                              data |-> data[j]]>>
        PROVE  cache'[i][1] \in Entries
    BY <1>2, <2>2 DEF Entries
  <2>3. QED  BY <1>1, <2>1, <2>2
<1>4. QED  BY <1>1, <1>3

(* So does Build_bpb_cmd after the read of sector 0. *)
LEMMA BuildBpbReadBooks ==
  ASSUME Books, Build_bpb_read
  PROVE  Books'
<1>1. /\ op.cmd = "bpb" /\ op.at = "read" /\ Returned
      /\ UNCHANGED <<nio_unit_slot, info_cache, media_changed,
                     nio_batch_sectors, peerVars, misfit, outdated>>
  BY DEF Build_bpb_read
<1>2. PeerTypes'
  BY <1>1, SamePeer
<1>3. CASE call.result # "ok"
  <2>1. Finish /\ UNCHANGED <<cache, cache_next, bpb>>
    BY <1>3 DEF Build_bpb_read
  <2>2. DriverTypes'
    BY <1>1, <2>1, SameDriver DEF driverVars
  <2>3. QED  BY <1>2, <2>1, <2>2, FinishBooks DEF Books
<1>4. CASE call.result = "ok"
  <2>1. /\ cache_store(op.unit, 0, call.data)
        /\ bpb' = [bpb EXCEPT ![op.unit] = SectorMax(call.data[1])]
        /\ Exchange("CLEAR_CHANGED", op.unit, 0, 0, 0)
        /\ op' = [op EXCEPT !.at = "clear"]
    BY <1>4 DEF Build_bpb_read
  <2>2. "CLEAR_CHANGED" \in Commands /\ op.unit \in Units /\ 0 \in Nat
        /\ 0 \in Vals /\ 0 + 0 <= NumLba
    BY Constants, AtPoints DEF Commands, Vals
  <2>3. OpKeptAt("clear")
    BY <2>1, AtPoints DEF OpKeptAt, OpKept, OpType, Points
  <2>4. CallBooks' /\ LineTypes'
    BY <1>1, <2>1, <2>2, <2>3, NewCallBooks DEF OpKeptAt, OpKept
  <2>5. call'.cmd = "CLEAR_CHANGED"
    BY <2>1, <2>2, ExchangeFacts
  <2>6. OpBooks'
    BY <1>1, <2>3, MovedOp
  <2>7. PointBooks'
    BY <1>1, <2>3, <2>5 DEF PointBooks, OpKeptAt, OpKept
  <2>8. 0 + Len(call.data) <= NumLba
    BY <1>1, <1>4, Constants DEF Books, PointBooks, CallBooks, Reads
  <2>9. /\ DOMAIN cache' = 0..(CacheSize - 1)
        /\ cache_next' \in 0..(CacheSize - 1)
        /\ \A i \in 0..(CacheSize - 1) :
             cache'[i] = <<>> \/ cache'[i][1] \in Entries
    BY <2>1, <2>2, <2>8, AtPoints, StoreTypes
  <2>10. bpb' \in [Units -> 1..NumLba]
    BY <2>1, SectorMaxType DEF Books, DriverTypes
  <2>11. DriverTypes'
    BY <1>1, <2>9, <2>10 DEF Books, DriverTypes
  <2>12. QED  BY <1>2, <2>4, <2>6, <2>7, <2>11 DEF Books
<1>5. QED  BY <1>3, <1>4

(* So does Build_bpb_cmd after CLEAR_CHANGED. *)
LEMMA BuildBpbClearBooks ==
  ASSUME Books, Build_bpb_clear
  PROVE  Books'
<1>1. /\ info_cache' = info_cache
         \/ info_cache' = [info_cache EXCEPT ![op.unit] = NoInfo]
      /\ Finish
      /\ UNCHANGED <<nio_unit_slot, cache, cache_next, media_changed, bpb,
                     nio_batch_sectors, peerVars, misfit, outdated>>
  BY DEF Build_bpb_clear
<1>2. DriverTypes'
  BY <1>1, EmptyRecords DEF Books, DriverTypes
<1>3. QED  BY <1>1, <1>2, FinishBooks, SamePeer DEF Books

(* What the cache answers is a sector. *)
LEMMA CachedDataType ==
  ASSUME Books, NEW u, NEW l, Cached(u, l)
  PROVE  CachedData(u, l) \in Sectors
<1>1. /\ cache_find(u, l) \in 0..(CacheSize - 1)
      /\ cache[cache_find(u, l)] # <<>>
  BY FindMatches
<1>2. cache[cache_find(u, l)][1] \in Entries
  BY <1>1 DEF Books, DriverTypes
<1>3. QED  BY <1>2 DEF CachedData, Entries

(* The books of a request that has n sectors behind it and its buffer m       *)
(* sectors longer. *)
LEMMA AdvancedOp ==
  ASSUME Books, NEW n \in Nat, OpKept, op'.at = "loop",
         op.cmd \in {"input", "output"},
         n <= op.left, op'.sector = op.sector + n, op'.left = op.left - n,
         op.cmd = "output" => op'.buf = op.buf,
         Len(op'.buf) = Len(op.buf) \/ Len(op'.buf) = Len(op.buf) + n
  PROVE  OpBooks'
<1>1. op.sector \in Nat /\ op.left \in Nat /\ Len(op.buf) \in Nat
      /\ Len(op.buf) <= op.sector
      /\ op.sector + op.left <= NumLba + MaxCount
  BY Constants DEF Books, OpBooks, OpType
<1>2. op'.sector + op'.left = op.sector + op.left
      /\ Len(op'.buf) <= op'.sector
  BY <1>1
<1>3. op.cmd # "input" => op'.buf = <<>>
  BY DEF Books, OpBooks
<1>4. QED  BY <1>1, <1>2, <1>3 DEF OpBooks, OpKept

(* The head of Input_cmd's loop keeps the books. *)
LEMMA InputLoopBooks ==
  ASSUME Books, Input_loop
  PROVE  Books'
<1>1. /\ op.cmd = "input" /\ op.at = "loop"
      /\ UNCHANGED <<driverVars, peerVars, misfit, outdated>>
  BY DEF Input_loop
<1>2. DriverTypes' /\ PeerTypes'
  BY <1>1, SameDriver, SamePeer
<1>3. CASE Finish
  BY <1>2, <1>3, FinishBooks DEF Books
<1>4. CASE /\ op.left > 0 /\ Cached(op.unit, op.sector)
           /\ op' = [op EXCEPT !.sector = @ + 1, !.left = @ - 1,
                       !.buf = Append(@, CachedData(op.unit, op.sector))]
           /\ UNCHANGED <<call, pipe>>
  <2> DEFINE d == CachedData(op.unit, op.sector)
             b == Append(op.buf, d)
  <2>1. d \in Sectors
    BY <1>4, CachedDataType
  <2>2. op' = [op EXCEPT !.sector = op.sector + 1, !.left = op.left - 1,
                         !.buf = b]
    BY <1>4
  <2> HIDE DEF d
  <2>3. op.buf \in Seq(Sectors) /\ op.sector \in Nat /\ op.left \in 0..MaxCount
    BY AtPoints DEF OpType
  <2>4. b \in Seq(Sectors) /\ Len(b) = Len(op.buf) + 1
    BY <2>1, <2>3
  <2> HIDE DEF b
  <2>5. op.sector + 1 \in Nat /\ op.left - 1 \in 0..MaxCount
    BY <1>4, <2>3, Constants, SMTT(40)
  <2>6. /\ OpKept /\ op'.at = op.at /\ op'.sector = op.sector + 1
        /\ op'.left = op.left - 1 /\ op'.buf = b
    BY <2>2, <2>4, <2>5, AtPoints DEF OpKept, OpType
  <2>7. 1 \in Nat /\ 1 <= op.left
    BY <1>4, <2>3, Constants
  <2>8. OpBooks'
    BY <1>1, <2>4, <2>6, <2>7, AdvancedOp
  <2>9. PointBooks'
    BY <1>1, <1>4, <2>6 DEF Books, PointBooks, OpKept
  <2>10. CallBooks' /\ LineTypes'
    BY <1>1, <1>4, <2>6, SameCall, SameLine DEF OpKept, driverVars
  <2>11. QED  BY <1>2, <2>8, <2>9, <2>10 DEF Books
<1>5. CASE /\ op.left > 0 /\ op.sector < bpb[op.unit]
           /\ Exchange("READ_SECTORS", op.unit, op.sector, Batch, 0)
           /\ op' = [op EXCEPT !.at = "fetch"]
  <2>1. /\ Batch \in 1..op.left /\ op.sector + Batch <= NumLba
    BY <1>5, AtPoints, BatchSize DEF Books
  <2>2. "READ_SECTORS" \in Commands /\ op.unit \in Units /\ op.sector \in Nat
        /\ Batch \in Nat /\ 0 \in Vals
    BY <2>1, AtPoints, Constants DEF Commands, Vals, OpType
  <2>3. OpKeptAt("fetch")
    BY <1>5, AtPoints DEF OpKeptAt, OpKept, OpType, Points
  <2>4. CallBooks' /\ LineTypes'
    BY <1>1, <1>5, <2>1, <2>2, <2>3, NewCallBooks
       DEF OpKeptAt, OpKept, driverVars
  <2>5. call'.cmd = "READ_SECTORS" /\ call'.lba = op.sector /\ call'.n = Batch
    BY <1>5, <2>2, ExchangeFacts
  <2>6. OpBooks'
    BY <1>1, <2>3, MovedOp
  <2>7. PointBooks'
    BY <1>1, <2>1, <2>3, <2>5 DEF PointBooks, OpKeptAt, OpKept
  <2>8. QED  BY <1>2, <2>4, <2>6, <2>7 DEF Books
<1>6. QED  BY <1>3, <1>4, <1>5 DEF Input_loop

(* The batch limit never rises and never falls to nothing. *)
LEMMA DownshiftedType ==
  ASSUME Books, NEW n \in Nat, n > 1
  PROVE  Downshifted(n) \in 1..MaxBatch
<1>1. n \div 2 \in Nat /\ n \div 2 >= 1
  OBVIOUS
<1>2. nio_batch_sectors \in 1..MaxBatch
  BY DEF Books, DriverTypes
<1>3. QED  BY <1>1, <1>2, Constants DEF Downshifted

(* A batch that was read: on the medium, within the request. *)
LEMMA Fetched ==
  ASSUME Books, op.at = "fetch"
  PROVE  /\ call.cmd = "READ_SECTORS" /\ call.lba = op.sector
         /\ call.n \in 1..op.left /\ call.n \in Nat /\ call.n <= op.left
         /\ op.sector + call.n <= NumLba
         /\ call.result = "ok" => Len(call.data) = call.n
         /\ op.left \in 0..MaxCount /\ op.sector \in Nat
         /\ call.result = "frame" => call.n > 1
<1>1. /\ call.cmd = "READ_SECTORS" /\ call.lba = op.sector
      /\ call.n \in 1..op.left
      /\ call.lba + call.n <= NumLba
      /\ call.result = "ok" => Len(call.data) = call.n
      /\ call.result = "frame" => call.n > 1
  BY DEF Books, PointBooks, CallBooks, Reads
<1>2. op.left \in 0..MaxCount /\ op.sector \in Nat
  BY AtPoints DEF OpType
<1>3. call.n \in Nat /\ call.n <= op.left
  BY <1>1, <1>2, Constants
<1>4. QED  BY <1>1, <1>2, <1>3

(* Input_cmd keeps the books after the exchange for a batch. *)
LEMMA InputFetchedBooks ==
  ASSUME Books, Input_fetched
  PROVE  Books'
<1>1. /\ op.cmd = "input" /\ op.at = "fetch" /\ Returned
      /\ UNCHANGED <<nio_unit_slot, info_cache, media_changed, bpb, peerVars,
                     misfit, outdated>>
  BY DEF Input_fetched
<1>2. PeerTypes'
  BY <1>1, SamePeer
<1>3. CASE /\ call.result = "ok"
           /\ cache_store(op.unit, op.sector, call.data)
           /\ op' = [op EXCEPT !.at = "loop", !.attempt = 0,
                               !.sector = @ + call.n, !.left = @ - call.n,
                               !.buf = @ \o call.data]
           /\ call' = NoCall /\ UNCHANGED <<pipe, nio_batch_sectors>>
  <2> DEFINE b == op.buf \o call.data
  <2>1. op.buf \in Seq(Sectors) /\ call.data \in Seq(Sectors)
    BY AtPoints DEF OpType
  <2>2. b \in Seq(Sectors) /\ Len(b) = Len(op.buf) + call.n
        /\ 0 \in 0..IoRetries
    <3>1. Len(call.data) = call.n
      BY <1>1, <1>3, Fetched
    <3>2. Len(b) = Len(op.buf) + Len(call.data) /\ b \in Seq(Sectors)
      BY <2>1, ConcatProperties
    <3>3. QED  BY <3>1, <3>2, Constants
  <2>3. op' = [op EXCEPT !.at = "loop", !.attempt = 0,
                         !.sector = op.sector + call.n,
                         !.left = op.left - call.n, !.buf = b]
    BY <1>3
  <2> HIDE DEF b
  <2>4. op.sector + call.n \in Nat /\ op.left - call.n \in 0..MaxCount
    BY <1>1, Fetched, Constants
  <2>5. /\ OpKept /\ op'.at = "loop" /\ op'.sector = op.sector + call.n
        /\ op'.left = op.left - call.n /\ op'.buf = b
    BY <2>2, <2>3, <2>4, AtPoints DEF OpKept, OpType, Points
  <2>6. OpBooks'
    BY <1>1, <2>2, <2>5, Fetched, AdvancedOp
  <2>7. PointBooks'
    BY <1>1, <1>3, <2>5, EmptyRecords DEF PointBooks, OpKept
  <2>8. CallBooks' /\ LineTypes'
    BY <1>3, EmptyRecords, SameLine, Constants DEF CallBooks
  <2>9. /\ DOMAIN cache' = 0..(CacheSize - 1)
        /\ cache_next' \in 0..(CacheSize - 1)
        /\ \A i \in 0..(CacheSize - 1) :
             cache'[i] = <<>> \/ cache'[i][1] \in Entries
    BY <1>1, <1>3, <2>1, AtPoints, Fetched, StoreTypes
  <2>10. DriverTypes'
    BY <1>1, <1>3, <2>9 DEF Books, DriverTypes
  <2>11. QED  BY <1>2, <2>6, <2>7, <2>8, <2>10 DEF Books
<1>4. CASE /\ call.result = "frame"
           /\ nio_batch_sectors' = Downshifted(call.n)
           /\ op' = [op EXCEPT !.at = "loop", !.attempt = 0]
           /\ call' = NoCall /\ UNCHANGED <<pipe, cache, cache_next>>
  <2>1. OpKeptAt("loop")
    <3>1. 0 \in 0..IoRetries
      BY Constants
    <3>2. op' = [op EXCEPT !.at = "loop", !.attempt = 0]
      BY <1>4
    <3>3. QED  BY <3>1, <3>2, AtPoints DEF OpKeptAt, OpKept, OpType, Points
  <2>2. OpBooks'
    BY <1>1, <2>1, MovedOp
  <2>3. PointBooks'
    BY <1>1, <1>4, <2>1, EmptyRecords DEF PointBooks, OpKeptAt, OpKept
  <2>4. CallBooks' /\ LineTypes'
    BY <1>4, EmptyRecords, SameLine, Constants DEF CallBooks
  <2>5. Downshifted(call.n) \in 1..MaxBatch
    BY <1>1, <1>4, Fetched, DownshiftedType
  <2>6. DriverTypes'
    BY <1>1, <1>4, <2>5 DEF Books, DriverTypes
  <2>7. QED  BY <1>2, <2>2, <2>3, <2>4, <2>6 DEF Books
<1>5. CASE /\ call.result = "failed"
           /\ IF op.attempt < IoRetries
              THEN /\ op' = [op EXCEPT !.attempt = @ + 1]
                   /\ call' = [call EXCEPT !.result = "pending"]
                   /\ UNCHANGED pipe
              ELSE Finish
           /\ UNCHANGED <<cache, cache_next, nio_batch_sectors>>
  <2>1. DriverTypes'
    BY <1>1, <1>5, SameDriver DEF driverVars
  <2>2. CASE op.attempt < IoRetries
    <3>1. op.attempt + 1 \in 0..IoRetries
      BY <2>2, AtPoints, Constants DEF OpType
    <3>2. op' = [op EXCEPT !.attempt = op.attempt + 1]
          /\ call' = [call EXCEPT !.result = "pending"] /\ UNCHANGED pipe
      BY <1>5, <2>2
    <3>3. OpKeptAt("fetch")
      BY <1>1, <3>1, <3>2, AtPoints DEF OpKeptAt, OpKept, OpType
    <3>4. /\ call' \in CallType
          /\ call'.cmd = call.cmd /\ call'.slot = call.slot
          /\ call'.lba = call.lba /\ call'.n = call.n /\ call'.val = call.val
          /\ call'.result = "pending"
      BY <3>2, AtPoints DEF CallType
    <3>5. OpBooks'
      BY <1>1, <3>3, MovedOp
    <3>6. PointBooks'
      BY <1>1, <3>3, <3>4, Fetched DEF PointBooks, OpKeptAt, OpKept
    <3>7. CallBooks'
      BY <1>1, <3>3, <3>4, Fetched DEF Books, CallBooks, OpKeptAt, OpKept
    <3>8. QED  BY <1>2, <2>1, <3>2, <3>5, <3>6, <3>7, SameLine DEF Books
  <2>3. CASE ~(op.attempt < IoRetries)
    BY <1>2, <1>5, <2>1, <2>3, FinishBooks DEF Books
  <2>4. QED  BY <2>2, <2>3
<1>6. QED  BY <1>3, <1>4, <1>5 DEF Input_fetched

(* Output_cmd keeps the books after disk_info_cached. *)
LEMMA OutputStartBooks ==
  ASSUME Books, Output_start
  PROVE  Books'
<1>1. /\ op.cmd = "output" /\ op.at = "got"
      /\ UNCHANGED <<driverVars, peerVars, misfit, outdated>>
  BY DEF Output_start
<1>2. DriverTypes' /\ PeerTypes'
  BY <1>1, SameDriver, SamePeer
<1>3. CASE Finish
  BY <1>2, <1>3, FinishBooks DEF Books
<1>4. CASE op' = [op EXCEPT !.at = "loop", !.info = NoInfo]
           /\ UNCHANGED <<call, pipe>>
  <2>1. OpKeptAt("loop")
    BY <1>4, AtPoints, EmptyRecords DEF OpKeptAt, OpKept, OpType, Points
  <2>2. OpBooks'
    BY <1>1, <2>1, MovedOp
  <2>3. PointBooks'
    BY <1>1, <1>4, <2>1 DEF Books, PointBooks, OpKeptAt, OpKept
  <2>4. CallBooks' /\ LineTypes'
    BY <1>1, <1>4, <2>1, SameCall, SameLine DEF OpKeptAt, OpKept, driverVars
  <2>5. QED  BY <1>2, <2>2, <2>3, <2>4 DEF Books
<1>5. QED  BY <1>3, <1>4 DEF Output_start

(* The head of Output_cmd's loop keeps the books. *)
LEMMA OutputLoopBooks ==
  ASSUME Books, Output_loop
  PROVE  Books'
<1>1. /\ op.cmd = "output" /\ op.at = "loop"
      /\ UNCHANGED <<driverVars, peerVars, misfit, outdated>>
  BY DEF Output_loop
<1>2. DriverTypes' /\ PeerTypes'
  BY <1>1, SameDriver, SamePeer
<1>3. CASE op.left = 0 \/ op.sector >= bpb[op.unit]
  BY <1>2, <1>3, FinishBooks DEF Books, Output_loop
<1>4. CASE ~(op.left = 0 \/ op.sector >= bpb[op.unit])
  <2>1. /\ Exchange("WRITE_SECTORS", op.unit, op.sector, Batch, op.val)
        /\ op' = [op EXCEPT !.at = "write"]
    BY <1>4 DEF Output_loop
  <2>2. op.left > 0 /\ op.sector < bpb[op.unit] /\ op.val \in Vals
    <3>1. op.left \in Nat /\ op.sector \in Nat /\ op.unit \in Units
          /\ op.val \in Vals
      BY AtPoints, Constants DEF OpType
    <3>2. bpb[op.unit] \in Nat
      BY <3>1, Constants DEF Books, DriverTypes
    <3>3. QED  BY <1>4, <3>1, <3>2
  <2>3. /\ Batch \in 1..op.left /\ op.sector + Batch <= NumLba
    BY <2>2, AtPoints, BatchSize DEF Books
  <2>4. "WRITE_SECTORS" \in Commands /\ op.unit \in Units /\ op.sector \in Nat
        /\ Batch \in Nat
    BY <2>3, AtPoints, Constants DEF Commands, OpType
  <2>5. OpKeptAt("write")
    BY <2>1, AtPoints DEF OpKeptAt, OpKept, OpType, Points
  <2>6. CallBooks' /\ LineTypes'
    BY <1>1, <2>1, <2>2, <2>3, <2>4, <2>5, NewCallBooks
       DEF OpKeptAt, OpKept, driverVars
  <2>7. call'.cmd = "WRITE_SECTORS" /\ call'.lba = op.sector
        /\ call'.n = Batch /\ call'.val = op.val
    BY <2>1, <2>2, <2>4, ExchangeFacts
  <2>8. OpBooks'
    BY <1>1, <2>5, MovedOp
  <2>9. PointBooks'
    BY <1>1, <2>3, <2>5, <2>7 DEF PointBooks, OpKeptAt, OpKept
  <2>10. QED  BY <1>2, <2>6, <2>8, <2>9 DEF Books
<1>5. QED  BY <1>3, <1>4

(* A batch that was written. *)
LEMMA WrittenBatch ==
  ASSUME Books, op.at = "write"
  PROVE  /\ call.cmd = "WRITE_SECTORS" /\ call.lba = op.sector
         /\ call.val = op.val /\ call.slot = nio_unit_slot[op.unit]
         /\ call.n \in Nat /\ call.n <= op.left /\ op.sector + call.n <= NumLba
         /\ op.left \in 0..MaxCount /\ op.sector \in Nat
         /\ \A l \in call.lba..(call.lba + call.n - 1) : l \in Lbas
<1>1. /\ call.cmd = "WRITE_SECTORS" /\ call.lba = op.sector
      /\ call.val = op.val /\ call.n \in 1..op.left
      /\ call.lba + call.n <= NumLba
      /\ call.slot = nio_unit_slot[op.unit]
  BY DEF Books, PointBooks, CallBooks
<1>2. op.left \in 0..MaxCount /\ op.sector \in Nat
  BY AtPoints DEF OpType
<1>3. call.n \in Nat /\ call.n <= op.left
  BY <1>1, <1>2, Constants
<1>4. \A l \in call.lba..(call.lba + call.n - 1) : l \in Lbas
  BY <1>1, <1>2, <1>3, Constants DEF Lbas
<1>5. QED  BY <1>1, <1>2, <1>3, <1>4

(* Updating the cache keeps its type. *)
LEMMA UpdatedTypes ==
  ASSUME Books, NEW s, NEW n, NEW u \in Units, NEW v \in Vals,
         cache' = Updated(u, s, n, v)
  PROVE  /\ DOMAIN cache' = 0..(CacheSize - 1)
         /\ \A i \in 0..(CacheSize - 1) :
              cache'[i] = <<>> \/ cache'[i][1] \in Entries
<1>1. DOMAIN cache' = 0..(CacheSize - 1)
  BY DEF Updated
<1>2. nio_unit_slot[u] \in Slots
  BY DEF Books, DriverTypes
<1>3. ASSUME NEW i \in 0..(CacheSize - 1)
      PROVE  cache'[i] = <<>> \/ cache'[i][1] \in Entries
  <2>1. cache[i] = <<>> \/ cache[i][1] \in Entries
    BY DEF Books, DriverTypes
  <2>2. CASE Updated(u, s, n, v)[i] = cache[i]
    BY <2>1, <2>2
  <2>3. CASE /\ cache[i] # <<>>
             /\ Updated(u, s, n, v)[i] =
                  <<[unit |-> u, lba |-> cache[i][1].lba,
                     data |-> [slot |-> nio_unit_slot[u],
                               lba |-> cache[i][1].lba, val |-> v]]>>
    <3>1. cache[i][1].lba \in Lbas
      BY <2>1, <2>3 DEF Entries
    <3>2. QED  BY <1>2, <2>3, <3>1 DEF Entries, Sectors
  <2>4. QED  BY <2>2, <2>3, UpdatedEntry DEF Books
<1>4. QED  BY <1>1, <1>3

(* Output_cmd keeps the books after the exchange for a batch. *)
LEMMA OutputWrittenBooks ==
  ASSUME Books, Output_written
  PROVE  Books'
<1>1. /\ op.cmd = "output" /\ op.at = "write" /\ Returned
      /\ outdated' = outdated \cup LeftBehind
      /\ UNCHANGED <<nio_unit_slot, cache_next, info_cache, media_changed,
                     bpb, nio_batch_sectors, peerVars, misfit>>
  BY DEF Output_written
<1>2. PeerTypes'
  <2>1. LeftBehind \subseteq Units \X Lbas
    BY <1>1, WrittenBatch DEF LeftBehind
  <2>2. QED  BY <1>1, <2>1 DEF Books, PeerTypes, peerVars
<1>3. CASE call.result # "ok"
  <2>1. Finish /\ UNCHANGED cache
    BY <1>3 DEF Output_written
  <2>2. DriverTypes'
    BY <1>1, <2>1, SameDriver DEF driverVars
  <2>3. QED  BY <1>2, <2>1, <2>2, FinishBooks DEF Books
<1>4. CASE call.result = "ok"
  <2>1. /\ cache' = Updated(op.unit, op.sector, call.n, op.val)
        /\ op' = [op EXCEPT !.at = "loop", !.sector = op.sector + call.n,
                            !.left = op.left - call.n]
        /\ call' = NoCall /\ UNCHANGED pipe
    BY <1>4 DEF Output_written
  <2>2. op.sector + call.n \in Nat /\ op.left - call.n \in 0..MaxCount
    BY <1>1, WrittenBatch, Constants
  <2>3. /\ OpKept /\ op'.at = "loop" /\ op'.sector = op.sector + call.n
        /\ op'.left = op.left - call.n /\ op'.buf = op.buf
    BY <2>1, <2>2, AtPoints DEF OpKept, OpType, Points
  <2>4. OpBooks'
    BY <1>1, <2>3, WrittenBatch, AdvancedOp
  <2>5. PointBooks'
    BY <1>1, <2>1, <2>3, EmptyRecords DEF PointBooks, OpKept
  <2>6. CallBooks' /\ LineTypes'
    BY <2>1, EmptyRecords, SameLine, Constants DEF CallBooks
  <2>7. /\ DOMAIN cache' = 0..(CacheSize - 1)
        /\ \A i \in 0..(CacheSize - 1) :
             cache'[i] = <<>> \/ cache'[i][1] \in Entries
    BY <2>1, AtPoints, UpdatedTypes DEF OpType
  <2>8. DriverTypes'
    BY <1>1, <2>7 DEF Books, DriverTypes
  <2>9. QED  BY <1>2, <2>4, <2>5, <2>6, <2>8 DEF Books
<1>5. QED  BY <1>3, <1>4


-----------------------------------------------------------------------------
(* The books hold at first.                                                *)
LEMMA InitBooks ==
  ASSUME Init
  PROVE  Books
<1>1. DriverTypes
  BY EmptyRecords, Constants DEF Init, DriverTypes
<1>2. PeerTypes
  BY DEF Init, PeerTypes, Vals
<1>3. LineTypes
  BY Constants DEF Init, LineTypes
<1>4. op = [cmd |-> "init", at |-> "-", unit |-> 0, sector |-> 0, left |-> 0,
            val |-> 0, attempt |-> 0, buf |-> <<>>, info |-> NoInfo]
  BY DEF Init, Idle
<1>5. op \in OpType
  BY <1>4, EmptyRecords, Constants DEF OpType, OpCmds, Points, Vals
<1>6. call = [cmd |-> "BEGIN_HOST_SESSION", slot |-> 0, lba |-> 0, n |-> 0,
              val |-> 0, tries |-> 0, result |-> "pending", data |-> <<>>,
              info |-> NoInfo]
      /\ nio_unit_slot[0] = 0
  BY Constants DEF Init, NewCall, NoCall
<1>7. call \in CallType
  BY <1>6, EmptyRecords, Constants DEF CallType, Commands, Vals
<1>8. OpBooks
  BY <1>4, <1>5, Constants DEF OpBooks
<1>9. PointBooks
  BY <1>4, <1>6 DEF PointBooks
<1>10. CallBooks
  BY <1>4, <1>6, <1>7, Constants DEF CallBooks, Reads
<1>11. QED  BY <1>1, <1>2, <1>3, <1>8, <1>9, <1>10 DEF Books

(* Every step keeps the books. *)
LEMMA NextBooks ==
  ASSUME Books, [Next]_vars
  PROVE  Books'
<1>1. CASE UNCHANGED vars
  <2>1. UNCHANGED <<driverVars, op, call, pipe, peerVars, misfit, outdated>>
    BY <1>1 DEF vars
  <2>2. CallBooks' /\ OpBooks' /\ PointBooks'
    BY <2>1 DEF Books, CallBooks, OpBooks, PointBooks, driverVars
  <2>3. QED  BY <2>1, <2>2, SameDriver, SamePeer, SameLine DEF Books
<1>2. CASE Transact
  BY <1>2, TransactBooks
<1>3. CASE Handler
  BY <1>3, InitProbeBooks, ControlDoneBooks, DiskInfoCachedBooks,
     DiskInfoReadBooks, MediaCheckAnswerBooks, BuildBpbSector0Books,
     BuildBpbReadBooks, BuildBpbClearBooks, InputLoopBooks,
     InputFetchedBooks, OutputStartBooks, OutputLoopBooks, OutputWrittenBooks
     DEF Handler
<1>4. ASSUME NEW u \in Units, DosRequest(u)
      PROVE  Books'
  BY <1>4, MediaCheckBooks, BuildBpbBooks, ControlCallBooks, SetUnitMapBooks,
     InputBooks, OutputBooks DEF DosRequest
<1>5. ASSUME NEW u \in Units, HostMedia(nio_unit_slot[u])
      PROVE  Books'
  <2>1. nio_unit_slot[u] \in Slots
    BY DEF Books, DriverTypes
  <2>2. QED  BY <1>5, <2>1, HostMediaBooks
<1>6. QED  BY <1>1, <1>2, <1>3, <1>4, <1>5 DEF Next

(* The driver's tables, the request, the exchange and the line keep their    *)
(* types, every batch stays on the medium and within the request, and every *)
(* request is at a point of its handler with the exchange that point awaits *)
(* (commands.c, nio_transaction.c). *)
THEOREM DosBooks == Spec => []Books
<1>1. Init => Books
  BY InitBooks
<1>2. Books /\ [Next]_vars => Books'
  BY NextBooks
<1>3. QED  BY <1>1, <1>2, PTL DEF Spec

(* The driver is type correct for every number of units, slots and sectors,  *)
(* every size of the cache and the batch, and every limit of the retries. *)
THEOREM DosTypeCorrect == Spec => []TypeOK
<1>1. Books => TypeOK
  <2>1. SUFFICES ASSUME Books PROVE TypeOK
    OBVIOUS
  <2>2. op.sector \in 0..(NumLba + MaxCount)
    <3>1. op.sector \in Nat /\ op.left \in Nat
          /\ op.sector + op.left <= NumLba + MaxCount
      BY <2>1, Constants DEF Books, OpBooks, OpType
    <3>2. QED  BY <3>1, Constants
  <2>3. /\ op.cmd \in OpCmds /\ op.unit \in Units /\ op.left \in 0..MaxCount
        /\ op.attempt \in 0..IoRetries /\ op.info \in Infos
        /\ op.buf \in Seq(Sectors)
    BY <2>1 DEF Books, OpBooks, OpType
  <2>4. /\ call.cmd \in Commands \cup {"none"} /\ call.slot \in Slots
        /\ call.tries \in 0..Retries
        /\ call.result \in Results \cup {"none", "pending"}
    BY <2>1 DEF Books, CallBooks, CallType
  <2>5. DriverTypes /\ PeerTypes /\ Len(pipe) <= MaxLate
    BY <2>1 DEF Books, LineTypes
  <2>6. QED  BY <2>2, <2>3, <2>4, <2>5 DEF TypeOK, DriverTypes, PeerTypes, OpCmds
<1>2. QED  BY <1>1, DosBooks, PTL

-----------------------------------------------------------------------------
(* Most steps move nothing that the cache, the buffer and the line say about *)
(* the disk: they begin or end an exchange, or go on with a request.         *)

(* The exchange begins, is over, or goes on with its line as it is. *)
QuietCall ==
  \/ call'.cmd = "none"
  \/ call'.result = "pending" /\ \A i \in 1..Len(pipe') : pipe'[i].old = 1
  \/ /\ UNCHANGED pipe /\ op'.unit = op.unit
     /\ call'.cmd = call.cmd /\ call'.slot = call.slot /\ call'.lba = call.lba
     /\ call'.n = call.n /\ call'.val = call.val /\ call'.data = call.data
     /\ call'.result = call.result \/ call'.result = "pending"

QuietOp ==
  \/ op'.buf = <<>>
  \/ op'.buf = op.buf /\ op'.unit = op.unit /\ op'.sector = op.sector

Quiet ==
  /\ UNCHANGED <<cache, nio_unit_slot, disk, outdated, misfit>>
  /\ QuietCall /\ QuietOp /\ op.at # "write"

(* The steps that are not quiet, besides an attempt, a medium's change and a  *)
(* remapping. *)
StoresBoot ==
  /\ op.cmd = "bpb" /\ op.at = "read" /\ call.result = "ok"
  /\ cache_store(op.unit, 0, call.data)
  /\ call'.result = "pending" /\ \A i \in 1..Len(pipe') : pipe'[i].old = 1
  /\ op'.buf = op.buf /\ op'.unit = op.unit /\ op'.sector = op.sector
  /\ UNCHANGED <<nio_unit_slot, disk, outdated, misfit>>

TakesCopy ==
  /\ op.cmd = "input" /\ op.at = "loop" /\ Cached(op.unit, op.sector)
  /\ op'.sector = op.sector + 1 /\ op'.unit = op.unit
  /\ op'.buf = Append(op.buf, CachedData(op.unit, op.sector))
  /\ UNCHANGED <<cache, nio_unit_slot, disk, outdated, misfit, call>>

StoresBatch ==
  /\ op.cmd = "input" /\ op.at = "fetch" /\ call.result = "ok"
  /\ cache_store(op.unit, op.sector, call.data)
  /\ op'.sector = op.sector + call.n /\ op'.unit = op.unit
  /\ op'.buf = op.buf \o call.data
  /\ call'.cmd = "none"
  /\ UNCHANGED <<nio_unit_slot, disk, outdated, misfit>>

EndsWrite ==
  /\ op.cmd = "output" /\ op.at = "write" /\ op'.at # "write"
  /\ IF call.result = "ok"
     THEN cache' = Updated(op.unit, op.sector, call.n, op.val)
     ELSE UNCHANGED cache
  /\ outdated' = outdated \cup LeftBehind
  /\ call'.cmd = "none" /\ op'.buf = <<>>
  /\ UNCHANGED <<nio_unit_slot, disk, misfit>>

(* A request that ends is quiet. *)
LEMMA FinishQuiet ==
  ASSUME Finish
  PROVE  QuietCall /\ QuietOp
BY EmptyRecords DEF Finish, QuietCall, QuietOp

(* An exchange that begins is quiet. *)
LEMMA ExchangeQuiet ==
  ASSUME Books, NEW c \in Commands, NEW u \in Units, NEW l \in Nat,
         NEW n \in Nat, NEW v \in Vals, Exchange(c, u, l, n, v)
  PROVE  QuietCall
BY ExchangeFacts DEF QuietCall

(* The commands and the zero of a call without sectors. *)
LEMMA CommandTypes ==
  /\ {"INFO", "READ_SECTOR", "READ_SECTORS", "WRITE_SECTORS",
      "CLEAR_CHANGED", "CONTROL"} \subseteq Commands
  /\ 0 \in Vals /\ 0 \in Nat /\ 1 \in Nat
BY DEF Commands, Vals

(* A request that moves on without touching its buffer. *)
LEMMA MoveQuiet ==
  ASSUME Books,
         \/ \E at, info : op' = [op EXCEPT !.at = at, !.info = info]
         \/ \E at : op' = [op EXCEPT !.at = at]
         \/ \E at, k : op' = [op EXCEPT !.at = at, !.attempt = k]
         \/ \E k : op' = [op EXCEPT !.attempt = k]
         \/ UNCHANGED op
  PROVE  /\ QuietOp
         /\ op'.buf = op.buf /\ op'.unit = op.unit /\ op'.sector = op.sector
<1>1. op \in OpType
  BY AtPoints
<1>2. CASE \E at, info : op' = [op EXCEPT !.at = at, !.info = info]
  BY <1>1, <1>2 DEF OpType, QuietOp
<1>3. CASE \E at : op' = [op EXCEPT !.at = at]
  BY <1>1, <1>3 DEF OpType, QuietOp
<1>4. CASE \E at, k : op' = [op EXCEPT !.at = at, !.attempt = k]
  BY <1>1, <1>4 DEF OpType, QuietOp
<1>5. CASE \E k : op' = [op EXCEPT !.attempt = k]
  BY <1>1, <1>5 DEF OpType, QuietOp
<1>6. CASE UNCHANGED op
  BY <1>6 DEF QuietOp
<1>7. QED  BY <1>2, <1>3, <1>4, <1>5, <1>6

(* A new request is quiet. *)
LEMMA RequestQuiet ==
  ASSUME NEW c, NEW at, NEW u, NEW s, NEW n, NEW v, Request(c, at, u, s, n, v)
  PROVE  QuietOp /\ op.at # "write" /\ op.cmd = "idle"
BY EmptyRecords DEF Request, NewRequest, QuietOp, Idle

(* Every request of DOS but the remapping is quiet. *)
LEMMA RequestSteps ==
  ASSUME Books, NEW u \in Units,
         \/ Media_check(u) \/ Build_bpb(u) \/ Control_call(u)
         \/ \E s \in Lbas, n \in 1..MaxCount :
              Input(u, s, n) \/ \E v \in Written : Output(u, s, n, v)
  PROVE  Quiet
<1> USE DEF peerVars, driverVars
<1>1. CASE Media_check(u)
  <2>1. UNCHANGED <<cache, nio_unit_slot, disk, outdated, misfit, call, pipe>>
    BY <1>1 DEF Media_check
  <2>2. QuietOp /\ op.at # "write" /\ op.cmd = "idle"
    <3>1. CASE media_changed[u] = 1
      BY <1>1, <3>1, EmptyRecords DEF Media_check, NewRequest, QuietOp
    <3>2. CASE media_changed[u] # 1
      BY <1>1, <3>2, RequestQuiet DEF Media_check
    <3>3. QED  BY <3>1, <3>2
  <2>3. call'.cmd = "none"
    BY <2>1, <2>2 DEF Books, PointBooks
  <2>4. QED  BY <2>1, <2>2, <2>3 DEF Quiet, QuietCall
<1>2. ASSUME NEW c, NEW at, NEW s, NEW n, NEW v, Request(c, at, u, s, n, v),
             UNCHANGED <<driverVars, call, pipe, peerVars, misfit, outdated>>
      PROVE  Quiet
  <2>1. QuietOp /\ op.at # "write" /\ op.cmd = "idle"
    BY <1>2, RequestQuiet
  <2>2. call'.cmd = "none"
    BY <1>2, <2>1 DEF Books, PointBooks
  <2>3. QED  BY <1>2, <2>1, <2>2 DEF Quiet, QuietCall
<1>3. CASE Build_bpb(u)
  BY <1>2, <1>3 DEF Build_bpb
<1>4. ASSUME NEW s \in Lbas, NEW n \in 1..MaxCount, Input(u, s, n)
      PROVE  Quiet
  BY <1>2, <1>4 DEF Input
<1>5. ASSUME NEW s \in Lbas, NEW n \in 1..MaxCount, NEW v \in Written,
             Output(u, s, n, v)
      PROVE  Quiet
  BY <1>2, <1>5 DEF Output
<1>6. CASE Control_call(u)
  <2>1. Exchange("CONTROL", u, 0, 0, 0)
        /\ Request("control", "call", u, 0, 0, 0)
        /\ UNCHANGED <<driverVars, peerVars, misfit, outdated>>
    BY <1>6 DEF Control_call
  <2>2. QuietCall
    BY <2>1, CommandTypes, ExchangeQuiet
  <2>3. QED  BY <2>1, <2>2, RequestQuiet DEF Quiet
<1>7. QED  BY <1>1, <1>3, <1>4, <1>5, <1>6

(* What the steps of the handlers, the exchanges and the peer can be. *)
LEMMA HandlerSteps ==
  ASSUME Books, Handler
  PROVE  Quiet \/ StoresBoot \/ TakesCopy \/ StoresBatch \/ EndsWrite
<1> USE DEF peerVars, driverVars
<1>0. op.unit \in Units /\ op.sector \in Nat /\ 0 \in Units /\ op \in OpType
      /\ call \in CallType
  BY AtPoints, Constants DEF OpType
<1>1. CASE InitProbe
  <2>1. op.at # "write" /\ UNCHANGED <<driverVars, peerVars, misfit, outdated>>
    BY <1>1 DEF InitProbe, Books, OpBooks
  <2>2. CASE Exchange("INFO", 0, 0, 0, 0) /\ UNCHANGED op
    <3>1. QuietCall
      BY <1>0, <2>2, CommandTypes, ExchangeQuiet
    <3>2. QED  BY <2>1, <2>2, <3>1 DEF Quiet, QuietOp
  <2>3. CASE op' = (IF call.result = "ok" THEN Idle
                    ELSE [Idle EXCEPT !.cmd = "absent"])
             /\ call' = NoCall
    <3>1. op'.buf = <<>>
      BY <2>3 DEF Idle
    <3>2. QED  BY <2>1, <2>3, <3>1, EmptyRecords DEF Quiet, QuietCall, QuietOp
  <2>4. QED  BY <1>1, <2>2, <2>3 DEF InitProbe
<1>2. CASE ControlDone
  <2>1. op.at # "write"
    BY <1>2 DEF ControlDone, Books, OpBooks
  <2>2. QED  BY <1>2, <2>1, FinishQuiet DEF ControlDone, Quiet
<1>3. CASE Disk_info_cached
  <2>1. op.at # "write" /\ UNCHANGED <<driverVars, peerVars, misfit, outdated>>
    BY <1>3 DEF Disk_info_cached
  <2>2. CASE Exchange("INFO", op.unit, 0, 0, 0) /\ UNCHANGED op
    <3>1. QuietCall
      BY <1>0, <2>2, CommandTypes, ExchangeQuiet
    <3>2. QED  BY <2>1, <2>2, <3>1 DEF Quiet, QuietOp
  <2>3. CASE op' = [op EXCEPT !.at = "got", !.info = info_cache[op.unit]]
             /\ UNCHANGED <<call, pipe>>
    <3>1. QuietOp /\ op'.unit = op.unit
      BY <2>3, MoveQuiet
    <3>2. QED  BY <2>1, <2>3, <3>1 DEF Quiet, QuietCall
  <2>4. QED  BY <1>3, <2>2, <2>3 DEF Disk_info_cached
<1>4. CASE Disk_info_read
  <2>1. op.at # "write" /\ call' = NoCall
        /\ UNCHANGED <<cache, nio_unit_slot, disk, outdated, misfit>>
    BY <1>4 DEF Disk_info_read
  <2>2. \E at, info : op' = [op EXCEPT !.at = at, !.info = info]
    BY <1>4 DEF Disk_info_read
  <2>3. QuietOp
    BY <2>2, MoveQuiet
  <2>4. QED  BY <2>1, <2>3, EmptyRecords DEF Quiet, QuietCall
<1>5. CASE Media_check_answer
  BY <1>5, FinishQuiet DEF Media_check_answer, Quiet
<1>6. CASE Build_bpb_sector0
  <2>1. op.at # "write"
        /\ UNCHANGED <<cache, nio_unit_slot, disk, outdated, misfit>>
    BY <1>6 DEF Build_bpb_sector0
  <2>2. CASE Finish
    BY <2>1, <2>2, FinishQuiet DEF Quiet
  <2>3. CASE Exchange("CLEAR_CHANGED", op.unit, 0, 0, 0)
             /\ op' = [op EXCEPT !.at = "clear", !.info = NoInfo]
    <3>1. QuietCall
      BY <1>0, <2>3, CommandTypes, ExchangeQuiet
    <3>2. QuietOp
      BY <2>3, MoveQuiet
    <3>3. QED  BY <2>1, <3>1, <3>2 DEF Quiet
  <2>4. CASE Exchange("READ_SECTOR", op.unit, 0, 1, 0)
             /\ op' = [op EXCEPT !.at = "read", !.info = NoInfo]
    <3>1. QuietCall
      BY <1>0, <2>4, CommandTypes, ExchangeQuiet
    <3>2. QuietOp
      BY <2>4, MoveQuiet
    <3>3. QED  BY <2>1, <3>1, <3>2 DEF Quiet
  <2>5. QED  BY <1>6, <2>2, <2>3, <2>4 DEF Build_bpb_sector0
<1>7. CASE Build_bpb_read
  <2>1. op.cmd = "bpb" /\ op.at = "read"
        /\ UNCHANGED <<nio_unit_slot, disk, outdated, misfit>>
    BY <1>7 DEF Build_bpb_read
  <2>2. CASE call.result = "ok"
    <3>1. cache_store(op.unit, 0, call.data)
          /\ Exchange("CLEAR_CHANGED", op.unit, 0, 0, 0)
          /\ op' = [op EXCEPT !.at = "clear"]
      BY <1>7, <2>2 DEF Build_bpb_read
    <3>2. call'.result = "pending" /\ \A i \in 1..Len(pipe') : pipe'[i].old = 1
      BY <1>0, <3>1, CommandTypes, ExchangeFacts
    <3>3. op'.buf = op.buf /\ op'.unit = op.unit /\ op'.sector = op.sector
      BY <3>1, MoveQuiet
    <3>4. QED  BY <2>1, <2>2, <3>1, <3>2, <3>3 DEF StoresBoot
  <2>3. CASE call.result # "ok"
    BY <1>7, <2>1, <2>3, FinishQuiet DEF Build_bpb_read, Quiet
  <2>4. QED  BY <2>2, <2>3
<1>8. CASE Build_bpb_clear
  BY <1>8, FinishQuiet DEF Build_bpb_clear, Quiet
<1>9. CASE Input_loop
  <2>1. op.cmd = "input" /\ op.at = "loop"
        /\ UNCHANGED <<driverVars, peerVars, misfit, outdated>>
    BY <1>9 DEF Input_loop
  <2>2. CASE Finish
    BY <2>1, <2>2, FinishQuiet DEF Quiet
  <2>3. CASE /\ Cached(op.unit, op.sector)
             /\ op' = [op EXCEPT !.sector = @ + 1, !.left = @ - 1,
                         !.buf = Append(@, CachedData(op.unit, op.sector))]
             /\ UNCHANGED <<call, pipe>>
    <3> DEFINE b == Append(op.buf, CachedData(op.unit, op.sector))
    <3>1. op' = [op EXCEPT !.sector = op.sector + 1, !.left = op.left - 1,
                           !.buf = b]
      BY <2>3
    <3> HIDE DEF b
    <3>2. op'.sector = op.sector + 1 /\ op'.unit = op.unit /\ op'.buf = b
      BY <1>0, <3>1 DEF OpType
    <3>3. QED  BY <2>1, <2>3, <3>2 DEF TakesCopy, b
  <2>4. CASE /\ op.left > 0 /\ op.sector < bpb[op.unit]
             /\ Exchange("READ_SECTORS", op.unit, op.sector, Batch, 0)
             /\ op' = [op EXCEPT !.at = "fetch"]
    <3>1. Batch \in 1..op.left /\ op.left \in Nat
      BY <1>0, <2>4, BatchSize, Constants DEF Books, OpType
    <3>2. Batch \in Nat
      BY <3>1
    <3>3. QuietCall
      BY <1>0, <2>4, <3>2, CommandTypes, ExchangeQuiet
    <3>4. QuietOp
      BY <2>4, MoveQuiet
    <3>5. QED  BY <2>1, <3>3, <3>4 DEF Quiet
  <2>5. QED  BY <1>9, <2>2, <2>3, <2>4 DEF Input_loop
<1>10. CASE Input_fetched
  <2>1. op.cmd = "input" /\ op.at = "fetch"
        /\ UNCHANGED <<nio_unit_slot, disk, outdated, misfit>>
    BY <1>10 DEF Input_fetched
  <2>2. CASE /\ call.result = "ok"
             /\ cache_store(op.unit, op.sector, call.data)
             /\ op' = [op EXCEPT !.at = "loop", !.attempt = 0,
                                 !.sector = @ + call.n, !.left = @ - call.n,
                                 !.buf = @ \o call.data]
             /\ call' = NoCall
    <3> DEFINE b == op.buf \o call.data  l == op.left - call.n
               s == op.sector + call.n
    <3>1. op' = [op EXCEPT !.at = "loop", !.attempt = 0, !.sector = s,
                           !.left = l, !.buf = b]
      BY <2>2
    <3> HIDE DEF b, l, s
    <3>2. op'.sector = s /\ op'.unit = op.unit /\ op'.buf = b
      BY <1>0, <3>1 DEF OpType
    <3>3. QED  BY <2>1, <2>2, <3>2, EmptyRecords DEF StoresBatch, b, s
  <2>3. CASE /\ op' = [op EXCEPT !.at = "loop", !.attempt = 0]
             /\ call' = NoCall /\ UNCHANGED cache
    <3>1. QuietOp
      BY <2>3, MoveQuiet
    <3>2. QED  BY <2>1, <2>3, <3>1, EmptyRecords DEF Quiet, QuietCall
  <2>4. CASE /\ op' = [op EXCEPT !.attempt = op.attempt + 1]
             /\ call' = [call EXCEPT !.result = "pending"]
             /\ UNCHANGED <<pipe, cache>>
    <3>1. QuietOp /\ op'.unit = op.unit
      BY <2>4, MoveQuiet
    <3>2. /\ call'.cmd = call.cmd /\ call'.slot = call.slot
          /\ call'.lba = call.lba /\ call'.n = call.n /\ call'.val = call.val
          /\ call'.data = call.data /\ call'.result = "pending"
      BY <1>0, <2>4 DEF CallType
    <3>3. QED  BY <2>1, <2>4, <3>1, <3>2 DEF Quiet, QuietCall
  <2>5. CASE Finish /\ UNCHANGED cache
    BY <2>1, <2>5, FinishQuiet DEF Quiet
  <2>6. \/ <2>2!1 \/ <2>3!1 \/ <2>4!1 \/ <2>5!1
    BY <1>10 DEF Input_fetched
  <2>7. QED  BY <2>2, <2>3, <2>4, <2>5, <2>6
<1>11. CASE Output_start
  <2>1. op.at # "write" /\ UNCHANGED <<driverVars, peerVars, misfit, outdated>>
    BY <1>11 DEF Output_start
  <2>2. CASE Finish
    BY <2>1, <2>2, FinishQuiet DEF Quiet
  <2>3. CASE op' = [op EXCEPT !.at = "loop", !.info = NoInfo]
             /\ UNCHANGED <<call, pipe>>
    <3>1. QuietOp /\ op'.unit = op.unit
      BY <2>3, MoveQuiet
    <3>2. QED  BY <2>1, <2>3, <3>1 DEF Quiet, QuietCall
  <2>4. QED  BY <1>11, <2>2, <2>3 DEF Output_start
<1>12. CASE Output_loop
  <2>1. op.at # "write" /\ UNCHANGED <<driverVars, peerVars, misfit, outdated>>
    BY <1>12 DEF Output_loop
  <2>2. CASE Finish
    BY <2>1, <2>2, FinishQuiet DEF Quiet
  <2>3. CASE /\ ~(op.left = 0 \/ op.sector >= bpb[op.unit])
             /\ Exchange("WRITE_SECTORS", op.unit, op.sector, Batch, op.val)
             /\ op' = [op EXCEPT !.at = "write"]
    <3>1. op.left \in Nat /\ op.val \in Vals
      BY <1>0, Constants DEF OpType
    <3>2. bpb[op.unit] \in Nat
      BY <1>0, Constants DEF Books, DriverTypes
    <3>3. op.left > 0 /\ op.sector < bpb[op.unit]
      BY <1>0, <2>3, <3>1, <3>2
    <3>4. Batch \in 1..op.left
      BY <1>0, <3>3, BatchSize DEF Books
    <3>5. Batch \in Nat
      BY <3>1, <3>4
    <3>6. QuietCall
      BY <1>0, <2>3, <3>1, <3>5, CommandTypes, ExchangeQuiet
    <3>7. QuietOp
      BY <2>3, MoveQuiet
    <3>8. QED  BY <2>1, <3>6, <3>7 DEF Quiet
  <2>4. QED  BY <1>12, <2>2, <2>3 DEF Output_loop
<1>13. CASE Output_written
  <2>1. op.cmd = "output" /\ op.at = "write"
        /\ outdated' = outdated \cup LeftBehind
        /\ UNCHANGED <<nio_unit_slot, disk, misfit>>
    BY <1>13 DEF Output_written
  <2>2. op.buf = <<>>
    BY <2>1 DEF Books, OpBooks
  <2>3. CASE call.result # "ok"
    <3>1. op' = Idle /\ call' = NoCall /\ UNCHANGED cache
      BY <1>13, <2>3 DEF Output_written, Finish
    <3>2. QED  BY <2>1, <2>3, <3>1, EmptyRecords DEF EndsWrite
  <2>4. CASE call.result = "ok"
    <3>1. /\ cache' = Updated(op.unit, op.sector, call.n, op.val)
          /\ op' = [op EXCEPT !.at = "loop", !.sector = op.sector + call.n,
                              !.left = op.left - call.n]
          /\ call' = NoCall
      BY <1>13, <2>4 DEF Output_written
    <3>2. op'.at = "loop" /\ op'.buf = op.buf
      BY <1>0, <3>1 DEF OpType
    <3>3. QED  BY <2>1, <2>2, <2>4, <3>1, <3>2, EmptyRecords DEF EndsWrite
  <2>5. QED  BY <2>3, <2>4
<1>14. QED
  BY <1>1, <1>2, <1>3, <1>4, <1>5, <1>6, <1>7, <1>8, <1>9, <1>10, <1>11,
     <1>12, <1>13 DEF Handler

(* Every step is one of these. *)
LEMMA StepKinds ==
  ASSUME Books, [Next]_vars
  PROVE  \/ UNCHANGED vars \/ Transact \/ Quiet \/ StoresBoot \/ TakesCopy
         \/ StoresBatch \/ EndsWrite
         \/ \E u \in Units, s \in Slots : Set_unit_map(u, s)
         \/ \E u \in Units : HostMedia(nio_unit_slot[u])
<1>1. ASSUME NEW u \in Units, DosRequest(u)
      PROVE  Quiet \/ \E s \in Slots : Set_unit_map(u, s)
  BY <1>1, RequestSteps DEF DosRequest
<1>2. QED  BY <1>1, HandlerSteps DEF Next

-----------------------------------------------------------------------------
(* Whose data it is: the steps.                                            *)

(* A reply that came for the present exchange answers it. *)
LEMMA CameOwn ==
  ASSUME Books, LineOwn, call.cmd # "none", NEW done, NEW r, Came(done, r),
         r.old = 0
  PROVE  /\ r.cmd = call.cmd /\ r.n = call.n
         /\ call.cmd \in Reads /\ r.ok = 1 => Asked(r.data)
<1>1. CASE r = Reply
  <2>1. /\ r.cmd = call.cmd /\ r.n = call.n /\ (r.ok = 1 <=> Served)
        /\ call.cmd \in Reads /\ Served => \A j \in 1..call.n :
             r.data[j] = [slot |-> call.slot, lba |-> call.lba + j - 1,
                          val |-> disk[call.slot][call.lba + j - 1]]
    BY <1>1, ReplyFacts
  <2>2. ASSUME call.cmd \in Reads, r.ok = 1
        PROVE  Asked(r.data)
    <3>1. \A j \in 1..call.n :
            r.data[j] = [slot |-> call.slot, lba |-> call.lba + j - 1,
                         val |-> disk[call.slot][call.lba + j - 1]]
      BY <2>1, <2>2, Zenon
    <3>2. ASSUME NEW j \in 1..call.n
          PROVE  r.data[j].slot = call.slot
                 /\ r.data[j].lba = call.lba + j - 1
      <4> DEFINE v == disk[call.slot][call.lba + j - 1]
                 l == call.lba + j - 1
      <4>1. r.data[j] = [slot |-> call.slot, lba |-> l, val |-> v]
        BY <3>1
      <4> HIDE DEF v, l
      <4>2. r.data[j].slot = call.slot /\ r.data[j].lba = l
        BY <4>1
      <4>3. QED  BY <4>2 DEF l
    <3>3. QED  BY <3>2 DEF Asked
  <2>3. QED  BY <2>1, <2>2
<1>2. CASE \E k \in 1..Len(pipe) : r = pipe[k]
  BY <1>2 DEF LineOwn
<1>3. QED  BY <1>1, <1>2 DEF Came

(* A step that stores and copies nothing keeps the data the unit's own. *)
LEMMA QuietOwn ==
  ASSUME Books, CacheOwn, BufferOwn, CallOwn, LineOwn, Quiet
  PROVE  CacheOwn' /\ BufferOwn' /\ CallOwn' /\ LineOwn'
<1>1. CacheOwn'
  BY DEF Quiet, CacheOwn
<1>2. BufferOwn'
  <2>1. CASE op'.buf = <<>>
    BY <2>1 DEF BufferOwn
  <2>2. CASE op'.buf = op.buf /\ op'.unit = op.unit /\ op'.sector = op.sector
    BY <2>2 DEF BufferOwn, BufLba, Quiet
  <2>3. QED  BY <2>1, <2>2 DEF Quiet, QuietOp
<1>3. CallOwn' /\ LineOwn'
  <2>1. CASE call'.cmd = "none"
    BY <2>1 DEF CallOwn, LineOwn, Reads
  <2>2. CASE call'.result = "pending"
             /\ \A i \in 1..Len(pipe') : pipe'[i].old = 1
    BY <2>2 DEF CallOwn, LineOwn
  <2>3. CASE /\ UNCHANGED pipe
             /\ call'.cmd = call.cmd /\ call'.slot = call.slot
             /\ call'.lba = call.lba /\ call'.n = call.n
             /\ call'.data = call.data
             /\ call'.result = call.result \/ call'.result = "pending"
    BY <2>3 DEF CallOwn, LineOwn, Asked
  <2>4. QED  BY <2>1, <2>2, <2>3 DEF Quiet, QuietCall
<1>4. QED  BY <1>1, <1>2, <1>3

(* So does an attempt of an exchange: what it takes from the line answers *)
(* it.                                                                    *)
LEMMA TransactOwn ==
  ASSUME Books, OwnBooks, Transact
  PROVE  OwnBooks'
<1>1. SUFFICES ASSUME misfit' = 0
               PROVE  CacheOwn' /\ BufferOwn' /\ CallOwn' /\ LineOwn'
  BY DEF OwnBooks
<1>2. /\ UNCHANGED <<driverVars, op, requests, outdated>>
      /\ call.result = "pending" /\ call.cmd # "none"
  BY TransactFacts
<1>3. PICK done \in {0, 1} :
        /\ LineKeeps(done)
        /\ \/ TriesAgain
           \/ \E res \in {"frame", "failed"} : GivesUp(res)
           \/ \E r \in ReplyType : Came(done, r) /\ Takes(r)
  BY TransactFacts
<1>4. CallKept /\ misfit = 0 /\ (LineOwn => CallOwn')
  <2>1. misfit \in {0, 1}
    BY DEF Books, PeerTypes
  <2>2. CASE TriesAgain
    <3>1. CallKept /\ call'.result = "pending" /\ misfit = 0
      BY <1>1, <1>2, <2>2, TriesAgainFacts DEF TriesAgain
    <3>2. QED  BY <3>1 DEF CallOwn
  <2>3. ASSUME NEW res \in {"frame", "failed"}, GivesUp(res)
        PROVE  CallKept /\ misfit = 0 /\ (LineOwn => CallOwn')
    <3>1. CallKept /\ call'.result = res /\ misfit = 0
      BY <1>1, <2>3, GivesUpFacts DEF GivesUp
    <3>2. QED  BY <3>1 DEF CallOwn
  <2>4. ASSUME NEW r \in ReplyType, Came(done, r), Takes(r)
        PROVE  CallKept /\ misfit = 0 /\ (LineOwn => CallOwn')
    <3>1. /\ CallKept /\ r.cmd = call.cmd
          /\ call'.result = "ok" => Sound(r) /\ call'.data = r.data
          /\ misfit' = IF r.old = 1 THEN 1 ELSE misfit
      BY <2>4, TakesFacts
    <3>2. r.old = 0 /\ misfit = 0
      BY <1>1, <3>1 DEF ReplyType
    <3>3. ASSUME LineOwn, call.cmd \in Reads, call'.result = "ok"
          PROVE  Asked(r.data)
      BY <1>2, <2>4, <3>1, <3>2, <3>3, CameOwn DEF Sound
    <3>4. LineOwn => CallOwn'
      BY <3>1, <3>3 DEF CallOwn, CallKept, Asked
    <3>5. QED  BY <3>1, <3>2, <3>4
  <2>5. QED  BY <1>3, <2>2, <2>3, <2>4
<1>5. CacheOwn /\ BufferOwn /\ CallOwn /\ LineOwn
  BY <1>4 DEF OwnBooks
<1>6. CacheOwn' /\ BufferOwn'
  BY <1>2, <1>5 DEF CacheOwn, BufferOwn, BufLba, driverVars
<1>7. LineOwn'
  <2>1. ASSUME NEW i \in 1..Len(pipe'), pipe'[i].old = 0
        PROVE  /\ pipe'[i].cmd = call.cmd /\ pipe'[i].n = call.n
               /\ call.cmd \in Reads /\ pipe'[i].ok = 1 =>
                    Asked(pipe'[i].data)
    <3>1. Came(done, pipe'[i])
      BY <1>3, <2>1 DEF LineKeeps
    <3>2. QED  BY <1>2, <1>5, <2>1, <3>1, CameOwn
  <2>2. QED  BY <1>4, <2>1 DEF LineOwn, CallKept, Asked
<1>8. QED  BY <1>4, <1>5, <1>6, <1>7

(* So does a remapping, which empties the unit's entries (Set_unit_map). *)
LEMMA RemapOwn ==
  ASSUME Books, CacheOwn, NEW u \in Units, NEW s \in Slots, Set_unit_map(u, s)
  PROVE  CacheOwn' /\ BufferOwn' /\ CallOwn' /\ LineOwn'
<1>1. /\ cache' = [i \in DOMAIN cache |->
                     IF cache[i] # <<>> /\ cache[i][1].unit = u THEN <<>>
                     ELSE cache[i]]
      /\ nio_unit_slot' = [nio_unit_slot EXCEPT ![u] = s]
      /\ op' = Idle /\ call' = call
  BY DEF Set_unit_map, NewRequest
<1>2. call'.cmd = "none" /\ op'.buf = <<>>
  BY <1>1, EmptyRecords DEF Set_unit_map, NewRequest, Books, PointBooks
<1>3. BufferOwn' /\ CallOwn' /\ LineOwn'
  BY <1>2 DEF BufferOwn, CallOwn, LineOwn, Reads
<1>4. CacheOwn'
  <2>1. SUFFICES ASSUME NEW i \in DOMAIN cache', cache'[i] # <<>>
                 PROVE  /\ cache'[i][1].data.slot =
                             nio_unit_slot'[cache'[i][1].unit]
                        /\ cache'[i][1].data.lba = cache'[i][1].lba
    BY DEF CacheOwn
  <2>2. i \in DOMAIN cache /\ cache'[i] = cache[i] /\ cache[i][1].unit # u
        /\ cache[i] # <<>>
    BY <1>1, <2>1
  <2>3. cache[i][1].unit \in Units
    BY <2>2 DEF Books, DriverTypes, Entries
  <2>4. nio_unit_slot'[cache[i][1].unit] = nio_unit_slot[cache[i][1].unit]
    BY <1>1, <2>2, <2>3 DEF Books, DriverTypes
  <2>5. QED  BY <2>2, <2>4 DEF CacheOwn
<1>5. QED  BY <1>3, <1>4

(* What is stored from an answered read is the unit's. *)
LEMMA StoreOwn ==
  ASSUME Books, CacheOwn, CallOwn, call.cmd \in Reads, call.result = "ok",
         cache_store(op.unit, call.lba, call.data), UNCHANGED nio_unit_slot
  PROVE  CacheOwn'
<1>1. call.slot = nio_unit_slot[op.unit] /\ Len(call.data) = call.n
      /\ op.unit \in Units
  BY AtPoints DEF Books, CallBooks, Reads
<1>2. \A j \in 1..call.n : call.data[j].slot = call.slot
                           /\ call.data[j].lba = call.lba + j - 1
  BY DEF CallOwn, Asked
<1>3. /\ DOMAIN cache' = 0..(CacheSize - 1)
      /\ \A i \in 0..(CacheSize - 1) :
           \/ cache'[i] = cache[i]
           \/ \E j \in 1..Len(call.data) :
                cache'[i] = <<[unit |-> op.unit, lba |-> call.lba + j - 1,
                               data |-> call.data[j]]>>
  BY AtPoints, StoreEntry DEF Books, DriverTypes
<1>4. DOMAIN cache = 0..(CacheSize - 1)
  BY DEF Books, DriverTypes
<1>5. SUFFICES ASSUME NEW i \in DOMAIN cache', cache'[i] # <<>>
               PROVE  /\ cache'[i][1].data.slot =
                           nio_unit_slot[cache'[i][1].unit]
                      /\ cache'[i][1].data.lba = cache'[i][1].lba
  BY DEF CacheOwn
<1>6. CASE cache'[i] = cache[i]
  BY <1>3, <1>4, <1>5, <1>6 DEF CacheOwn
<1>7. ASSUME NEW j \in 1..Len(call.data),
             cache'[i] = <<[unit |-> op.unit, lba |-> call.lba + j - 1,
                            data |-> call.data[j]]>>
      PROVE  /\ cache'[i][1].data.slot = nio_unit_slot[cache'[i][1].unit]
             /\ cache'[i][1].data.lba = cache'[i][1].lba
  <2>1. cache'[i][1] = [unit |-> op.unit, lba |-> call.lba + j - 1,
                        data |-> call.data[j]]
    BY <1>7
  <2>2. call.data[j].slot = call.slot /\ call.data[j].lba = call.lba + j - 1
    BY <1>1, <1>2, <1>7
  <2>3. QED  BY <1>1, <2>1, <2>2
<1>8. QED  BY <1>3, <1>5, <1>6, <1>7

(* So does the store of a boot sector (Build_bpb_cmd). *)
LEMMA StoresBootOwn ==
  ASSUME Books, CacheOwn, BufferOwn, CallOwn, StoresBoot
  PROVE  CacheOwn' /\ BufferOwn' /\ CallOwn' /\ LineOwn'
<1>1. call.cmd \in Reads /\ call.lba = 0 /\ call.result = "ok"
  BY DEF StoresBoot, Books, PointBooks, Reads
<1>2. CacheOwn'
  BY <1>1, StoreOwn DEF StoresBoot
<1>3. BufferOwn'
  BY DEF StoresBoot, BufferOwn, BufLba
<1>4. CallOwn' /\ LineOwn'
  BY DEF StoresBoot, CallOwn, LineOwn
<1>5. QED  BY <1>2, <1>3, <1>4

(* A buffer that grows by sectors of the unit, in order from the present one, *)
(* is still the unit's, in order. *)
LEMMA GrownBuffer ==
  ASSUME Books, BufferOwn, NEW data \in Seq(Sectors), NEW n \in Nat,
         Len(data) = n, UNCHANGED nio_unit_slot, op'.unit = op.unit,
         op'.sector = op.sector + n, op'.buf = op.buf \o data,
         \A j \in 1..n : /\ data[j].slot = nio_unit_slot[op.unit]
                         /\ data[j].lba = op.sector + j - 1
  PROVE  BufferOwn'
<1> DEFINE m == Len(op.buf)  s == op.sector
<1>1. op.buf \in Seq(Sectors) /\ m \in Nat /\ s \in Nat
  BY AtPoints DEF OpType
<1>2. /\ Len(op'.buf) = m + n /\ DOMAIN op'.buf = 1..(m + n)
      /\ \A i \in 1..m : op'.buf[i] = op.buf[i]
      /\ \A j \in 1..n : op'.buf[m + j] = data[j]
  <2>1. op.buf \o data \in Seq(Sectors) /\ Len(op.buf \o data) = m + n
    BY <1>1, ConcatProperties
  <2>2. \A i \in 1..m : (op.buf \o data)[i] = op.buf[i]
    BY <1>1, ConcatProperties
  <2>3. \A j \in 1..n : (op.buf \o data)[m + j] = data[j]
    <3>1. TAKE j \in 1..n
    <3>2. m + j \in 1..(m + n) /\ m + j > m /\ (m + j) - m = j
      BY <1>1
    <3>3. QED  BY <1>1, <3>2, ConcatProperties
  <2>4. DOMAIN (op.buf \o data) = 1..Len(op.buf \o data)
    BY <2>1
  <2>5. QED  BY <2>1, <2>2, <2>3, <2>4
<1>3. SUFFICES ASSUME NEW i \in 1..(m + n)
               PROVE  /\ op'.buf[i].slot = nio_unit_slot[op.unit]
                      /\ op'.buf[i].lba = (s + n) - (m + n) + i - 1
  BY <1>2 DEF BufferOwn, BufLba
<1>4. CASE i \in 1..m
  <2>1. op.buf[i].slot = nio_unit_slot[op.unit]
        /\ op.buf[i].lba = s - m + i - 1
    BY <1>1, <1>4 DEF BufferOwn, BufLba
  <2> HIDE DEF m, s
  <2>2. s - m + i - 1 = (s + n) - (m + n) + i - 1
    BY <1>1, <1>3
  <2>3. QED  BY <1>2, <1>4, <2>1, <2>2
<1>5. CASE i \notin 1..m
  <2> HIDE DEF m, s
  <2>1. /\ i - m \in 1..n /\ i = m + (i - m)
        /\ s + (i - m) - 1 = (s + n) - (m + n) + i - 1
    BY <1>1, <1>3, <1>5
  <2>2. op'.buf[i] = data[i - m]
    BY <1>2, <2>1
  <2>3. data[i - m].slot = nio_unit_slot[op.unit]
        /\ data[i - m].lba = s + (i - m) - 1
    BY <2>1 DEF s
  <2>4. QED  BY <2>1, <2>2, <2>3
<1>6. QED  BY <1>4, <1>5

(* So does the copy of a cached sector to the buffer (Input_cmd). *)
LEMMA TakesCopyOwn ==
  ASSUME Books, CacheOwn, BufferOwn, TakesCopy
  PROVE  CacheOwn' /\ BufferOwn' /\ CallOwn' /\ LineOwn'
<1>1. call'.cmd = "none"
  BY DEF TakesCopy, Books, PointBooks
<1>2. CallOwn' /\ LineOwn' /\ CacheOwn'
  BY <1>1 DEF CallOwn, LineOwn, Reads, TakesCopy, CacheOwn
<1> DEFINE d == CachedData(op.unit, op.sector)
<1>3. d \in Sectors /\ op.buf \in Seq(Sectors)
  BY CachedDataType, AtPoints DEF TakesCopy, OpType
<1>4. d.slot = nio_unit_slot[op.unit] /\ d.lba = op.sector
  <2>1. /\ cache_find(op.unit, op.sector) \in 0..(CacheSize - 1)
        /\ cache[cache_find(op.unit, op.sector)] # <<>>
        /\ cache[cache_find(op.unit, op.sector)][1].unit = op.unit
        /\ cache[cache_find(op.unit, op.sector)][1].lba = op.sector
    BY FindMatches DEF TakesCopy
  <2>2. DOMAIN cache = 0..(CacheSize - 1)
    BY DEF Books, DriverTypes
  <2>3. QED  BY <2>1, <2>2 DEF CacheOwn, CachedData
<1>5. /\ op'.sector = op.sector + 1 /\ op'.unit = op.unit
      /\ op'.buf = Append(op.buf, d) /\ UNCHANGED nio_unit_slot
      /\ op.sector \in Nat
  BY AtPoints DEF TakesCopy, OpType
<1> HIDE DEF d
<1>6. op'.buf = op.buf \o <<d>> /\ <<d>> \in Seq(Sectors) /\ Len(<<d>>) = 1
  BY <1>3, <1>5
<1>7. \A j \in 1..1 : /\ <<d>>[j].slot = nio_unit_slot[op.unit]
                      /\ <<d>>[j].lba = op.sector + j - 1
  BY <1>4, <1>5
<1>8. 1 \in Nat
  OBVIOUS
<1> DEFINE one == <<d>>
<1>9. /\ one \in Seq(Sectors) /\ Len(one) = 1 /\ op'.buf = op.buf \o one
      /\ \A j \in 1..1 : /\ one[j].slot = nio_unit_slot[op.unit]
                         /\ one[j].lba = op.sector + j - 1
  BY <1>6, <1>7
<1> HIDE DEF one
<1>10. BufferOwn'
  BY <1>5, <1>8, <1>9, GrownBuffer
<1>11. QED  BY <1>2, <1>10

(* So does the store of a batch that was read (Input_cmd). *)
LEMMA StoresBatchOwn ==
  ASSUME Books, CacheOwn, BufferOwn, CallOwn, StoresBatch
  PROVE  CacheOwn' /\ BufferOwn' /\ CallOwn' /\ LineOwn'
<1>1. /\ call.cmd \in Reads /\ call.lba = op.sector /\ call.result = "ok"
      /\ Len(call.data) = call.n /\ call.slot = nio_unit_slot[op.unit]
      /\ call.data \in Seq(Sectors) /\ call.n \in Nat
  BY AtPoints, Fetched DEF StoresBatch, Reads, Books, CallBooks
<1>2. CacheOwn'
  BY <1>1, StoreOwn DEF StoresBatch
<1>3. \A j \in 1..call.n : /\ call.data[j].slot = nio_unit_slot[op.unit]
                           /\ call.data[j].lba = op.sector + j - 1
  BY <1>1 DEF CallOwn, Asked
<1>4. BufferOwn'
  BY <1>1, <1>3, GrownBuffer DEF StoresBatch
<1>5. CallOwn' /\ LineOwn'
  BY DEF StoresBatch, CallOwn, LineOwn, Reads
<1>6. QED  BY <1>2, <1>4, <1>5

(* So does the end of a write, which changes the content of entries only. *)
LEMMA EndsWriteOwn ==
  ASSUME Books, CacheOwn, EndsWrite
  PROVE  CacheOwn' /\ BufferOwn' /\ CallOwn' /\ LineOwn'
<1>1. BufferOwn' /\ CallOwn' /\ LineOwn'
  BY DEF EndsWrite, BufferOwn, CallOwn, LineOwn, Reads
<1>2. CASE UNCHANGED cache
  BY <1>1, <1>2 DEF EndsWrite, CacheOwn
<1>3. CASE cache' = Updated(op.unit, op.sector, call.n, op.val)
  <2>1. DOMAIN cache' = 0..(CacheSize - 1) /\ DOMAIN cache = 0..(CacheSize - 1)
        /\ UNCHANGED nio_unit_slot
    BY <1>3 DEF Updated, Books, DriverTypes, EndsWrite
  <2>2. SUFFICES ASSUME NEW i \in 0..(CacheSize - 1), cache'[i] # <<>>
                 PROVE  /\ cache'[i][1].data.slot =
                             nio_unit_slot[cache'[i][1].unit]
                        /\ cache'[i][1].data.lba = cache'[i][1].lba
    BY <1>1, <2>1 DEF CacheOwn
  <2>3. CASE cache'[i] = cache[i]
    BY <2>1, <2>2, <2>3 DEF CacheOwn
  <2>4. CASE cache'[i] =
               <<[unit |-> op.unit, lba |-> cache[i][1].lba,
                  data |-> [slot |-> nio_unit_slot[op.unit],
                            lba |-> cache[i][1].lba, val |-> op.val]]>>
    BY <2>4
  <2>5. QED  BY <1>3, <2>3, <2>4, UpdatedEntry DEF Books
<1>4. QED  BY <1>2, <1>3 DEF EndsWrite

(* Every step keeps the data the unit's own. *)
LEMMA NextOwn ==
  ASSUME Books, OwnBooks, [Next]_vars
  PROVE  OwnBooks'
<1>1. CASE UNCHANGED vars
  <2>1. UNCHANGED <<cache, nio_unit_slot, op, call, pipe, misfit>>
    BY <1>1 DEF vars, driverVars
  <2>2. QED  BY <2>1 DEF OwnBooks, CacheOwn, BufferOwn, BufLba, CallOwn,
                         LineOwn, Asked
<1>2. CASE Transact
  BY <1>2, TransactOwn
<1>3. CASE \E u \in Units : HostMedia(nio_unit_slot[u])
  <2>1. UNCHANGED <<cache, nio_unit_slot, op, call, pipe, misfit>>
    BY <1>3 DEF HostMedia, driverVars
  <2>2. QED  BY <2>1 DEF OwnBooks, CacheOwn, BufferOwn, BufLba, CallOwn,
                         LineOwn, Asked
<1>4. CASE Quiet
  BY <1>4, QuietOwn DEF OwnBooks, Quiet
<1>5. CASE StoresBoot
  BY <1>5, StoresBootOwn DEF OwnBooks, StoresBoot
<1>6. CASE TakesCopy
  BY <1>6, TakesCopyOwn DEF OwnBooks, TakesCopy
<1>7. CASE StoresBatch
  BY <1>7, StoresBatchOwn DEF OwnBooks, StoresBatch
<1>8. CASE EndsWrite
  BY <1>8, EndsWriteOwn DEF OwnBooks, EndsWrite
<1>9. CASE \E u \in Units, s \in Slots : Set_unit_map(u, s)
  <2>1. misfit' = misfit
    BY <1>9 DEF Set_unit_map
  <2>2. QED  BY <1>9, <2>1, RemapOwn DEF OwnBooks
<1>10. QED  BY <1>1, <1>2, <1>3, <1>4, <1>5, <1>6, <1>7, <1>8, <1>9, StepKinds

(* The sectors in the cache, in DOS's buffer, in the exchange and in its      *)
(* replies on the line are the ones asked for, from the slot of their unit,  *)
(* while no late reply was taken for another. *)
THEOREM DosOwnData == Spec => []OwnBooks
<1>1. Init => OwnBooks
  <2>1. SUFFICES ASSUME Init PROVE CacheOwn /\ BufferOwn /\ CallOwn /\ LineOwn
    BY DEF OwnBooks
  <2>2. op.buf = <<>> /\ call.cmd = "BEGIN_HOST_SESSION" /\ pipe = <<>>
    BY <2>1 DEF Init, Idle, NewCall, NoCall
  <2>3. CacheOwn
    BY <2>1 DEF Init, CacheOwn
  <2>4. QED  BY <2>2, <2>3 DEF BufferOwn, CallOwn, LineOwn, Reads
<1>2. Books /\ OwnBooks /\ [Next]_vars => OwnBooks'
  BY NextOwn
<1>3. QED  BY <1>1, <1>2, DosBooks, PTL DEF Spec

(* A unit is never given another slot's or another sector's data, by the     *)
(* cache or by a read, however units are remapped, batches cut and exchanges *)
(* retried (cache_invalidate_unit, cache_store, Input_cmd). *)
THEOREM NoForeign == Spec => []NoForeignData
<1>1. OwnBooks => NoForeignData
  BY DEF OwnBooks, CacheOwn, BufferOwn, NoForeignData
<1>2. QED  BY <1>1, DosOwnData, PTL

-----------------------------------------------------------------------------
(* How old it is: the steps.                                               *)

(* Only Output_cmd waits for a write. *)
LEMMA WriteAtWrite ==
  ASSUME Books
  PROVE  /\ call.cmd = "WRITE_SECTORS" => op.at = "write"
         /\ op.at = "write" => op.cmd = "output" /\ op.buf = <<>>
<1>1. op.cmd \in OpCmds /\ op.at \in Points
  BY DEF Books, OpBooks, OpType
<1>2. op.at = "write" => op.cmd = "output"
  BY <1>1 DEF Books, OpBooks, OpCmds
<1>3. op.cmd = "output" => op.buf = <<>>
  BY DEF Books, OpBooks
<1>4. op.at = "-" => op.cmd \in {"idle", "absent", "init"}
  BY <1>1 DEF Books, OpBooks, OpCmds
<1>5. op.at # "write" => call.cmd # "WRITE_SECTORS"
  BY <1>1, <1>4 DEF Books, PointBooks, Points
<1>6. QED  BY <1>2, <1>3, <1>5

(* The entry i of the cache, its sector, and whether it says what the disk    *)
(* of its unit holds. *)
EntryFresh(i) ==
  \/ <<cache[i][1].unit, cache[i][1].lba>> \in outdated
  \/ BeingWritten(cache[i][1].unit, cache[i][1].lba)
  \/ cache[i][1].data.val = disk[nio_unit_slot[cache[i][1].unit]][cache[i][1].lba]

(* CopiesFresh, entry by entry. *)
LEMMA CopiesByEntry ==
  /\ CopiesFresh <=> \A i \in DOMAIN cache : cache[i] # <<>> => EntryFresh(i)
  /\ CopiesFresh' <=>
       \A i \in DOMAIN cache' : cache'[i] # <<>> => EntryFresh(i)'
BY DEF CopiesFresh, EntryFresh, BeingWritten

(* An entry that nothing happens to, outside a write. *)
LEMMA EntryStays ==
  ASSUME NEW i, EntryFresh(i), op.at # "write", cache'[i] = cache[i],
         UNCHANGED <<nio_unit_slot, disk, outdated>>
  PROVE  EntryFresh(i)'
BY DEF EntryFresh, BeingWritten

(* A step that stores and copies nothing keeps what is held fresh. *)
LEMMA QuietFresh ==
  ASSUME Books, CopiesFresh, BufferFresh, CallFresh, LineFresh, Quiet
  PROVE  CopiesFresh' /\ BufferFresh' /\ CallFresh' /\ LineFresh'
<1>1. CopiesFresh'
  <2>1. UNCHANGED <<cache, nio_unit_slot, disk, outdated>> /\ op.at # "write"
    BY DEF Quiet
  <2>2. \A i \in DOMAIN cache : cache[i] # <<>> => EntryFresh(i)'
    BY <2>1, CopiesByEntry, EntryStays
  <2>3. QED  BY <2>1, <2>2, CopiesByEntry
<1>2. BufferFresh'
  <2>1. CASE op'.buf = <<>>
    BY <2>1 DEF BufferFresh
  <2>2. CASE op'.buf = op.buf /\ op'.unit = op.unit /\ op'.sector = op.sector
    BY <2>2 DEF BufferFresh, BufLba, Quiet
  <2>3. QED  BY <2>1, <2>2 DEF Quiet, QuietOp
<1>3. CallFresh' /\ LineFresh'
  <2>1. CASE call'.cmd = "none"
    BY <2>1 DEF CallFresh, LineFresh, Reads
  <2>2. CASE call'.result = "pending"
             /\ \A i \in 1..Len(pipe') : pipe'[i].old = 1
    BY <2>2 DEF CallFresh, LineFresh
  <2>3. CASE /\ UNCHANGED pipe /\ op'.unit = op.unit
             /\ call'.cmd = call.cmd /\ call'.slot = call.slot
             /\ call'.lba = call.lba /\ call'.n = call.n
             /\ call'.val = call.val /\ call'.data = call.data
             /\ call'.result = call.result \/ call'.result = "pending"
    BY <2>3 DEF CallFresh, LineFresh, Fresh, Quiet
  <2>4. QED  BY <2>1, <2>2, <2>3 DEF Quiet, QuietCall
<1>4. QED  BY <1>1, <1>2, <1>3

(* What an attempt does to the disk: nothing, or the write it is for. *)
DiskStep(done) ==
  /\ done = 1 => PeerExecutes
  /\ done = 0 => UNCHANGED peerVars

(* The peer changes only the sectors of a write it serves. *)
LEMMA DiskStepFacts ==
  ASSUME Books, NEW done \in {0, 1}, DiskStep(done)
  PROVE  /\ call.cmd # "WRITE_SECTORS" => UNCHANGED disk
         /\ \A s \in Slots, l \in Lbas :
              \/ disk'[s][l] = disk[s][l]
              \/ /\ s = call.slot /\ l \in call.lba..(call.lba + call.n - 1)
                 /\ disk'[s][l] = call.val
         /\ done = 1 /\ call.cmd = "WRITE_SECTORS" /\ Served =>
              \A l \in Lbas : l \in call.lba..(call.lba + call.n - 1) =>
                disk'[call.slot][l] = call.val
<1> DEFINE new == [l \in Lbas |-> IF l \in call.lba..(call.lba + call.n - 1)
                                  THEN call.val ELSE disk[call.slot][l]]
<1>1. disk \in [Slots -> [Lbas -> Vals]] /\ call.slot \in Slots
  BY DEF Books, PeerTypes, CallBooks, CallType
<1>2. CASE done = 0
  <2>1. UNCHANGED disk
    BY <1>2 DEF DiskStep, peerVars
  <2>2. QED  BY <1>2, <2>1
<1>3. CASE done = 1
  <2>1. disk' = IF call.cmd = "WRITE_SECTORS" /\ Served
                THEN [disk EXCEPT ![call.slot] = new] ELSE disk
    BY <1>3 DEF DiskStep, PeerExecutes
  <2>2. \A l \in Lbas : \/ new[l] = disk[call.slot][l]
                        \/ l \in call.lba..(call.lba + call.n - 1)
                           /\ new[l] = call.val
    OBVIOUS
  <2>3. \A l \in Lbas : l \in call.lba..(call.lba + call.n - 1) =>
          new[l] = call.val
    OBVIOUS
  <2> HIDE DEF new
  <2>4. CASE call.cmd = "WRITE_SECTORS" /\ Served
    <3>1. disk' = [disk EXCEPT ![call.slot] = new]
      BY <2>1, <2>4
    <3>2. disk'[call.slot] = new
          /\ \A s \in Slots : s # call.slot => disk'[s] = disk[s]
      BY <1>1, <3>1
    <3>3. QED  BY <2>2, <2>3, <2>4, <3>2
  <2>5. CASE ~(call.cmd = "WRITE_SECTORS" /\ Served)
    <3>1. disk' = disk
      BY <2>1, <2>5
    <3>2. QED  BY <2>5, <3>1
  <2>6. QED  BY <2>4, <2>5
<1>4. QED  BY <1>2, <1>3

(* The sectors of an exchange are sectors of the medium. *)
LEMMA CallLbas ==
  ASSUME Books, NEW j \in 1..call.n
  PROVE  /\ call.lba + j - 1 \in Lbas
         /\ call.lba + j - 1 \in call.lba..(call.lba + call.n - 1)
<1>1. call.lba \in Nat /\ call.n \in Nat /\ call.lba + call.n <= NumLba
  BY DEF Books, CallBooks, CallType
<1>2. QED  BY <1>1, Constants DEF Lbas

(* A reply that came for the present exchange is fresh on the disk as it is   *)
(* after the attempt. *)
LEMMA CameFresh ==
  ASSUME Books, LineFresh, call.cmd # "none", NEW done \in {0, 1},
         DiskStep(done), NEW r, Came(done, r), r.old = 0, r.ok = 1,
         NEW j \in 1..call.n
  PROVE  /\ call.cmd \in Reads =>
              \/ <<op.unit, call.lba + j - 1>> \in outdated
              \/ disk'[call.slot][call.lba + j - 1] = r.data[j].val
         /\ call.cmd = "WRITE_SECTORS" =>
              \/ <<op.unit, call.lba + j - 1>> \in outdated
              \/ disk'[call.slot][call.lba + j - 1] = call.val
<1> DEFINE l == call.lba + j - 1
<1>1. l \in Lbas /\ l \in call.lba..(call.lba + call.n - 1)
      /\ call.slot \in Slots
  BY CallLbas DEF Books, CallBooks, CallType
<1>2. CASE done = 1 /\ r = Reply
  <2>1. r.ok = 1 <=> Served
    BY <1>2, ReplyFacts
  <2>2. Served
    BY <2>1
  <2>3. ASSUME call.cmd \in Reads
        PROVE  disk'[call.slot][l] = r.data[j].val
    <3>1. r.data[j] = [slot |-> call.slot, lba |-> call.lba + j - 1,
                       val |-> disk[call.slot][call.lba + j - 1]]
      BY <1>2, <2>2, <2>3, ReplyFacts
    <3> DEFINE v == disk[call.slot][l]  s == call.slot
    <3>2. r.data[j] = [slot |-> s, lba |-> l, val |-> v]
      BY <3>1
    <3>3. UNCHANGED disk
      BY <2>3, DiskStepFacts DEF Reads
    <3> HIDE DEF v, l, s
    <3>4. r.data[j].val = v
      BY <3>2
    <3>5. QED  BY <3>3, <3>4 DEF v
  <2>4. ASSUME call.cmd = "WRITE_SECTORS"
        PROVE  disk'[call.slot][l] = call.val
    BY <1>1, <1>2, <2>2, <2>4, DiskStepFacts
  <2>5. QED  BY <2>3, <2>4
<1>3. ASSUME NEW k \in 1..Len(pipe), r = pipe[k]
      PROVE  /\ call.cmd \in Reads =>
                  <<op.unit, l>> \in outdated
                  \/ disk'[call.slot][l] = r.data[j].val
             /\ call.cmd = "WRITE_SECTORS" =>
                  <<op.unit, l>> \in outdated
                  \/ disk'[call.slot][l] = call.val
  <2>1. /\ call.cmd \in Reads => Fresh(l, r.data[j].val)
        /\ call.cmd = "WRITE_SECTORS" => Fresh(l, call.val)
    BY <1>3 DEF LineFresh
  <2>2. ASSUME call.cmd \in Reads
        PROVE  <<op.unit, l>> \in outdated
               \/ disk'[call.slot][l] = r.data[j].val
    <3>1. UNCHANGED disk
      BY <2>2, DiskStepFacts DEF Reads
    <3>2. QED  BY <2>1, <2>2, <3>1 DEF Fresh
  <2>3. ASSUME call.cmd = "WRITE_SECTORS"
        PROVE  <<op.unit, l>> \in outdated
               \/ disk'[call.slot][l] = call.val
    <3>1. disk'[call.slot][l] = disk[call.slot][l]
          \/ disk'[call.slot][l] = call.val
      BY <1>1, DiskStepFacts
    <3>2. QED  BY <2>1, <2>3, <3>1 DEF Fresh
  <2>4. QED  BY <2>2, <2>3
<1>4. QED  BY <1>2, <1>3 DEF Came

(* An attempt of an exchange keeps what is held fresh, or makes it being *)
(* written.                                                              *)
LEMMA TransactFresh ==
  ASSUME Books, FreshBooks, Transact
  PROVE  FreshBooks'
<1>1. SUFFICES ASSUME misfit' = 0
               PROVE  CopiesFresh' /\ BufferFresh' /\ CallFresh' /\ LineFresh'
  BY DEF FreshBooks
<1>2. /\ UNCHANGED <<driverVars, op, requests, outdated>>
      /\ call.result = "pending" /\ call.cmd # "none"
  BY TransactFacts
<1>3. PICK done \in {0, 1} :
        /\ DiskStep(done) /\ LineKeeps(done)
        /\ \/ TriesAgain
           \/ \E res \in {"frame", "failed"} : GivesUp(res)
           \/ \E r \in ReplyType : Came(done, r) /\ Takes(r)
  BY TransactFacts DEF DiskStep
<1>4. /\ CallKept /\ misfit = 0
      /\ call'.result = "ok" =>
           \E r : /\ Came(done, r) /\ r.old = 0 /\ r.ok = 1
                  /\ call'.data = r.data
  <2>1. misfit \in {0, 1}
    BY DEF Books, PeerTypes
  <2>2. CASE TriesAgain
    BY <1>1, <1>2, <2>2, TriesAgainFacts DEF TriesAgain
  <2>3. ASSUME NEW res \in {"frame", "failed"}, GivesUp(res)
        PROVE  CallKept /\ misfit = 0 /\ call'.result # "ok"
    BY <1>1, <2>3, GivesUpFacts DEF GivesUp
  <2>4. ASSUME NEW r \in ReplyType, Came(done, r), Takes(r)
        PROVE  /\ CallKept /\ misfit = 0 /\ r.old = 0
               /\ call'.result = "ok" => r.ok = 1 /\ call'.data = r.data
    <3>1. /\ CallKept /\ r.cmd = call.cmd
          /\ call'.result = "ok" => Sound(r) /\ call'.data = r.data
          /\ misfit' = IF r.old = 1 THEN 1 ELSE misfit
      BY <2>4, TakesFacts
    <3>2. r.old = 0 /\ misfit = 0
      BY <1>1, <3>1 DEF ReplyType
    <3>3. QED  BY <3>1, <3>2 DEF Sound
  <2>5. QED  BY <1>3, <2>2, <2>3, <2>4
<1>5. CopiesFresh /\ BufferFresh /\ CallFresh /\ LineFresh
  BY <1>4 DEF FreshBooks
<1>6. CopiesFresh'
  <2>1. SUFFICES ASSUME NEW i \in DOMAIN cache, cache[i] # <<>>
                 PROVE  EntryFresh(i)'
    BY <1>2, CopiesByEntry DEF driverVars
  <2> DEFINE u == cache[i][1].unit  l == cache[i][1].lba
             v == cache[i][1].data.val
  <2>2. EntryFresh(i) /\ cache' = cache /\ nio_unit_slot' = nio_unit_slot
        /\ outdated' = outdated /\ op' = op
    BY <1>2, <1>5, <2>1, CopiesByEntry DEF driverVars
  <2>3. u \in Units /\ l \in Lbas /\ nio_unit_slot[u] \in Slots
    BY <2>1 DEF Books, DriverTypes, Entries
  <2>4. BeingWritten(u, l) => BeingWritten(u, l)'
    BY <1>4, <2>2 DEF BeingWritten, CallKept
  <2>5. CASE v = disk[nio_unit_slot[u]][l]
    <3>1. CASE disk'[nio_unit_slot[u]][l] = disk[nio_unit_slot[u]][l]
      BY <2>2, <2>5, <3>1 DEF EntryFresh
    <3>2. CASE /\ disk'[nio_unit_slot[u]][l] # disk[nio_unit_slot[u]][l]
               /\ nio_unit_slot[u] = call.slot
               /\ l \in call.lba..(call.lba + call.n - 1)
      <4>1. call.cmd = "WRITE_SECTORS"
        BY <1>3, <3>2, DiskStepFacts
      <4>2. BeingWritten(u, l)
        BY <3>2, <4>1, WriteAtWrite DEF BeingWritten
      <4>3. QED  BY <2>2, <2>4, <4>2 DEF EntryFresh
    <3>3. QED  BY <1>3, <2>3, <3>1, <3>2, DiskStepFacts
  <2>6. CASE <<u, l>> \in outdated \/ BeingWritten(u, l)
    BY <2>2, <2>4, <2>6 DEF EntryFresh
  <2>7. QED  BY <2>2, <2>5, <2>6 DEF EntryFresh
<1>7. BufferFresh'
  <2>1. CASE call.cmd = "WRITE_SECTORS"
    <3>1. op'.buf = <<>>
      BY <1>2, <2>1, WriteAtWrite
    <3>2. QED  BY <3>1 DEF BufferFresh
  <2>2. CASE call.cmd # "WRITE_SECTORS"
    <3>1. UNCHANGED <<disk, op, nio_unit_slot, outdated>>
      BY <1>2, <1>3, <2>2, DiskStepFacts DEF driverVars
    <3>2. QED  BY <1>5, <3>1 DEF BufferFresh, BufLba
  <2>3. QED  BY <2>1, <2>2
<1>8. ASSUME NEW r, Came(done, r), r.old = 0, r.ok = 1, NEW j \in 1..call.n
      PROVE  /\ call.cmd \in Reads =>
                  \/ <<op'.unit, call'.lba + j - 1>> \in outdated'
                  \/ disk'[call'.slot][call'.lba + j - 1] = r.data[j].val
             /\ call.cmd = "WRITE_SECTORS" =>
                  \/ <<op'.unit, call'.lba + j - 1>> \in outdated'
                  \/ disk'[call'.slot][call'.lba + j - 1] = call'.val
  <2>1. /\ call.cmd \in Reads =>
             \/ <<op.unit, call.lba + j - 1>> \in outdated
             \/ disk'[call.slot][call.lba + j - 1] = r.data[j].val
        /\ call.cmd = "WRITE_SECTORS" =>
             \/ <<op.unit, call.lba + j - 1>> \in outdated
             \/ disk'[call.slot][call.lba + j - 1] = call.val
    BY <1>2, <1>3, <1>5, <1>8, CameFresh
  <2>2. /\ call'.slot = call.slot /\ call'.lba = call.lba
        /\ call'.val = call.val /\ op' = op /\ outdated' = outdated
    BY <1>2, <1>4 DEF CallKept
  <2>3. QED  BY <2>1, <2>2
<1>9. CallFresh'
  <2>1. SUFFICES ASSUME call'.result = "ok", NEW j \in 1..call'.n
                 PROVE  /\ call'.cmd \in Reads =>
                             Fresh(call.lba + j - 1, call.data[j].val)'
                        /\ call'.cmd = "WRITE_SECTORS" =>
                             Fresh(call.lba + j - 1, call.val)'
    BY DEF CallFresh, Fresh
  <2>2. PICK r : /\ Came(done, r) /\ r.old = 0 /\ r.ok = 1
                 /\ call'.data = r.data
    BY <1>4, <2>1
  <2>3. call'.cmd = call.cmd /\ call'.n = call.n
    BY <1>4 DEF CallKept
  <2>4. j \in 1..call.n
    BY <2>1, <2>3
  <2>5. /\ call.cmd \in Reads =>
             \/ <<op'.unit, call'.lba + j - 1>> \in outdated'
             \/ disk'[call'.slot][call'.lba + j - 1] = r.data[j].val
        /\ call.cmd = "WRITE_SECTORS" =>
             \/ <<op'.unit, call'.lba + j - 1>> \in outdated'
             \/ disk'[call'.slot][call'.lba + j - 1] = call'.val
    BY <1>8, <2>2, <2>4
  <2>6. QED  BY <2>2, <2>3, <2>5 DEF Fresh
<1>10. LineFresh'
  <2>1. ASSUME NEW i \in 1..Len(pipe'), pipe'[i].old = 0, pipe'[i].ok = 1,
               NEW j \in 1..call.n
        PROVE  /\ call.cmd \in Reads =>
                    Fresh(call.lba + j - 1, pipe[i].data[j].val)'
               /\ call.cmd = "WRITE_SECTORS" =>
                    Fresh(call.lba + j - 1, call.val)'
    <3>1. Came(done, pipe'[i])
      BY <1>3, <2>1 DEF LineKeeps
    <3>2. QED  BY <1>8, <2>1, <3>1 DEF Fresh
  <2>2. call'.cmd = call.cmd /\ call'.n = call.n
    BY <1>4 DEF CallKept
  <2>3. QED  BY <2>1, <2>2 DEF LineFresh, Fresh
<1>11. QED  BY <1>6, <1>7, <1>9, <1>10

(* A remapping keeps what is held fresh: the unit's entries are gone. *)
LEMMA RemapFresh ==
  ASSUME Books, CopiesFresh, NEW u \in Units, NEW s \in Slots,
         Set_unit_map(u, s)
  PROVE  CopiesFresh' /\ BufferFresh' /\ CallFresh' /\ LineFresh'
<1>1. /\ cache' = [i \in DOMAIN cache |->
                     IF cache[i] # <<>> /\ cache[i][1].unit = u THEN <<>>
                     ELSE cache[i]]
      /\ nio_unit_slot' = [nio_unit_slot EXCEPT ![u] = s]
      /\ outdated' = {p \in outdated : p[1] # u}
      /\ op' = Idle /\ op = Idle /\ call' = call /\ disk' = disk
  BY DEF Set_unit_map, NewRequest, peerVars
<1>2. call'.cmd = "none" /\ op'.buf = <<>> /\ op.at # "write"
  BY <1>1, EmptyRecords DEF Books, PointBooks
<1>3. BufferFresh' /\ CallFresh' /\ LineFresh'
  BY <1>2 DEF BufferFresh, CallFresh, LineFresh, Reads
<1>4. CopiesFresh'
  <2>1. SUFFICES ASSUME NEW i \in DOMAIN cache', cache'[i] # <<>>
                 PROVE  EntryFresh(i)'
    BY CopiesByEntry
  <2>2. i \in DOMAIN cache /\ cache'[i] = cache[i] /\ cache[i][1].unit # u
        /\ cache[i] # <<>>
    BY <1>1, <2>1
  <2> DEFINE w == cache[i][1].unit  l == cache[i][1].lba
  <2>3. w \in Units
    BY <2>2 DEF Books, DriverTypes, Entries
  <2>4. nio_unit_slot'[w] = nio_unit_slot[w]
    BY <1>1, <2>2, <2>3 DEF Books, DriverTypes
  <2>5. EntryFresh(i) /\ ~BeingWritten(w, l)
    BY <1>2, <2>2, CopiesByEntry DEF BeingWritten
  <2>6. CASE <<w, l>> \in outdated
    <3>1. <<w, l>> \in outdated'
      BY <1>1, <2>2, <2>6
    <3>2. QED  BY <2>2, <3>1 DEF EntryFresh
  <2>7. CASE cache[i][1].data.val = disk[nio_unit_slot[w]][l]
    BY <1>1, <2>2, <2>4, <2>7 DEF EntryFresh
  <2>8. QED  BY <2>5, <2>6, <2>7 DEF EntryFresh
<1>5. QED  BY <1>3, <1>4

(* A new medium puts what is held of the slot on record as behind. *)
LEMMA HostMediaFresh ==
  ASSUME Books, OwnBooks, CopiesFresh, BufferFresh, CallFresh, LineFresh,
         misfit = 0, NEW s \in Slots, HostMedia(s)
  PROVE  CopiesFresh' /\ BufferFresh' /\ CallFresh' /\ LineFresh'
<1>1. /\ UNCHANGED <<cache, nio_unit_slot, op, call, pipe>>
      /\ outdated' = outdated
                     \cup ({u \in Units : nio_unit_slot[u] = s} \X Lbas)
  BY DEF HostMedia, driverVars
<1>2. \A t \in Slots : t # s => disk'[t] = disk[t]
  BY DEF HostMedia, Books, PeerTypes
<1>3. ASSUME NEW u \in Units, NEW l \in Lbas
      PROVE  \/ <<u, l>> \in outdated'
             \/ /\ disk'[nio_unit_slot[u]] = disk[nio_unit_slot[u]]
                /\ nio_unit_slot[u] # s
  <2>1. nio_unit_slot[u] \in Slots
    BY DEF Books, DriverTypes
  <2>2. QED  BY <1>1, <1>2, <2>1
<1>4. CopiesFresh'
  <2>1. SUFFICES ASSUME NEW i \in DOMAIN cache, cache[i] # <<>>
                 PROVE  EntryFresh(i)'
    BY <1>1, CopiesByEntry
  <2>2. cache[i][1].unit \in Units /\ cache[i][1].lba \in Lbas
    BY <2>1 DEF Books, DriverTypes, Entries
  <2>3. EntryFresh(i)
    BY <2>1, CopiesByEntry
  <2>4. QED  BY <1>1, <1>3, <2>2, <2>3 DEF EntryFresh, BeingWritten
<1>5. BufferFresh'
  <2>1. SUFFICES ASSUME NEW i \in DOMAIN op.buf
                 PROVE  \/ <<op.unit, BufLba(i)>> \in outdated'
                        \/ op.buf[i].val =
                             disk'[nio_unit_slot[op.unit]][BufLba(i)]
    BY <1>1 DEF BufferFresh, BufLba
  <2>2. op.unit \in Units /\ op.buf \in Seq(Sectors)
    BY AtPoints DEF OpType
  <2>3. op.buf[i] \in Sectors
    BY <2>1, <2>2
  <2>4. op.buf[i].lba = BufLba(i)
    BY <2>1 DEF OwnBooks, BufferOwn
  <2>5. BufLba(i) \in Lbas
    BY <2>3, <2>4 DEF Sectors
  <2>6. \/ <<op.unit, BufLba(i)>> \in outdated
        \/ op.buf[i].val = disk[nio_unit_slot[op.unit]][BufLba(i)]
    BY <2>1 DEF BufferFresh
  <2> DEFINE l == BufLba(i)
  <2>7. outdated \subseteq outdated'
    BY <1>1
  <2> HIDE DEF l
  <2>8. QED  BY <1>3, <2>2, <2>5, <2>6, <2>7 DEF l
<1>6. ASSUME NEW j \in 1..call.n, NEW v, call.cmd # "none",
             Fresh(call.lba + j - 1, v)
      PROVE  \/ <<op.unit, call.lba + j - 1>> \in outdated'
             \/ disk'[call.slot][call.lba + j - 1] = v
  <2>1. call.lba + j - 1 \in Lbas /\ op.unit \in Units
        /\ call.slot = nio_unit_slot[op.unit]
    BY <1>6, CallLbas, AtPoints DEF Books, CallBooks
  <2>2. outdated \subseteq outdated'
    BY <1>1
  <2>3. QED  BY <1>3, <1>6, <2>1, <2>2 DEF Fresh
<1>7. CallFresh'
  <2>1. SUFFICES ASSUME call.result = "ok", NEW j \in 1..call.n
                 PROVE  /\ call.cmd \in Reads =>
                             Fresh(call.lba + j - 1, call.data[j].val)'
                        /\ call.cmd = "WRITE_SECTORS" =>
                             Fresh(call.lba + j - 1, call.val)'
    BY <1>1 DEF CallFresh, Fresh
  <2>2. /\ call.cmd \in Reads => Fresh(call.lba + j - 1, call.data[j].val)
        /\ call.cmd = "WRITE_SECTORS" => Fresh(call.lba + j - 1, call.val)
    BY <2>1 DEF CallFresh
  <2>3. QED  BY <1>1, <1>6, <2>1, <2>2 DEF Fresh, Reads
<1>8. LineFresh'
  <2>1. SUFFICES ASSUME call.cmd # "none", NEW i \in 1..Len(pipe),
                        pipe[i].old = 0, pipe[i].ok = 1, NEW j \in 1..call.n
                 PROVE  /\ call.cmd \in Reads =>
                             Fresh(call.lba + j - 1, pipe[i].data[j].val)'
                        /\ call.cmd = "WRITE_SECTORS" =>
                             Fresh(call.lba + j - 1, call.val)'
    BY <1>1 DEF LineFresh, Fresh
  <2>2. /\ call.cmd \in Reads => Fresh(call.lba + j - 1, pipe[i].data[j].val)
        /\ call.cmd = "WRITE_SECTORS" => Fresh(call.lba + j - 1, call.val)
    BY <2>1 DEF LineFresh
  <2>3. QED  BY <1>1, <1>6, <2>1, <2>2 DEF Fresh
<1>9. QED  BY <1>4, <1>5, <1>7, <1>8

(* What is stored from an answered read is fresh. *)
LEMMA StoreFresh ==
  ASSUME Books, CopiesFresh, CallFresh, call.cmd \in Reads,
         call.result = "ok", op.at # "write",
         cache_store(op.unit, call.lba, call.data),
         UNCHANGED <<nio_unit_slot, disk, outdated>>
  PROVE  CopiesFresh'
<1>1. call.slot = nio_unit_slot[op.unit] /\ Len(call.data) = call.n
      /\ op.unit \in Units
  BY AtPoints DEF Books, CallBooks, Reads
<1>2. \A j \in 1..call.n : Fresh(call.lba + j - 1, call.data[j].val)
  BY DEF CallFresh
<1>3. /\ DOMAIN cache' = 0..(CacheSize - 1)
      /\ \A i \in 0..(CacheSize - 1) :
           \/ cache'[i] = cache[i]
           \/ \E j \in 1..Len(call.data) :
                cache'[i] = <<[unit |-> op.unit, lba |-> call.lba + j - 1,
                               data |-> call.data[j]]>>
  BY AtPoints, StoreEntry DEF Books, DriverTypes
<1>4. DOMAIN cache = 0..(CacheSize - 1)
  BY DEF Books, DriverTypes
<1>5. SUFFICES ASSUME NEW i \in 0..(CacheSize - 1), cache'[i] # <<>>
               PROVE  EntryFresh(i)'
  BY <1>3, CopiesByEntry
<1>6. CASE cache'[i] = cache[i]
  BY <1>4, <1>5, <1>6, CopiesByEntry, EntryStays
<1>7. ASSUME NEW j \in 1..Len(call.data),
             cache'[i] = <<[unit |-> op.unit, lba |-> call.lba + j - 1,
                            data |-> call.data[j]]>>
      PROVE  EntryFresh(i)'
  <2> DEFINE l == call.lba + j - 1
  <2>1. cache'[i][1].unit = op.unit /\ cache'[i][1].lba = l
        /\ cache'[i][1].data = call.data[j]
    BY <1>7
  <2>2. <<op.unit, l>> \in outdated
        \/ disk[nio_unit_slot[op.unit]][l] = call.data[j].val
    BY <1>1, <1>2, <1>7 DEF Fresh
  <2> HIDE DEF l
  <2>3. QED  BY <2>1, <2>2 DEF EntryFresh
<1>8. QED  BY <1>3, <1>5, <1>6, <1>7

(* The store of a boot sector keeps what is held fresh. *)
LEMMA StoresBootFresh ==
  ASSUME Books, CopiesFresh, BufferFresh, CallFresh, StoresBoot
  PROVE  CopiesFresh' /\ BufferFresh' /\ CallFresh' /\ LineFresh'
<1>1. call.cmd \in Reads /\ call.lba = 0 /\ call.result = "ok"
  BY DEF StoresBoot, Books, PointBooks, Reads
<1>2. CopiesFresh'
  BY <1>1, StoreFresh DEF StoresBoot
<1>3. BufferFresh'
  BY DEF StoresBoot, BufferFresh, BufLba
<1>4. CallFresh' /\ LineFresh'
  BY DEF StoresBoot, CallFresh, LineFresh
<1>5. QED  BY <1>2, <1>3, <1>4

(* A buffer that grows by fresh sectors, in order, stays fresh. *)
LEMMA GrownFresh ==
  ASSUME Books, BufferFresh, NEW data \in Seq(Sectors), NEW n \in Nat,
         Len(data) = n, UNCHANGED <<nio_unit_slot, disk, outdated>>,
         op'.unit = op.unit,
         op'.sector = op.sector + n, op'.buf = op.buf \o data,
         \A j \in 1..n :
           \/ <<op.unit, op.sector + j - 1>> \in outdated
           \/ data[j].val = disk[nio_unit_slot[op.unit]][op.sector + j - 1]
  PROVE  BufferFresh'
<1> DEFINE m == Len(op.buf)  s == op.sector
           Ok(l, v) == \/ <<op.unit, l>> \in outdated
                       \/ v = disk[nio_unit_slot[op.unit]][l]
<1>1. op.buf \in Seq(Sectors) /\ m \in Nat /\ s \in Nat
  BY AtPoints DEF OpType
<1>2. /\ Len(op'.buf) = m + n /\ DOMAIN op'.buf = 1..(m + n)
      /\ \A i \in 1..m : op'.buf[i] = op.buf[i]
      /\ \A j \in 1..n : op'.buf[m + j] = data[j]
  <2>1. op.buf \o data \in Seq(Sectors) /\ Len(op.buf \o data) = m + n
    BY <1>1, ConcatProperties
  <2>2. \A i \in 1..m : (op.buf \o data)[i] = op.buf[i]
    BY <1>1, ConcatProperties
  <2>3. \A j \in 1..n : (op.buf \o data)[m + j] = data[j]
    <3>1. TAKE j \in 1..n
    <3>2. m + j \in 1..(m + n) /\ m + j > m /\ (m + j) - m = j
      BY <1>1
    <3>3. QED  BY <1>1, <3>2, ConcatProperties
  <2>4. DOMAIN (op.buf \o data) = 1..Len(op.buf \o data)
    BY <2>1
  <2>5. QED  BY <2>1, <2>2, <2>3, <2>4
<1>3. SUFFICES ASSUME NEW i \in 1..(m + n)
               PROVE  Ok((s + n) - (m + n) + i - 1, op'.buf[i].val)
  BY <1>2 DEF BufferFresh, BufLba
<1>4. CASE i \in 1..m
  <2>1. Ok(s - m + i - 1, op.buf[i].val)
    BY <1>1, <1>4 DEF BufferFresh, BufLba
  <2> HIDE DEF m, s, Ok
  <2>2. s - m + i - 1 = (s + n) - (m + n) + i - 1
    BY <1>1, <1>3
  <2>3. QED  BY <1>2, <1>4, <2>1, <2>2
<1>5. CASE i \notin 1..m
  <2>1. \A j \in 1..n : Ok(s + j - 1, data[j].val)
    OBVIOUS
  <2> HIDE DEF m, s, Ok
  <2>2. /\ i - m \in 1..n /\ i = m + (i - m)
        /\ s + (i - m) - 1 = (s + n) - (m + n) + i - 1
    BY <1>1, <1>3, <1>5
  <2>3. op'.buf[i] = data[i - m]
    BY <1>2, <2>2
  <2>4. Ok(s + (i - m) - 1, data[i - m].val)
    BY <2>1, <2>2
  <2>5. QED  BY <2>2, <2>3, <2>4
<1>6. QED  BY <1>4, <1>5

(* The copy of a cached sector to the buffer keeps what is held fresh. *)
LEMMA TakesCopyFresh ==
  ASSUME Books, CopiesFresh, BufferFresh, TakesCopy
  PROVE  CopiesFresh' /\ BufferFresh' /\ CallFresh' /\ LineFresh'
<1>1. call'.cmd = "none" /\ op.at # "write"
      /\ UNCHANGED <<cache, nio_unit_slot, disk, outdated>>
  BY DEF TakesCopy, Books, PointBooks
<1>2. CallFresh' /\ LineFresh'
  BY <1>1 DEF CallFresh, LineFresh, Reads
<1>3. CopiesFresh'
  <2>1. \A i \in DOMAIN cache : cache[i] # <<>> => EntryFresh(i)'
    BY <1>1, CopiesByEntry, EntryStays
  <2>2. QED  BY <1>1, <2>1, CopiesByEntry
<1> DEFINE d == CachedData(op.unit, op.sector)
<1>4. d \in Sectors /\ op.buf \in Seq(Sectors)
  BY CachedDataType, AtPoints DEF TakesCopy, OpType
<1>5. \/ <<op.unit, op.sector>> \in outdated
      \/ d.val = disk[nio_unit_slot[op.unit]][op.sector]
  <2> DEFINE i == cache_find(op.unit, op.sector)
  <2>1. /\ i \in 0..(CacheSize - 1) /\ cache[i] # <<>>
        /\ cache[i][1].unit = op.unit /\ cache[i][1].lba = op.sector
    BY FindMatches DEF TakesCopy
  <2>2. DOMAIN cache = 0..(CacheSize - 1) /\ d = cache[i][1].data
    BY DEF Books, DriverTypes, CachedData
  <2> HIDE DEF i, d
  <2>3. EntryFresh(i)
    BY <2>1, <2>2, CopiesByEntry
  <2>4. QED  BY <1>1, <2>1, <2>2, <2>3 DEF EntryFresh, BeingWritten
<1>6. /\ op'.sector = op.sector + 1 /\ op'.unit = op.unit
      /\ op'.buf = Append(op.buf, d) /\ op.sector \in Nat
  BY AtPoints DEF TakesCopy, OpType
<1> HIDE DEF d
<1> DEFINE one == <<d>>
<1>7. one \in Seq(Sectors) /\ Len(one) = 1 /\ op'.buf = op.buf \o one
      /\ one[1] = d
  BY <1>4, <1>6
<1>8. op.sector + 1 - 1 = op.sector /\ 1 \in Nat /\ \A j \in 1..1 : j = 1
  BY <1>6
<1> HIDE DEF one
<1>9. \A j \in 1..1 :
        \/ <<op.unit, op.sector + j - 1>> \in outdated
        \/ one[j].val = disk[nio_unit_slot[op.unit]][op.sector + j - 1]
  BY <1>5, <1>7, <1>8
<1>10. BufferFresh'
  BY <1>1, <1>6, <1>7, <1>8, <1>9, GrownFresh
<1>11. QED  BY <1>2, <1>3, <1>10

(* The store of a batch that was read keeps what is held fresh. *)
LEMMA StoresBatchFresh ==
  ASSUME Books, CopiesFresh, BufferFresh, CallFresh, StoresBatch
  PROVE  CopiesFresh' /\ BufferFresh' /\ CallFresh' /\ LineFresh'
<1>1. /\ call.cmd \in Reads /\ call.lba = op.sector /\ call.result = "ok"
      /\ Len(call.data) = call.n /\ call.slot = nio_unit_slot[op.unit]
      /\ call.data \in Seq(Sectors) /\ call.n \in Nat
  BY AtPoints, Fetched DEF StoresBatch, Reads, Books, CallBooks
<1>2. CopiesFresh'
  BY <1>1, StoreFresh DEF StoresBatch
<1>3. \A j \in 1..call.n :
        \/ <<op.unit, op.sector + j - 1>> \in outdated
        \/ call.data[j].val = disk[nio_unit_slot[op.unit]][op.sector + j - 1]
  BY <1>1 DEF CallFresh, Fresh
<1>4. BufferFresh'
  BY <1>1, <1>3, GrownFresh DEF StoresBatch
<1>5. CallFresh' /\ LineFresh'
  BY DEF StoresBatch, CallFresh, LineFresh, Reads
<1>6. QED  BY <1>2, <1>4, <1>5

(* An entry without a second copy is the one cache_find returns. *)
LEMMA OnlyMatch ==
  ASSUME NEW u, NEW l, NEW i \in Matches(u, l),
         ~(Cardinality(Matches(u, l)) > 1)
  PROVE  Cached(u, l) /\ cache_find(u, l) = i
<1> DEFINE M == Matches(u, l)
<1>1. M \subseteq 0..(CacheSize - 1) /\ i \in M
  BY DEF Matches
<1> HIDE DEF M
<1>2. IsFiniteSet(M)
  <2>1. 0 \in Int /\ CacheSize - 1 \in Int
    BY Constants
  <2>2. IsFiniteSet(0..(CacheSize - 1))
    BY <2>1, FS_Interval
  <2> DEFINE S == 0..(CacheSize - 1)
  <2>3. IsFiniteSet(S) /\ M \in SUBSET S
    BY <1>1, <2>2
  <2> HIDE DEF S
  <2>4. QED  BY <2>3, FS_Subset
<1>3. Cardinality(M) \in Nat /\ Cardinality(M) # 0
  BY <1>1, <1>2, FS_CardinalityType, FS_EmptySet
<1>4. Cardinality(M) = 1
  BY <1>3 DEF M
<1>5. M = {i}
  BY <1>1, <1>2, <1>4, FS_Singleton
<1>6. M \subseteq Nat /\ M # {}
  BY <1>1, <1>5, Constants
<1>7. Min(M) = i
  BY <1>5, <1>6, MinIsLeast
<1>8. QED  BY <1>6, <1>7 DEF M, Cached, cache_find

(* After a write an entry is fresh, updated, or left behind and on record. *)
LEMMA EntryWritten ==
  ASSUME Books, CopiesFresh, CallFresh, EndsWrite,
         NEW i \in 0..(CacheSize - 1), cache[i] # <<>>
  PROVE  EntryFresh(i)'
<1> DEFINE u == cache[i][1].unit  l == cache[i][1].lba
<1>1. /\ call.cmd = "WRITE_SECTORS" /\ call.lba = op.sector
      /\ call.val = op.val /\ call.slot = nio_unit_slot[op.unit]
      /\ call.n \in Nat /\ call.lba \in Nat
  BY WrittenBatch, AtPoints DEF EndsWrite
<1>2. u \in Units /\ l \in Lbas /\ DOMAIN cache = 0..(CacheSize - 1)
  BY DEF Books, DriverTypes, Entries
<1>3. EntryFresh(i)
  BY <1>2, CopiesByEntry
<1>4. outdated' = outdated \cup LeftBehind
      /\ UNCHANGED <<nio_unit_slot, disk>> /\ op.at = "write"
  BY DEF EndsWrite
<1>5. \/ cache'[i] = cache[i]
      \/ /\ u = op.unit /\ l \in op.sector..(op.sector + call.n - 1)
         /\ cache'[i] = <<[unit |-> op.unit, lba |-> l,
                           data |-> [slot |-> nio_unit_slot[op.unit],
                                     lba |-> l, val |-> op.val]]>>
  <2>1. CASE call.result # "ok"
    BY <2>1 DEF EndsWrite
  <2>2. CASE call.result = "ok"
    <3>1. cache' = Updated(op.unit, op.sector, call.n, op.val)
      BY <2>2 DEF EndsWrite
    <3>2. QED  BY <3>1, UpdatedEntry DEF Books
  <2>3. QED  BY <2>1, <2>2
<1>6. cache'[i][1].unit = u /\ cache'[i][1].lba = l
  BY <1>5
<1>7. CASE <<u, l>> \in outdated'
  BY <1>6, <1>7 DEF EntryFresh
<1>8. CASE ~BeingWritten(u, l) /\ <<u, l>> \notin outdated'
  <2>1. cache'[i] = cache[i]
    BY <1>1, <1>4, <1>5, <1>8 DEF BeingWritten
  <2>2. cache[i][1].data.val = disk[nio_unit_slot[u]][l]
    BY <1>3, <1>4, <1>8 DEF EntryFresh
  <2>3. QED  BY <1>4, <2>1, <2>2 DEF EntryFresh
<1>9. CASE BeingWritten(u, l) /\ <<u, l>> \notin outdated'
  <2>1. l \in call.lba..(call.lba + call.n - 1) /\ nio_unit_slot[u] = call.slot
    BY <1>9 DEF BeingWritten
  <2> DEFINE p == <<u, l>>
  <2>2. p \in Units \X (call.lba..(call.lba + call.n - 1)) /\ p[1] = u
        /\ p[2] = l
    BY <1>2, <2>1
  <2>3. p \notin LeftBehind
    BY <1>4, <1>9
  <2>4. /\ call.result = "ok" /\ u = op.unit
        /\ ~(Cardinality(Matches(u, l)) > 1)
    BY <2>1, <2>2, <2>3 DEF LeftBehind
  <2>5. i \in Matches(u, l)
    BY DEF Matches
  <2>6. Cached(u, l) /\ cache_find(u, l) = i
    BY <2>4, <2>5, OnlyMatch
  <2>7. cache' = Updated(op.unit, op.sector, call.n, op.val)
    BY <2>4 DEF EndsWrite
  <2>8. cache'[i][1].data.val = op.val
    <3> DEFINE new == [slot |-> nio_unit_slot[op.unit], lba |-> l,
                       val |-> op.val]
    <3>1. \E k \in op.sector..(op.sector + call.n - 1) :
            Cached(op.unit, k) /\ cache_find(op.unit, k) = i
      BY <1>1, <2>1, <2>4, <2>6
    <3>2. cache'[i] = <<[cache[i][1] EXCEPT !.data = new]>>
      BY <2>7, <3>1 DEF Updated
    <3>3. cache[i][1] \in Entries
      BY DEF Books, DriverTypes
    <3>4. new.val = op.val
      OBVIOUS
    <3> HIDE DEF new
    <3>5. cache'[i][1].data = new
      BY <3>2, <3>3 DEF Entries
    <3>6. QED  BY <3>4, <3>5
  <2>9. Fresh(l, call.val)
    <3> DEFINE j == l - call.lba + 1
    <3>1. l \in Nat /\ j \in 1..call.n /\ call.lba + j - 1 = l
      BY <1>1, <1>2, <2>1, Constants, SMTT(40) DEF Lbas
    <3> HIDE DEF j
    <3>2. Fresh(call.lba + j - 1, call.val)
      BY <1>1, <2>4, <3>1 DEF CallFresh
    <3>3. QED  BY <3>1, <3>2
  <2>10. disk[nio_unit_slot[u]][l] = op.val
    BY <1>1, <1>4, <1>9, <2>1, <2>4, <2>9 DEF Fresh
  <2>11. QED  BY <1>4, <1>6, <2>8, <2>10 DEF EntryFresh
<1>10. QED  BY <1>7, <1>8, <1>9

(* The end of a write updates the copies or puts them on record. *)
LEMMA EndsWriteFresh ==
  ASSUME Books, CopiesFresh, CallFresh, EndsWrite
  PROVE  CopiesFresh' /\ BufferFresh' /\ CallFresh' /\ LineFresh'
<1>1. BufferFresh' /\ CallFresh' /\ LineFresh'
  BY DEF EndsWrite, BufferFresh, CallFresh, LineFresh, Reads
<1>2. DOMAIN cache' = 0..(CacheSize - 1)
  BY DEF EndsWrite, Updated, Books, DriverTypes
<1>3. ASSUME NEW i \in 0..(CacheSize - 1), cache'[i] # <<>>
      PROVE  cache[i] # <<>>
  <2>1. CASE call.result # "ok"
    BY <1>3, <2>1 DEF EndsWrite
  <2>2. CASE call.result = "ok"
    <3>1. cache' = Updated(op.unit, op.sector, call.n, op.val)
          /\ DriverTypes
      BY <2>2 DEF EndsWrite, Books
    <3> DEFINE f == Updated(op.unit, op.sector, call.n, op.val)
    <3>2. \/ f[i] = cache[i]
          \/ /\ cache[i] # <<>> /\ cache[i][1].unit = op.unit
             /\ cache[i][1].lba \in op.sector..(op.sector + call.n - 1)
             /\ f[i] = <<[unit |-> op.unit, lba |-> cache[i][1].lba,
                          data |-> [slot |-> nio_unit_slot[op.unit],
                                    lba |-> cache[i][1].lba,
                                    val |-> op.val]]>>
      BY <3>1, UpdatedEntry
    <3> HIDE DEF f
    <3>3. QED  BY <1>3, <3>1, <3>2 DEF f
  <2>3. QED  BY <2>1, <2>2
<1>4. CopiesFresh'
  BY <1>2, <1>3, EntryWritten, CopiesByEntry
<1>5. QED  BY <1>1, <1>4

(* Every step keeps what is held as fresh as the code promises. *)
LEMMA NextFresh ==
  ASSUME Books, OwnBooks, FreshBooks, [Next]_vars
  PROVE  FreshBooks'
<1>1. CASE UNCHANGED vars
  <2>1. UNCHANGED <<cache, nio_unit_slot, op, call, pipe, misfit, disk,
                    outdated>>
    BY <1>1 DEF vars, driverVars, peerVars
  <2>2. QED  BY <2>1 DEF FreshBooks, CopiesFresh, BeingWritten, BufferFresh,
                         BufLba, CallFresh, LineFresh, Fresh
<1>2. CASE Transact
  BY <1>2, TransactFresh
<1>3. ASSUME NEW u \in Units, HostMedia(nio_unit_slot[u])
      PROVE  FreshBooks'
  <2>1. misfit' = misfit /\ nio_unit_slot[u] \in Slots
    BY <1>3 DEF HostMedia, Books, DriverTypes
  <2>2. QED  BY <1>3, <2>1, HostMediaFresh DEF FreshBooks
<1>4. CASE Quiet
  BY <1>4, QuietFresh DEF FreshBooks, Quiet
<1>5. CASE StoresBoot
  BY <1>5, StoresBootFresh DEF FreshBooks, StoresBoot
<1>6. CASE TakesCopy
  BY <1>6, TakesCopyFresh DEF FreshBooks, TakesCopy
<1>7. CASE StoresBatch
  BY <1>7, StoresBatchFresh DEF FreshBooks, StoresBatch
<1>8. CASE EndsWrite
  BY <1>8, EndsWriteFresh DEF FreshBooks, EndsWrite
<1>9. CASE \E u \in Units, s \in Slots : Set_unit_map(u, s)
  <2>1. misfit' = misfit
    BY <1>9 DEF Set_unit_map
  <2>2. QED  BY <1>9, <2>1, RemapFresh DEF FreshBooks
<1>10. QED  BY <1>1, <1>2, <1>3, <1>4, <1>5, <1>6, <1>7, <1>8, <1>9, StepKinds

(* Every copy in the cache, in the buffer, in an answered read and on the     *)
(* line holds what the disk holds, and an answered write is on the disk,     *)
(* except for the sectors on record as behind and those of the write in      *)
(* progress. *)
THEOREM DosFreshData == Spec => []FreshBooks
<1>1. Init => FreshBooks
  <2>1. SUFFICES ASSUME Init
                 PROVE  CopiesFresh /\ BufferFresh /\ CallFresh /\ LineFresh
    BY DEF FreshBooks
  <2>2. op.buf = <<>> /\ call.cmd = "BEGIN_HOST_SESSION" /\ pipe = <<>>
    BY <2>1 DEF Init, Idle, NewCall, NoCall
  <2>3. CopiesFresh
    BY <2>1 DEF Init, CopiesFresh
  <2>4. QED  BY <2>2, <2>3 DEF BufferFresh, CallFresh, LineFresh, Reads
<1>2. Books /\ OwnBooks /\ FreshBooks /\ [Next]_vars => FreshBooks'
  BY NextFresh
<1>3. QED  BY <1>1, <1>2, DosBooks, DosOwnData, PTL DEF Spec

(* What the cache answers and what DOS has been given is what the disk holds, *)
(* but for the old copies the code leaves: a medium changed behind it, a     *)
(* failed write, a sector cached twice or under two units when it was        *)
(* written (cache_update_or_invalidate, Output_cmd). *)
THEOREM ReadsCurrent == Spec => []ReadsAreCurrent
<1>1. Books /\ FreshBooks => ReadsAreCurrent
  <2>1. SUFFICES ASSUME Books, FreshBooks, misfit = 0
                 PROVE  /\ \A u \in Units, l \in Lbas :
                             Cached(u, l) /\ <<u, l>> \notin outdated
                               /\ ~(op.at = "write"
                                    /\ l \in call.lba..(call.lba + call.n - 1))
                             => CachedData(u, l).val = disk[nio_unit_slot[u]][l]
                        /\ BufferFresh
    BY DEF ReadsAreCurrent, BufferFresh
  <2>2. CopiesFresh /\ BufferFresh
    BY <2>1 DEF FreshBooks
  <2>3. ASSUME NEW u \in Units, NEW l \in Lbas, Cached(u, l),
               <<u, l>> \notin outdated,
               ~(op.at = "write" /\ l \in call.lba..(call.lba + call.n - 1))
        PROVE  CachedData(u, l).val = disk[nio_unit_slot[u]][l]
    <3> DEFINE i == cache_find(u, l)
    <3>1. /\ i \in 0..(CacheSize - 1) /\ cache[i] # <<>>
          /\ cache[i][1].unit = u /\ cache[i][1].lba = l
      BY <2>3, FindMatches
    <3>2. DOMAIN cache = 0..(CacheSize - 1)
          /\ CachedData(u, l) = cache[i][1].data
      BY <2>1 DEF Books, DriverTypes, CachedData
    <3> HIDE DEF i
    <3>3. EntryFresh(i)
      BY <2>2, <3>1, <3>2, CopiesByEntry
    <3>4. QED  BY <2>3, <3>1, <3>2, <3>3 DEF EntryFresh, BeingWritten
  <2>4. QED  BY <2>2, <2>3
<1>2. QED  BY <1>1, DosBooks, DosFreshData, PTL
=============================================================================
