-------------------------- MODULE DiskDeviceProofs --------------------------
(***************************************************************************)
(* Proofs about the request side of the disk device, for any requests and  *)
(* units.                                                                  *)
(***************************************************************************)
EXTENDS DiskDevice, TLAPS

-----------------------------------------------------------------------------
(* The FIFO.                                                               *)

\* No request is in the FIFO twice.
Distinct == \A i, j \in Positions : io_queue[i] = io_queue[j] => i = j

\* detach() takes one node off and keeps the rest once each.
LEMMA DetachBooks ==
  ASSUME io_queue \in Seq(Requests), NEW i \in Positions, Detach(i)
  PROVE  /\ io_queue' \in Seq(Requests)
         /\ InQueue' \subseteq InQueue
         /\ Distinct => Distinct' /\ InQueue' = InQueue \ {io_queue[i]}
<1> DEFINE n == Len(io_queue)
           m(j) == IF j < i THEN j ELSE j + 1
<1>1. n \in Nat /\ i \in 1 .. n /\ io_queue \in [1 .. n -> Requests]
  BY DEF Positions
<1>2. \A j \in 1 .. n - 1 : m(j) \in 1 .. n /\ m(j) # i
  BY <1>1
<1>3. io_queue' = [j \in 1 .. n - 1 |-> io_queue[m(j)]]
  BY <1>1 DEF Detach
<1>4. io_queue' \in [1 .. n - 1 -> Requests]
  BY <1>1, <1>2, <1>3
<1>5. io_queue' \in Seq(Requests) /\ Len(io_queue') = n - 1
  <2>1. n - 1 \in Nat
    BY <1>1
  <2>2. QED BY <1>4, <2>1
<1>6. InQueue' \subseteq InQueue
  BY <1>1, <1>2, <1>3, <1>5 DEF InQueue, Positions
<1>7. ASSUME Distinct
      PROVE  Distinct' /\ InQueue' = InQueue \ {io_queue[i]}
  <2>1. Distinct'
    <3>1. SUFFICES ASSUME NEW j \in 1 .. n - 1, NEW k \in 1 .. n - 1,
                          io_queue'[j] = io_queue'[k]
                   PROVE  j = k
      BY <1>5 DEF Distinct, Positions
    <3>2. io_queue[m(j)] = io_queue[m(k)]
      BY <1>3, <3>1
    <3>3. m(j) = m(k)
      BY <1>2, <1>7, <3>2 DEF Distinct, Positions
    <3>4. QED BY <1>1, <3>3
  <2>2. io_queue[i] \notin InQueue'
    <3>1. SUFFICES ASSUME NEW j \in 1 .. n - 1, io_queue'[j] = io_queue[i]
                   PROVE  FALSE
      BY <1>5 DEF InQueue, Positions
    <3>2. io_queue[m(j)] = io_queue[i] /\ m(j) \in 1 .. n /\ m(j) # i
      BY <1>2, <1>3, <3>1
    <3>3. QED BY <1>1, <1>7, <3>2 DEF Distinct, Positions
  <2>3. ASSUME NEW k \in 1 .. n, io_queue[k] # io_queue[i]
        PROVE  io_queue[k] \in InQueue'
    <3>1. PICK j \in 1 .. n - 1 : m(j) = k
      <4>1. CASE k < i
        BY <1>1, <4>1
      <4>2. CASE k > i
        <5>1. k - 1 \in 1 .. n - 1 /\ m(k - 1) = k
          BY <1>1, <4>2
        <5>2. QED BY <5>1
      <4>3. QED BY <1>1, <2>3, <4>1, <4>2
    <3>2. io_queue'[j] = io_queue[k]
      BY <1>3, <3>1
    <3>3. QED BY <1>5, <3>2 DEF InQueue, Positions
  <2>4. QED BY <1>6, <2>1, <2>2, <2>3 DEF InQueue, Positions
<1>8. QED BY <1>5, <1>6, <1>7

\* Removing a request leaves none of it, and every other.
LEMMA RemoveRequestBooks ==
  ASSUME io_queue \in Seq(Requests), NEW r \in Requests, RemoveRequest(r)
  PROVE  /\ io_queue' \in Seq(Requests)
         /\ InQueue' \subseteq InQueue
         /\ Distinct => Distinct' /\ InQueue' = InQueue \ {r}
<1>1. CASE r \notin InQueue /\ UNCHANGED io_queue
  BY <1>1 DEF InQueue, Positions, Distinct
<1>2. CASE \E i \in Positions :
             IsFirst(i, {j \in Positions : io_queue[j] = r}) /\ Detach(i)
  BY <1>2, DetachBooks DEF IsFirst
<1>3. QED BY <1>1, <1>2 DEF RemoveRequest

\* Flushing a unit leaves the other units' requests, in place.
LEMMA RemoveUnitBooks ==
  ASSUME io_queue \in Seq(Requests), NEW u, RemoveUnit(u)
  PROVE  /\ io_queue' \in Seq(Requests)
         /\ InQueue' = {q \in InQueue : UnitOf[q] # u}
         /\ Distinct => Distinct'
<1>0. PICK n \in 0 .. Len(io_queue) : \E keep \in [1 .. n -> Positions] :
        /\ \A i, j \in 1 .. n : i < j => keep[i] < keep[j]
        /\ {keep[i] : i \in 1 .. n} =
             {i \in Positions : UnitOf[io_queue[i]] # u}
        /\ io_queue' = [i \in 1 .. n |-> io_queue[keep[i]]]
  BY DEF RemoveUnit
<1>1. PICK keep \in [1 .. n -> Positions] :
        /\ \A i, j \in 1 .. n : i < j => keep[i] < keep[j]
        /\ {keep[i] : i \in 1 .. n} =
             {i \in Positions : UnitOf[io_queue[i]] # u}
        /\ io_queue' = [i \in 1 .. n |-> io_queue[keep[i]]]
  BY <1>0
<1>2. n \in Nat /\ io_queue \in [Positions -> Requests]
  BY DEF Positions
<1>3. io_queue' \in [1 .. n -> Requests]
  BY <1>1, <1>2
<1>4. io_queue' \in Seq(Requests) /\ Positions' = 1 .. n
  BY <1>2, <1>3 DEF Positions
<1>5. InQueue' = {q \in InQueue : UnitOf[q] # u}
  <2>1. ASSUME NEW i \in 1 .. n
        PROVE  io_queue'[i] \in InQueue /\ UnitOf[io_queue'[i]] # u
    <3>1. keep[i] \in {k \in Positions : UnitOf[io_queue[k]] # u}
      BY <1>1
    <3>2. QED BY <1>1, <3>1 DEF InQueue
  <2>2. ASSUME NEW k \in Positions, UnitOf[io_queue[k]] # u
        PROVE  io_queue[k] \in InQueue'
    <3>1. PICK i \in 1 .. n : keep[i] = k
      BY <1>1, <2>2
    <3>2. io_queue'[i] = io_queue[k]
      BY <1>1, <3>1
    <3>3. QED BY <1>4, <3>2 DEF InQueue
  <2>3. QED BY <1>4, <2>1, <2>2 DEF InQueue
<1>6. ASSUME Distinct
      PROVE  Distinct'
  <2>1. SUFFICES ASSUME NEW i \in 1 .. n, NEW j \in 1 .. n,
                        io_queue'[i] = io_queue'[j]
                 PROVE  i = j
    BY <1>4 DEF Distinct
  <2>2. keep[i] = keep[j] /\ keep[i] \in Nat /\ keep[j] \in Nat
    BY <1>1, <1>6, <2>1 DEF Distinct, Positions
  <2>3. ~ (i < j) /\ ~ (j < i)
    BY <1>1, <2>2
  <2>4. QED BY <1>2, <2>3
<1>7. QED BY <1>4, <1>5, <1>6

\* Appending a request that is not queued adds just that one.
LEMMA AppendBooks ==
  ASSUME io_queue \in Seq(Requests), NEW r \in Requests,
         io_queue' = Append(io_queue, r)
  PROVE  /\ io_queue' \in Seq(Requests)
         /\ InQueue' = InQueue \cup {r}
         /\ Distinct /\ r \notin InQueue => Distinct'
<1> DEFINE n == Len(io_queue)
<1>1. /\ io_queue' \in Seq(Requests) /\ n \in Nat /\ Len(io_queue') = n + 1
      /\ io_queue'[n + 1] = r
      /\ \A i \in 1 .. n : io_queue'[i] = io_queue[i]
  OBVIOUS
<1>2. \A i \in 1 .. n + 1 : i \in 1 .. n \/ i = n + 1
  BY <1>1
<1>3. InQueue' = InQueue \cup {r}
  <2>1. ASSUME NEW i \in 1 .. n
        PROVE  io_queue[i] \in InQueue'
    <3>1. i \in 1 .. n + 1
      BY <1>1
    <3>2. QED BY <1>1, <3>1 DEF InQueue, Positions
  <2>2. r \in InQueue'
    BY <1>1 DEF InQueue, Positions
  <2>3. ASSUME NEW i \in 1 .. n + 1
        PROVE  io_queue'[i] \in InQueue \cup {r}
    BY <1>1, <1>2 DEF InQueue, Positions
  <2>4. QED BY <1>1, <2>1, <2>2, <2>3 DEF InQueue, Positions
<1>4. ASSUME Distinct, r \notin InQueue
      PROVE  Distinct'
  <2>1. SUFFICES ASSUME NEW i \in 1 .. n + 1, NEW j \in 1 .. n + 1,
                        io_queue'[i] = io_queue'[j]
                 PROVE  i = j
    BY <1>1 DEF Distinct, Positions
  <2>2. \A k \in 1 .. n : io_queue[k] # r
    BY <1>4 DEF InQueue, Positions
  <2>3. QED BY <1>1, <1>2, <1>4, <2>1, <2>2 DEF Distinct, Positions
<1>5. QED BY <1>1, <1>3, <1>4

-----------------------------------------------------------------------------
(* Types.                                                                  *)

\* Types of what ReplyMsg() leaves.
LEMMA ReplyTypes ==
  ASSUME TypeOK, NEW R
  PROVE  /\ Replied(R) \in [Requests -> 0 .. 2]
         /\ Forget(R) \in [Requests -> Commands]
<1>1. Replied(R) \in [Requests -> 0 .. 2]
  <2>1. \A r \in Requests : replies[r] \in 0 .. 2
    BY DEF TypeOK
  <2>2. QED BY <2>1 DEF Replied
<1>2. Forget(R) \in [Requests -> Commands]
  BY DEF TypeOK, Forget, Commands
<1>3. QED BY <1>1, <1>2

\* A reply keeps the types of what clients see.
LEMMA ReplyKeepsTypes ==
  ASSUME TypeOK, NEW R, Reply(R)
  PROVE  /\ sent' \subseteq Requests
         /\ command' \in [Requests -> Commands]
         /\ replies' \in [Requests -> 0 .. 2]
BY ReplyTypes DEF Reply, TypeOK

\* So does a send.
LEMMA SendTypes ==
  ASSUME TypeOK, NEW r \in Requests, NEW c \in Commands, NEW R, Send(r, c, R)
  PROVE  /\ sent' \subseteq Requests
         /\ command' \in [Requests -> Commands]
         /\ replies' \in [Requests -> 0 .. 2]
<1>1. sent' \subseteq Requests
  BY DEF Send, TypeOK
<1>2. command' \in [Requests -> Commands]
  BY ReplyTypes DEF Send, Commands
<1>3. replies' \in [Requests -> 0 .. 2]
  BY ReplyTypes DEF Send
<1>4. QED BY <1>1, <1>2, <1>3

\* Every reachable state is well typed, and the worker has a request exactly
\* while it processes one.
THEOREM DiskTypeCorrect == Spec => [](TypeOK /\ WorkerBooks)
<1> USE DiskConstants
<1>1. Init => TypeOK /\ WorkerBooks
  BY DEF Init, TypeOK, WorkerBooks, Commands
<1>2. TypeOK /\ WorkerBooks /\ [Next]_vars => TypeOK'
  <2> SUFFICES ASSUME TypeOK, WorkerBooks, [Next]_vars
               PROVE  TypeOK'
    OBVIOUS
  <2>1. CASE UNCHANGED vars
    BY <2>1 DEF vars, libVars, unitVars, workerVars, clientVars, TypeOK
  <2>2. CASE WorkerWake
    BY <2>2
       DEF WorkerWake, TypeOK, libVars, unitVars, workerVars, clientVars
  <2>3. CASE WorkerTake
    <3>1. PICK i \in Positions : current' = io_queue[i] /\ Detach(i)
      BY <2>3 DEF WorkerTake
    <3>2. io_queue' \in Seq(Requests) /\ current' \in Requests
      BY <3>1, DetachBooks DEF TypeOK, Positions
    <3>3. QED
      BY <2>3, <3>2 DEF WorkerTake, TypeOK, libVars, unitVars, clientVars
  <2>4. CASE WorkerIdle
    BY <2>4
       DEF WorkerIdle, TypeOK, libVars, unitVars, workerVars, clientVars
  <2>5. CASE ProcessData
    BY <2>5, ReplyKeepsTypes
       DEF ProcessData, Finish, TypeOK, libVars, unitVars, workerVars,
           clientVars
  <2>6. CASE ProcessStartStop
    <3>1. stopped' \in [Units -> {0, 1}]
      BY <2>6 DEF ProcessStartStop, TypeOK
    <3>2. QED
      BY <2>6, <3>1, ReplyKeepsTypes
         DEF ProcessStartStop, Finish, TypeOK, libVars
  <2>7. CASE ProcessAddChangeInt
    <3>1. current \in Requests
      BY <2>7 DEF ProcessAddChangeInt, TypeOK, WorkerBooks
    <3>2. QED
      BY <2>7, <3>1, ReplyKeepsTypes
         DEF ProcessAddChangeInt, Finish, TypeOK, libVars, clientVars
  <2>8. CASE ProcessMediaChange
    BY <2>8
       DEF ProcessMediaChange, Registered, TypeOK, libVars, unitVars,
           workerVars, clientVars
  <2>9. CASE WalkNext
    BY <2>9
       DEF WalkNext, Registered, TypeOK, libVars, unitVars, workerVars,
           clientVars
  <2>10. CASE WalkEnd
    BY <2>10, ReplyKeepsTypes
       DEF WalkEnd, Finish, TypeOK, libVars, unitVars, workerVars, clientVars
  <2>11. CASE DeviceExpunge
    BY <2>11
       DEF DeviceExpunge, TearDown, TypeOK, libVars, unitVars, workerVars,
           clientVars
  <2>12. ASSUME NEW r \in Requests, DeviceOpen(r)
        PROVE  TypeOK'
    BY <2>12
       DEF DeviceOpen, TypeOK, libVars, unitVars, workerVars, clientVars
  <2>13. ASSUME NEW r \in Requests, DeviceClose(r)
        PROVE  TypeOK'
    <3>1. io_queue' \in Seq(Requests)
      BY <2>13, RemoveRequestBooks DEF DeviceClose, Stray, TypeOK
    <3>2. QED
      BY <2>13, <3>1, ReplyTypes DEF DeviceClose, Stray, TearDown, TypeOK
  <2>14. ASSUME NEW r \in Requests, NEW c \in Commands, BeginQueued(r, c)
        PROVE  TypeOK'
    <3>1. io_queue' \in Seq(Requests)
      BY <2>14, AppendBooks DEF BeginQueued, TypeOK
    <3>2. QED
      BY <2>14, <3>1, SendTypes
         DEF BeginQueued, TypeOK, libVars, unitVars, workerVars
  <2>15. ASSUME NEW r \in Requests, BeginStatus(r)
        PROVE  TypeOK'
    <3>1. "STATUS" \in Commands
      BY DEF Commands
    <3>2. QED
      BY <2>15, <3>1, SendTypes
         DEF BeginStatus, TypeOK, libVars, unitVars, workerVars
  <2>16. ASSUME NEW r \in Requests, BeginFlush(r)
        PROVE  TypeOK'
    <3>1. "FLUSH" \in Commands
      BY DEF Commands
    <3>2. io_queue' \in Seq(Requests)
      BY <2>16, RemoveUnitBooks DEF BeginFlush, TypeOK
    <3>3. QED
      BY <2>16, <3>1, <3>2, SendTypes
         DEF BeginFlush, TypeOK, libVars, unitVars, workerVars
  <2>17. ASSUME NEW r \in Requests, BeginRemove(r)
        PROVE  TypeOK'
    <3>1. "REMOVE" \in Commands
      BY DEF Commands
    <3>2. legacy' \in [Units -> Requests \cup {NULL}]
      BY <2>17 DEF BeginRemove, TypeOK
    <3>3. QED
      BY <2>17, <3>1, <3>2, SendTypes
         DEF BeginRemove, TypeOK, libVars, workerVars
  <2>18. ASSUME NEW r \in Requests, BeginRemChangeInt(r)
        PROVE  TypeOK'
    <3>1. command' \in [Requests -> Commands]
      BY <2>18 DEF BeginRemChangeInt, TypeOK, Commands
    <3>2. QED
      BY <2>18, <3>1, ReplyTypes
         DEF BeginRemChangeInt, Unregister, Stray, TypeOK, libVars
  <2>19. ASSUME NEW r \in Requests, DeviceAbortIO(r)
        PROVE  TypeOK'
    <3>1. io_queue' \in Seq(Requests)
      BY <2>19, RemoveRequestBooks DEF DeviceAbortIO, TypeOK
    <3>2. QED
      BY <2>19, <3>1, ReplyKeepsTypes
         DEF DeviceAbortIO, Unregister, Stray, TypeOK, libVars
  <2>20. QED
    BY <2>1, <2>2, <2>3, <2>4, <2>5, <2>6, <2>7, <2>8, <2>9, <2>10, 
       <2>11, <2>12, <2>13, <2>14, <2>15, <2>16, <2>17, <2>18, 
       <2>19
       DEF Next, WorkerStep, ClientStep
<1>3. TypeOK /\ WorkerBooks /\ [Next]_vars => WorkerBooks'
  <2> SUFFICES ASSUME TypeOK, WorkerBooks, [Next]_vars
               PROVE  WorkerBooks'
    OBVIOUS
  <2>1. CASE UNCHANGED vars
    BY <2>1 DEF vars, workerVars, WorkerBooks
  <2>2. CASE WorkerWake
    BY <2>2 DEF WorkerWake, Finish, workerVars, WorkerBooks
  <2>3. CASE WorkerTake
    <3>1. current' \in Requests
      BY <2>3 DEF WorkerTake, TypeOK, Positions
    <3>2. QED BY <2>3, <3>1 DEF WorkerTake, WorkerBooks
  <2>4. CASE WorkerIdle
    BY <2>4 DEF WorkerIdle, Finish, workerVars, WorkerBooks
  <2>5. CASE ProcessData
    BY <2>5 DEF ProcessData, Finish, workerVars, WorkerBooks
  <2>6. CASE ProcessStartStop
    BY <2>6 DEF ProcessStartStop, Finish, workerVars, WorkerBooks
  <2>7. CASE ProcessAddChangeInt
    BY <2>7 DEF ProcessAddChangeInt, Finish, workerVars, WorkerBooks
  <2>8. CASE ProcessMediaChange
    BY <2>8 DEF ProcessMediaChange, Finish, workerVars, WorkerBooks
  <2>9. CASE WalkNext
    BY <2>9 DEF WalkNext, Finish, workerVars, WorkerBooks
  <2>10. CASE WalkEnd
    BY <2>10 DEF WalkEnd, Finish, workerVars, WorkerBooks
  <2>11. CASE DeviceExpunge
    BY <2>11 DEF DeviceExpunge, Finish, workerVars, WorkerBooks
  <2>12. ASSUME NEW r \in Requests, DeviceOpen(r)
        PROVE  WorkerBooks'
    BY <2>12 DEF DeviceOpen, Finish, workerVars, WorkerBooks
  <2>13. ASSUME NEW r \in Requests, DeviceClose(r)
        PROVE  WorkerBooks'
    BY <2>13 DEF DeviceClose, Finish, workerVars, WorkerBooks
  <2>14. ASSUME NEW r \in Requests, NEW c \in Commands, BeginQueued(r, c)
        PROVE  WorkerBooks'
    BY <2>14 DEF BeginQueued, Finish, workerVars, WorkerBooks
  <2>15. ASSUME NEW r \in Requests, BeginStatus(r)
        PROVE  WorkerBooks'
    BY <2>15 DEF BeginStatus, Finish, workerVars, WorkerBooks
  <2>16. ASSUME NEW r \in Requests, BeginFlush(r)
        PROVE  WorkerBooks'
    BY <2>16 DEF BeginFlush, Finish, workerVars, WorkerBooks
  <2>17. ASSUME NEW r \in Requests, BeginRemove(r)
        PROVE  WorkerBooks'
    BY <2>17 DEF BeginRemove, Finish, workerVars, WorkerBooks
  <2>18. ASSUME NEW r \in Requests, BeginRemChangeInt(r)
        PROVE  WorkerBooks'
    BY <2>18 DEF BeginRemChangeInt, Finish, workerVars, WorkerBooks
  <2>19. ASSUME NEW r \in Requests, DeviceAbortIO(r)
        PROVE  WorkerBooks'
    BY <2>19 DEF DeviceAbortIO, Finish, workerVars, WorkerBooks
  <2>20. QED
    BY <2>1, <2>2, <2>3, <2>4, <2>5, <2>6, <2>7, <2>8, <2>9, <2>10, 
       <2>11, <2>12, <2>13, <2>14, <2>15, <2>16, <2>17, <2>18, 
       <2>19
       DEF Next, WorkerStep, ClientStep
<1>4. QED BY <1>1, <1>2, <1>3, PTL DEF Spec

-----------------------------------------------------------------------------
(* The worker's flag and its signal.                                       *)

\* The scan of the FIFO finds nothing iff no queued request may run.
LEMMA RunnableInQueue ==
  RunnablePositions = {} <=> \A q \in InQueue : ~ Runnable(q)
BY DEF RunnablePositions, InQueue

\* Nothing becomes runnable when requests only leave the FIFO, no unit is
\* started and no queued request turns into a CMD_START.
LEMMA NothingGained ==
  ASSUME InQueue' \subseteq InQueue, UNCHANGED stopped,
         \A q \in InQueue' : command'[q] = "START" => command[q] = "START"
  PROVE  \A q \in InQueue' : Runnable(q)' => Runnable(q)
BY DEF Runnable

\* Answering requests makes none of them a CMD_START.
LEMMA ForgetStarts ==
  ASSUME TypeOK, NEW R
  PROVE  \A q \in Requests : Forget(R)[q] = "START" => command[q] = "START"
BY DEF Forget

\* Nor does a send, among those queued before it.
LEMMA SendStarts ==
  ASSUME TypeOK, NEW r \in Requests, NEW c \in Commands, NEW R, Send(r, c, R)
  PROVE  /\ r \notin InQueue
         /\ \A q \in InQueue : command'[q] = "START" => command[q] = "START"
<1>1. r \notin InQueue /\ InQueue \subseteq Requests
  BY DEF Send, InQueue, TypeOK, Positions
<1>2. \A q \in Requests : q # r => command'[q] = Forget(R)[q]
  BY ReplyTypes DEF Send
<1>3. QED BY <1>1, <1>2, ForgetStarts

\* What the two invariants say, over the set of queued requests.
Awake ==
  /\ io_processing = 0 => current = NULL /\ \A q \in InQueue : ~ Runnable(q)
  /\ resident = 1 /\ (\E q \in InQueue : Runnable(q)) =>
       worker # "waiting" \/ signal = 1

\* io_processing is clear only when the worker has nothing and can take
\* nothing, and no wake-up is lost.
THEOREM WorkerAwake == Spec => [](IdleFlagHonest /\ NoLostWork)
<1> USE DiskConstants
<1>1. Init => Awake
  BY DEF Init, Awake, InQueue, Positions
<1>2. TypeOK /\ WorkerBooks /\ Awake /\ [Next]_vars => Awake'
  <2> SUFFICES ASSUME TypeOK, WorkerBooks, Awake, [Next]_vars
               PROVE  Awake'
    OBVIOUS
  <2>0. InQueue \subseteq Requests /\ (UNCHANGED io_queue => UNCHANGED InQueue)
    BY DEF InQueue, Positions, TypeOK
  <2>1. CASE UNCHANGED vars
    BY <2>1
       DEF vars, Awake, InQueue, Positions, Runnable, libVars, unitVars,
           workerVars, clientVars
  <2>2. CASE WorkerWake
    <3>1. \A q \in InQueue' : q \in InQueue /\ (Runnable(q)' => Runnable(q))
      BY <2>0, <2>2, NothingGained
         DEF WorkerWake, unitVars, clientVars
    <3>2. QED
      BY <2>2, <3>1
         DEF WorkerWake, Awake, TearDown, WorkerBooks, libVars, workerVars
  <2>3. CASE WorkerTake
    <3>1. PICK i \in Positions : IsFirst(i, RunnablePositions) /\ Detach(i)
      BY <2>3 DEF WorkerTake
    <3>2. InQueue' \subseteq InQueue
      BY <3>1, DetachBooks DEF TypeOK
    <3>3. io_processing = 1
      BY <3>1, RunnableInQueue DEF Awake, IsFirst, TypeOK
    <3>4. QED BY <2>3, <3>3 DEF WorkerTake, Awake
  <2>4. CASE WorkerIdle
    <3>1. \A q \in InQueue' : q \in InQueue /\ (Runnable(q)' => Runnable(q))
      BY <2>0, <2>4, NothingGained
         DEF WorkerIdle, unitVars, clientVars
    <3>2. QED
      BY <2>4, <3>1, RunnableInQueue DEF WorkerIdle, Awake, WorkerBooks
  <2>5. CASE ProcessData
    <3>1. \A q \in InQueue' : q \in InQueue /\ (Runnable(q)' => Runnable(q))
      BY <2>0, <2>5, ForgetStarts, NothingGained
         DEF ProcessData, Finish, Reply, unitVars
    <3>2. QED
      BY <2>5, <3>1 DEF ProcessData, Awake, Finish, WorkerBooks, libVars
  <2>6. CASE ProcessStartStop
    BY <2>6 DEF ProcessStartStop, Finish, Awake, WorkerBooks
  <2>7. CASE ProcessAddChangeInt
    <3>1. \A q \in InQueue' : q \in InQueue /\ (Runnable(q)' => Runnable(q))
      BY <2>0, <2>7, ForgetStarts, NothingGained
         DEF ProcessAddChangeInt, Finish, Reply, clientVars
    <3>2. QED
      BY <2>7, <3>1 DEF ProcessAddChangeInt, Awake, Finish, WorkerBooks, libVars
  <2>8. CASE ProcessMediaChange
    <3>1. \A q \in InQueue' : q \in InQueue /\ (Runnable(q)' => Runnable(q))
      BY <2>0, <2>8, NothingGained
         DEF ProcessMediaChange, unitVars, clientVars
    <3>2. QED
      BY <2>8, <3>1
         DEF ProcessMediaChange, Awake, TearDown, WorkerBooks, libVars,
             workerVars
  <2>9. CASE WalkNext
    <3>1. \A q \in InQueue' : q \in InQueue /\ (Runnable(q)' => Runnable(q))
      BY <2>0, <2>9, NothingGained
         DEF WalkNext, unitVars, clientVars
    <3>2. QED
      BY <2>9, <3>1
         DEF WalkNext, Awake, TearDown, WorkerBooks, libVars, workerVars
  <2>10. CASE WalkEnd
    <3>1. \A q \in InQueue' : q \in InQueue /\ (Runnable(q)' => Runnable(q))
      BY <2>0, <2>10, ForgetStarts, NothingGained
         DEF WalkEnd, Finish, Reply, unitVars
    <3>2. QED
      BY <2>10, <3>1 DEF WalkEnd, Awake, Finish, WorkerBooks, libVars
  <2>11. CASE DeviceExpunge
    <3>1. \A q \in InQueue' : q \in InQueue /\ (Runnable(q)' => Runnable(q))
      BY <2>0, <2>11, NothingGained
         DEF DeviceExpunge, unitVars, clientVars
    <3>2. QED
      BY <2>11, <3>1
         DEF DeviceExpunge, Awake, TearDown, WorkerBooks, libVars, workerVars
  <2>12. ASSUME NEW r \in Requests, DeviceOpen(r)
        PROVE  Awake'
    <3>1. \A q \in InQueue' : q \in InQueue /\ (Runnable(q)' => Runnable(q))
      BY <2>0, <2>12, NothingGained
         DEF DeviceOpen, unitVars, clientVars
    <3>2. QED
      BY <2>12, <3>1
         DEF DeviceOpen, Awake, TearDown, WorkerBooks, libVars, workerVars
  <2>13. ASSUME NEW r \in Requests, DeviceClose(r)
        PROVE  Awake'
    <3>1. \A q \in InQueue' : q \in InQueue /\ (Runnable(q)' => Runnable(q))
      <4>1. InQueue' \subseteq InQueue
        BY <2>13, RemoveRequestBooks DEF DeviceClose, TypeOK
      <4>2. QED
        BY <2>0, <4>1, <2>13, ForgetStarts, NothingGained DEF DeviceClose
    <3>2. QED
      BY <2>13, <3>1 DEF DeviceClose, Awake, TearDown
  <2>14. ASSUME NEW r \in Requests, NEW c \in Commands, BeginQueued(r, c)
        PROVE  Awake'
    <3>1. CASE Send(r, c, {}) /\ io_queue' = Append(io_queue, r)
               /\ io_processing' = 1 /\ signal' = 1
      BY <3>1 DEF Awake
    <3>2. CASE Send(r, c, {r}) /\ UNCHANGED <<io_queue, io_processing, signal>>
      <4>1. \A q \in InQueue' : q \in InQueue /\ (Runnable(q)' => Runnable(q))
        BY <2>0, <3>2, <2>14, SendStarts, NothingGained
           DEF BeginQueued, unitVars
      <4>2. QED BY <2>14, <3>2, <4>1 DEF BeginQueued, Awake, libVars, workerVars
    <3>3. QED BY <2>14, <3>1, <3>2 DEF BeginQueued
  <2>15. ASSUME NEW r \in Requests, BeginStatus(r)
        PROVE  Awake'
    <3>1. \A q \in InQueue' : q \in InQueue /\ (Runnable(q)' => Runnable(q))
      <4>1. "STATUS" \in Commands
        BY DEF Commands
      <4>2. QED
        BY <2>0, <4>1, <2>15, SendStarts, NothingGained
           DEF BeginStatus, unitVars
    <3>2. QED
      BY <2>15, <3>1 DEF BeginStatus, Awake, libVars, workerVars
  <2>16. ASSUME NEW r \in Requests, BeginFlush(r)
        PROVE  Awake'
    <3>1. \A q \in InQueue' : q \in InQueue /\ (Runnable(q)' => Runnable(q))
      <4>1. "FLUSH" \in Commands
        BY DEF Commands
      <4>2. InQueue' \subseteq InQueue
        BY <2>16, RemoveUnitBooks DEF BeginFlush, TypeOK
      <4>3. QED
        BY <4>1, <4>2, <2>16, SendStarts, NothingGained DEF BeginFlush, unitVars
    <3>2. QED
      BY <2>16, <3>1 DEF BeginFlush, Awake, libVars, workerVars
  <2>17. ASSUME NEW r \in Requests, BeginRemove(r)
        PROVE  Awake'
    <3>1. \A q \in InQueue' : q \in InQueue /\ (Runnable(q)' => Runnable(q))
      <4>1. "REMOVE" \in Commands
        BY DEF Commands
      <4>2. QED
        BY <2>0, <4>1, <2>17, SendStarts, NothingGained
           DEF BeginRemove, unitVars
    <3>2. QED
      BY <2>17, <3>1 DEF BeginRemove, Awake, libVars, workerVars
  <2>18. ASSUME NEW r \in Requests, BeginRemChangeInt(r)
        PROVE  Awake'
    <3>1. \A q \in InQueue' : q \in InQueue /\ (Runnable(q)' => Runnable(q))
      <4>1. \A q \in Requests : command'[q] = "START" => command[q] = "START"
        BY <2>18 DEF BeginRemChangeInt, TypeOK
      <4>2. QED
        BY <2>0, <4>1, <2>18, NothingGained DEF BeginRemChangeInt
    <3>2. QED
      BY <2>18, <3>1 DEF BeginRemChangeInt, Awake, libVars
  <2>19. ASSUME NEW r \in Requests, DeviceAbortIO(r)
        PROVE  Awake'
    <3>1. \A q \in InQueue' : q \in InQueue /\ (Runnable(q)' => Runnable(q))
      <4>1. InQueue' \subseteq InQueue
        BY <2>0, <2>19, RemoveRequestBooks DEF DeviceAbortIO, TypeOK
      <4>2. QED
        BY <2>0, <4>1, <2>19, ForgetStarts, NothingGained
           DEF DeviceAbortIO, Reply
    <3>2. QED
      BY <2>19, <3>1 DEF DeviceAbortIO, Awake, libVars
  <2>20. QED
    BY <2>1, <2>2, <2>3, <2>4, <2>5, <2>6, <2>7, <2>8, <2>9, <2>10, 
       <2>11, <2>12, <2>13, <2>14, <2>15, <2>16, <2>17, <2>18, 
       <2>19
       DEF Next, WorkerStep, ClientStep
<1>3. Awake => IdleFlagHonest /\ NoLostWork
  BY RunnableInQueue DEF Awake, IdleFlagHonest, NoLostWork
<1>4. QED BY <1>1, <1>2, <1>3, DiskTypeCorrect, PTL DEF Spec

\* No request that the worker could take waits behind a sleeping worker that
\* nobody has signalled.
THEOREM WorkNotLost == Spec => []NoLostWork
BY WorkerAwake, PTL

-----------------------------------------------------------------------------
(* Where requests are, and how often they are answered.                    *)

\* Who holds a request, whose client still has it open, and whether it has
\* been answered: the parts need one another.
Books == OneHolder /\ SentBooks /\ Unanswered

\* A reply counts only for the requests replied.
LEMMA RepliedOnce ==
  ASSUME TypeOK, NEW R
  PROVE  \A q \in Requests : q \notin R => Replied(R)[q] = replies[q]
BY DEF Replied

\* Answering requests makes none of them a TD_ADDCHANGEINT.
LEMMA ForgetAdds ==
  ASSUME TypeOK, NEW R
  PROVE  \A q \in Requests :
           Forget(R)[q] = "ADDCHANGEINT" => command[q] = "ADDCHANGEINT"
BY DEF Forget

\* What a send leaves of the books.
LEMMA SendBooks ==
  ASSUME TypeOK, Books, NEW r \in Requests, NEW c \in Commands, NEW R,
         Send(r, c, R)
  PROVE  /\ r \notin InQueue /\ r \notin InHand /\ r \notin change_requests
         /\ \A q \in Requests : q # r =>
              (command'[q] = "ADDCHANGEINT" => command[q] = "ADDCHANGEINT")
         /\ Unanswered'
<1>1. r \notin InQueue /\ r \notin InHand /\ r \notin change_requests
  BY DEF Send, Books, OneHolder, InHand
<1>2. \A q \in Requests : q # r =>
        (command'[q] = "ADDCHANGEINT" => command[q] = "ADDCHANGEINT")
  BY ForgetAdds, ReplyTypes DEF Send
<1>3. Unanswered'
  <2>1. SUFFICES ASSUME NEW q \in sent'
                 PROVE  replies'[q] = 0
    BY DEF Unanswered
  <2>2. q \in Requests /\ q \notin R /\ (q = r \/ q \in sent)
    BY DEF Send, TypeOK
  <2>3. CASE q = r
    BY <2>2, <2>3, ReplyTypes DEF Send
  <2>4. CASE q # r
    <3>1. replies'[q] = Replied(R)[q] /\ Replied(R)[q] = replies[q]
      BY <2>2, <2>4, ReplyTypes, RepliedOnce DEF Send
    <3>2. QED BY <2>2, <2>4, <3>1 DEF Books, Unanswered
  <2>5. QED BY <2>3, <2>4
<1>4. QED BY <1>1, <1>2, <1>3

\* What a reply leaves of the books.
LEMMA ReplyBooks ==
  ASSUME TypeOK, Books, NEW R, Reply(R)
  PROVE  /\ sent' = sent \ R
         /\ \A q \in Requests :
              command'[q] = "ADDCHANGEINT" => command[q] = "ADDCHANGEINT"
         /\ Unanswered'
<1>1. sent' = sent \ R
  BY DEF Reply
<1>2. Unanswered'
  BY <1>1, RepliedOnce DEF Reply, Books, Unanswered, TypeOK
<1>3. QED BY <1>1, <1>2, ForgetAdds DEF Reply

\* Every step keeps the books, if clients wait for their registration.
LEMMA BooksStep ==
  ASSUME EagerRemove = 0, TypeOK, WorkerBooks, Awake, Books, [Next]_vars
  PROVE  Books'
<1> USE DiskConstants
<1>0. /\ InQueue \subseteq Requests /\ (UNCHANGED io_queue => UNCHANGED InQueue)
      /\ (UNCHANGED io_queue => (Distinct' <=> Distinct))
      /\ Distinct
  BY DEF InQueue, Positions, TypeOK, Distinct, Books, OneHolder
<1>1. CASE UNCHANGED vars
  BY <1>0, <1>1
     DEF vars, libVars, unitVars, workerVars, clientVars, Books, OneHolder,
         SentBooks, Unanswered, InHand, Distinct
<1>2. CASE WorkerWake
  BY <1>0, <1>2
     DEF WorkerWake, libVars, unitVars, workerVars, clientVars, Books,
         OneHolder, SentBooks, Unanswered, InHand, Distinct
<1>3. CASE WorkerTake
  <2>1. PICK i \in Positions : current' = io_queue[i] /\ Detach(i)
    BY <1>3 DEF WorkerTake
  <2>2. /\ Distinct' /\ InQueue' = InQueue \ {current'}
        /\ current' \in InQueue /\ current' \in Requests
    <3>1. io_queue \in Seq(Requests)
      BY DEF TypeOK
    <3>2. current' \in InQueue
      BY <2>1 DEF InQueue, Positions
    <3>3. Distinct' /\ InQueue' = InQueue \ {io_queue[i]}
      BY <1>0, <2>1, <3>1, DetachBooks
    <3>4. QED  BY <1>0, <2>1, <3>2, <3>3
  <2>3. InHand = {} /\ InHand' = {current'}
    BY <1>3, <2>2 DEF WorkerTake, WorkerBooks, InHand
  <2>4. QED
    BY <1>3, <2>2, <2>3
       DEF WorkerTake, Books, OneHolder, SentBooks, Unanswered, unitVars,
           libVars, clientVars, Distinct
<1>4. CASE WorkerIdle
  BY <1>0, <1>4
     DEF WorkerIdle, libVars, unitVars, workerVars, clientVars, Books,
         OneHolder, SentBooks, Unanswered, InHand, Distinct
<1>5. CASE ProcessData
  <2>1. InHand = {current} /\ InHand' = {} /\ current \in Requests
    BY <1>5 DEF ProcessData, Finish, WorkerBooks, InHand, TypeOK
  <2>2. QED
    BY <1>0, <1>5, <2>1, ReplyBooks
       DEF ProcessData, Finish, Books, OneHolder, SentBooks, unitVars, libVars,
           Distinct
<1>6. CASE ProcessStartStop
  <2>1. InHand = {current} /\ InHand' = {} /\ current \in Requests
    BY <1>6 DEF ProcessStartStop, Finish, WorkerBooks, InHand, TypeOK
  <2>2. QED
    BY <1>0, <1>6, <2>1, ReplyBooks
       DEF ProcessStartStop, Finish, Books, OneHolder, SentBooks, unitVars, libVars,
           Distinct
<1>7. CASE ProcessAddChangeInt
  <2>1. /\ InHand = {current} /\ InHand' = {} /\ current \in Requests
        /\ command[current] = "ADDCHANGEINT"
    BY <1>7 DEF ProcessAddChangeInt, Finish, WorkerBooks, InHand, TypeOK
  <2>2. CASE /\ change_requests' = change_requests \cup {current}
             /\ UNCHANGED clientVars
    BY <1>0, <1>7, <2>1, <2>2
       DEF ProcessAddChangeInt, Books, OneHolder, SentBooks, Unanswered,
           libVars, clientVars, Distinct
  <2>3. CASE Finish /\ UNCHANGED change_requests
    BY <1>0, <1>7, <2>1, <2>3, ReplyBooks
       DEF ProcessAddChangeInt, Finish, Books, OneHolder, SentBooks, libVars,
           Distinct
  <2>4. QED BY <1>7, <2>2, <2>3 DEF ProcessAddChangeInt
<1>8. CASE ProcessMediaChange
  BY <1>0, <1>8
     DEF ProcessMediaChange, libVars, unitVars, workerVars, clientVars, Books,
         OneHolder, SentBooks, Unanswered, InHand, Distinct
<1>9. CASE WalkNext
  BY <1>0, <1>9
     DEF WalkNext, libVars, unitVars, workerVars, clientVars, Books, OneHolder,
         SentBooks, Unanswered, InHand, Distinct
<1>10. CASE WalkEnd
  <2>1. InHand = {current} /\ InHand' = {} /\ current \in Requests
    BY <1>10 DEF WalkEnd, Finish, WorkerBooks, InHand, TypeOK
  <2>2. QED
    BY <1>0, <1>10, <2>1, ReplyBooks
       DEF WalkEnd, Finish, Books, OneHolder, SentBooks, unitVars, libVars,
           Distinct
<1>11. CASE DeviceExpunge
  <2>1. CASE MayTearDown(opened, io_queue)
    <3>1. current = NULL /\ sent = {} /\ change_requests = {}
      BY <2>1 DEF MayTearDown, Awake, Books, SentBooks, OneHolder, InHand
    <3>2. QED
      BY <1>0, <1>11, <2>1, <3>1
         DEF DeviceExpunge, TearDown, workerVars, clientVars, Distinct,
             Books, OneHolder, SentBooks, Unanswered, InHand
  <2>2. CASE ~ MayTearDown(opened, io_queue)
    BY <1>0, <1>11, <2>2
       DEF DeviceExpunge, workerVars, clientVars, Distinct,
           Books, OneHolder, SentBooks, Unanswered, InHand
  <2>3. QED BY <2>1, <2>2
<1>12. ASSUME NEW r \in Requests, DeviceOpen(r)
      PROVE  Books'
  BY <1>0, <1>12
     DEF DeviceOpen, libVars, unitVars, workerVars, clientVars, Books,
         OneHolder, SentBooks, Unanswered, InHand, Distinct
<1>13. ASSUME NEW r \in Requests, DeviceClose(r)
      PROVE  Books'
  <2>1. Distinct' /\ InQueue' = InQueue \ {r} /\ UNCHANGED InHand
    BY <1>0, <1>13, RemoveRequestBooks DEF DeviceClose, TypeOK, InHand
  <2>2. \A q \in Requests :
          command'[q] = "ADDCHANGEINT" => command[q] = "ADDCHANGEINT"
    BY <1>13, ForgetAdds DEF DeviceClose
  <2>3. Unanswered'
    <3>1. SUFFICES ASSUME NEW q \in sent'
                   PROVE  replies'[q] = 0
      BY DEF Unanswered
    <3>2. q \in sent /\ q \in Requests /\ q \notin {r} \cap InQueue
      BY <1>13, <3>1 DEF DeviceClose, Books, OneHolder, InHand, TypeOK
    <3>3. QED
      BY <1>13, <3>2, RepliedOnce DEF DeviceClose, Books, Unanswered
  <2>4. sent' = InQueue' \cup InHand' \cup (change_requests \ {r})
    BY <1>13, <2>1 DEF DeviceClose, Books, OneHolder, InHand
  <2>5. CASE change_requests' = change_requests \ {r}
    BY <1>13, <2>1, <2>2, <2>3, <2>4, <2>5
       DEF DeviceClose, Books, OneHolder, SentBooks, InHand, Distinct, TypeOK
  <2>6. CASE MayTearDown(opened', io_queue') /\ TearDown
    <3>1. InHand = {} /\ opened' = {}
      BY <2>6 DEF MayTearDown, Awake, InHand
    <3>2. sent' = {}
      BY <1>13, <3>1 DEF DeviceClose, Books, SentBooks, InHand
    <3>3. QED
      BY <1>13, <2>1, <2>3, <2>4, <2>6, <3>1, <3>2
         DEF TearDown, Books, OneHolder, SentBooks, Distinct
  <2>7. QED BY <1>13, <2>5, <2>6 DEF DeviceClose
<1>14. ASSUME NEW r \in Requests, NEW c \in Commands, BeginQueued(r, c)
      PROVE  Books'
  <2>1. UNCHANGED InHand /\ InHand \subseteq Requests
    BY <1>14 DEF BeginQueued, InHand, workerVars, TypeOK
  <2>2. CASE Send(r, c, {}) /\ io_queue' = Append(io_queue, r)
    <3>1. /\ r \notin InQueue /\ r \notin InHand /\ r \notin change_requests
          /\ Unanswered'
          /\ \A q \in Requests : q # r =>
               (command'[q] = "ADDCHANGEINT" => command[q] = "ADDCHANGEINT")
      BY <1>14, <2>2, SendBooks
    <3>2. Distinct' /\ InQueue' = InQueue \cup {r}
      BY <1>0, <2>2, <3>1, AppendBooks DEF TypeOK
    <3>3. sent' = sent \cup {r} /\ r \in opened
      BY <2>2 DEF Send
    <3>4. QED
      BY <1>14, <2>1, <3>1, <3>2, <3>3
         DEF BeginQueued, unitVars, libVars, Books, OneHolder, SentBooks,
             Distinct
  <2>3. CASE Send(r, c, {r}) /\ UNCHANGED io_queue
    <3>1. /\ r \notin InQueue /\ r \notin InHand /\ r \notin change_requests
          /\ Unanswered'
          /\ \A q \in Requests : q # r =>
               (command'[q] = "ADDCHANGEINT" => command[q] = "ADDCHANGEINT")
      BY <1>14, <2>3, SendBooks
    <3>2. sent' = sent
      BY <2>3 DEF Send
    <3>3. QED
      BY <1>0, <1>14, <2>1, <2>3, <3>1, <3>2
         DEF BeginQueued, unitVars, libVars, Books, OneHolder, SentBooks,
             Distinct
  <2>4. QED BY <1>14, <2>2, <2>3 DEF BeginQueued
<1>15. ASSUME NEW r \in Requests, BeginStatus(r)
      PROVE  Books'
  <2>1. UNCHANGED InHand /\ InHand \subseteq Requests
    BY <1>15 DEF BeginStatus, InHand, workerVars, TypeOK
  <2>2. "STATUS" \in Commands
    BY DEF Commands
  <2>3. /\ r \notin InQueue /\ r \notin InHand /\ r \notin change_requests
        /\ Unanswered'
        /\ \A q \in Requests : q # r =>
             (command'[q] = "ADDCHANGEINT" => command[q] = "ADDCHANGEINT")
    BY <1>15, <2>2, SendBooks DEF BeginStatus
  <2>4. sent' = sent
    BY <1>15 DEF BeginStatus, Send
  <2>5. QED
    BY <1>0, <1>15, <2>1, <2>3, <2>4
       DEF BeginStatus, unitVars, libVars, Books, OneHolder, SentBooks, Distinct
<1>16. ASSUME NEW r \in Requests, BeginFlush(r)
      PROVE  Books'
  <2>1. UNCHANGED InHand /\ InHand \subseteq Requests
    BY <1>16 DEF BeginFlush, InHand, workerVars, TypeOK
  <2>2. "FLUSH" \in Commands
    BY DEF Commands
  <2>3. /\ r \notin InQueue /\ r \notin InHand /\ r \notin change_requests
        /\ Unanswered'
        /\ \A q \in Requests : q # r =>
             (command'[q] = "ADDCHANGEINT" => command[q] = "ADDCHANGEINT")
    BY <1>16, <2>2, SendBooks DEF BeginFlush
  <2>4. Distinct' /\ InQueue' = {q \in InQueue : UnitOf[q] # UnitOf[r]}
    BY <1>0, <1>16, RemoveUnitBooks DEF BeginFlush, TypeOK
  <2>5. sent' = sent \ {q \in InQueue : UnitOf[q] = UnitOf[r]}
    BY <1>16 DEF BeginFlush, Send
  <2>6. QED
    BY <1>16, <2>1, <2>3, <2>4, <2>5
       DEF BeginFlush, unitVars, libVars, Books, OneHolder, SentBooks, Distinct
<1>17. ASSUME NEW r \in Requests, BeginRemove(r)
      PROVE  Books'
  <2>1. UNCHANGED InHand /\ InHand \subseteq Requests
    BY <1>17 DEF BeginRemove, InHand, workerVars, TypeOK
  <2>2. "REMOVE" \in Commands
    BY DEF Commands
  <2>3. /\ r \notin InQueue /\ r \notin InHand /\ r \notin change_requests
        /\ Unanswered'
        /\ \A q \in Requests : q # r =>
             (command'[q] = "ADDCHANGEINT" => command[q] = "ADDCHANGEINT")
    BY <1>17, <2>2, SendBooks DEF BeginRemove
  <2>4. sent' = sent
    BY <1>17 DEF BeginRemove, Send
  <2>5. QED
    BY <1>0, <1>17, <2>1, <2>3, <2>4
       DEF BeginRemove, unitVars, libVars, Books, OneHolder, SentBooks, Distinct
<1>18. ASSUME NEW r \in Requests, BeginRemChangeInt(r)
      PROVE  Books'
  <2>1. /\ r \in change_requests /\ change_requests' = change_requests \ {r}
        /\ sent' = sent \ {r} /\ UNCHANGED InHand /\ InHand \subseteq Requests
    BY <1>18 DEF BeginRemChangeInt, Unregister, InHand, TypeOK
  <2>2. \A q \in Requests :
          command'[q] = "ADDCHANGEINT" => command[q] = "ADDCHANGEINT"
    BY <1>18 DEF BeginRemChangeInt, TypeOK
  <2>3. Unanswered'
    BY <1>18, RepliedOnce DEF BeginRemChangeInt, Books, Unanswered, TypeOK
  <2>4. QED
    BY <1>0, <1>18, <2>1, <2>2, <2>3
       DEF BeginRemChangeInt, libVars, Books, OneHolder, SentBooks, Distinct
<1>19. ASSUME NEW r \in Requests, DeviceAbortIO(r)
      PROVE  Books'
  <2>1. /\ UNCHANGED InHand /\ InHand \subseteq Requests
        /\ sent' = sent \ {r} /\ Unanswered'
        /\ \A q \in Requests :
             command'[q] = "ADDCHANGEINT" => command[q] = "ADDCHANGEINT"
    BY <1>19, ReplyBooks DEF DeviceAbortIO, InHand, TypeOK
  <2>2. /\ Distinct' /\ r \notin InHand
        /\ InQueue' \cup change_requests' =
             (InQueue \cup change_requests) \ {r}
        /\ InQueue' \subseteq InQueue /\ change_requests' \subseteq change_requests
    <3>1. CASE r \in change_requests /\ Unregister(r) /\ UNCHANGED io_queue
      BY <1>0, <3>1 DEF Unregister, Books, OneHolder
    <3>2. CASE /\ r \in InQueue /\ RemoveRequest(r)
               /\ r \notin change_requests /\ UNCHANGED change_requests
      BY <1>0, <3>2, RemoveRequestBooks DEF TypeOK, Books, OneHolder
    <3>3. QED BY <1>19, <3>1, <3>2 DEF DeviceAbortIO
  <2>3. QED
    BY <1>19, <2>1, <2>2
       DEF DeviceAbortIO, libVars, Books, OneHolder, SentBooks, Distinct
<1>20. QED
  BY <1>1, <1>2, <1>3, <1>4, <1>5, <1>6, <1>7, <1>8, <1>9, <1>10, 
     <1>11, <1>12, <1>13, <1>14, <1>15, <1>16, <1>17, <1>18, 
     <1>19
     DEF Next, WorkerStep, ClientStep

\* WorkerAwake, over the set of queued requests.
LEMMA AwakeAlways == Spec => []Awake
<1>1. IdleFlagHonest /\ NoLostWork => Awake
  BY RunnableInQueue DEF Awake, IdleFlagHonest, NoLostWork
<1>2. QED BY <1>1, WorkerAwake, PTL

\* The books are kept in every reachable state.
LEMMA BooksAlways == ASSUME EagerRemove = 0 PROVE Spec => []Books
<1>1. Init => Books
  BY DiskConstants
     DEF Init, Books, OneHolder, SentBooks, Unanswered, InQueue, InHand,
         Positions
<1>2. TypeOK /\ WorkerBooks /\ Awake /\ Books /\ [Next]_vars => Books'
  BY BooksStep
<1>3. QED BY <1>1, <1>2, DiskTypeCorrect, AwakeAlways, PTL DEF Spec

\* If clients wait for their registration before they remove it, every
\* request the device owns is in exactly one place, and no other is in any.
THEOREM RequestsHeld == ASSUME EagerRemove = 0 PROVE Spec => []OneHolder
<1>1. Books => OneHolder
  BY DEF Books
<1>2. QED BY <1>1, BooksAlways, PTL

\* Replying requests that the device owns answers each for the first time.
LEMMA OneReply ==
  ASSUME TypeOK, Unanswered, CompletedOnce, NEW R, R \subseteq sent
  PROVE  \A q \in Requests : Replied(R)[q] <= 1
<1>1. SUFFICES ASSUME NEW q \in Requests
               PROVE  Replied(R)[q] <= 1
  OBVIOUS
<1>2. replies[q] \in 0 .. 2 /\ replies[q] <= 1 /\ (q \in R => replies[q] = 0)
  BY DEF TypeOK, Unanswered, CompletedOnce
<1>3. QED BY <1>2 DEF Replied

\* So does a send that is answered, or that answers others.
LEMMA SendOneReply ==
  ASSUME TypeOK, Unanswered, CompletedOnce, NEW r \in Requests,
         NEW c \in Commands, NEW R, R \subseteq sent \cup {r}, Send(r, c, R)
  PROVE  CompletedOnce'
<1>1. SUFFICES ASSUME NEW q \in Requests
               PROVE  replies'[q] <= 1
  BY DEF CompletedOnce
<1>2. CASE q = r
  BY <1>2, ReplyTypes DEF Send
<1>3. CASE q # r
  <2>1. replies'[q] = Replied(R)[q]
    BY <1>3, ReplyTypes DEF Send
  <2>2. replies[q] \in 0 .. 2 /\ replies[q] <= 1 /\ (q \in R => replies[q] = 0)
    BY <1>3 DEF TypeOK, Unanswered, CompletedOnce
  <2>3. QED BY <2>1, <2>2 DEF Replied
<1>4. QED BY <1>2, <1>3

\* Under the same condition, no request is answered twice for one send.
THEOREM AnsweredOnce == ASSUME EagerRemove = 0 PROVE Spec => []CompletedOnce
<1>1. Init => CompletedOnce
  BY DEF Init, CompletedOnce
<1>2. TypeOK /\ WorkerBooks /\ Books /\ CompletedOnce /\ [Next]_vars =>
        CompletedOnce'
  <2> SUFFICES ASSUME TypeOK, WorkerBooks, Books, CompletedOnce, [Next]_vars
               PROVE  CompletedOnce'
    OBVIOUS
  <2>0. /\ Unanswered /\ InHand \subseteq sent /\ InQueue \subseteq sent
        /\ (worker \in {"processing", "walking"} => {current} \subseteq sent)
    BY DEF Books, OneHolder, WorkerBooks, InHand
  <2>1. CASE UNCHANGED vars
    BY <2>1 DEF vars, clientVars, CompletedOnce
  <2>2. CASE WorkerWake
    BY <2>2 DEF WorkerWake, clientVars, CompletedOnce
  <2>3. CASE WorkerTake
    BY <2>3 DEF WorkerTake, clientVars, CompletedOnce
  <2>4. CASE WorkerIdle
    BY <2>4 DEF WorkerIdle, clientVars, CompletedOnce
  <2>5. CASE ProcessData
    BY <2>0, <2>5, OneReply
       DEF ProcessData, Finish, Reply, clientVars, CompletedOnce
  <2>6. CASE ProcessStartStop
    BY <2>0, <2>6, OneReply
       DEF ProcessStartStop, Finish, Reply, clientVars, CompletedOnce
  <2>7. CASE ProcessAddChangeInt
    BY <2>0, <2>7, OneReply
       DEF ProcessAddChangeInt, Finish, Reply, clientVars, CompletedOnce
  <2>8. CASE ProcessMediaChange
    BY <2>8 DEF ProcessMediaChange, clientVars, CompletedOnce
  <2>9. CASE WalkNext
    BY <2>9 DEF WalkNext, clientVars, CompletedOnce
  <2>10. CASE WalkEnd
    BY <2>0, <2>10, OneReply
       DEF WalkEnd, Finish, Reply, clientVars, CompletedOnce
  <2>11. CASE DeviceExpunge
    BY <2>11 DEF DeviceExpunge, clientVars, CompletedOnce
  <2>12. ASSUME NEW r \in Requests, DeviceOpen(r)
        PROVE  CompletedOnce'
    BY <2>12 DEF DeviceOpen, clientVars, CompletedOnce
  <2>13. ASSUME NEW r \in Requests, DeviceClose(r)
        PROVE  CompletedOnce'
    <3>1. {r} \cap InQueue \subseteq sent
      BY <2>0
    <3>2. QED BY <2>0, <2>13, <3>1, OneReply DEF DeviceClose, CompletedOnce
  <2>14. ASSUME NEW r \in Requests, NEW c \in Commands, BeginQueued(r, c)
        PROVE  CompletedOnce'
    <3>1. \/ Send(r, c, {})
          \/ Send(r, c, {r})
      BY <2>14 DEF BeginQueued
    <3>2. {} \subseteq sent \cup {r} /\ {r} \subseteq sent \cup {r}
      OBVIOUS
    <3>3. CASE Send(r, c, {})
      BY <2>0, <3>2, <3>3, SendOneReply
    <3>4. CASE Send(r, c, {r})
      BY <2>0, <3>2, <3>4, SendOneReply
    <3>5. QED BY <3>1, <3>3, <3>4
  <2>15. ASSUME NEW r \in Requests, BeginStatus(r)
        PROVE  CompletedOnce'
    <3>1. "STATUS" \in Commands /\ {r} \subseteq sent \cup {r}
      BY DEF Commands
    <3>2. QED BY <2>0, <2>15, <3>1, SendOneReply DEF BeginStatus
  <2>16. ASSUME NEW r \in Requests, BeginFlush(r)
        PROVE  CompletedOnce'
    <3> DEFINE R == {q \in InQueue : UnitOf[q] = UnitOf[r]} \cup {r}
    <3>1. "FLUSH" \in Commands /\ R \subseteq sent \cup {r}
      BY <2>0 DEF Commands
    <3>2. Send(r, "FLUSH", R)
      BY <2>16 DEF BeginFlush
    <3> HIDE DEF R
    <3>3. QED BY <2>0, <3>1, <3>2, SendOneReply
  <2>17. ASSUME NEW r \in Requests, BeginRemove(r)
        PROVE  CompletedOnce'
    <3>1. "REMOVE" \in Commands /\ {r} \subseteq sent \cup {r}
      BY DEF Commands
    <3>2. QED BY <2>0, <2>17, <3>1, SendOneReply DEF BeginRemove
  <2>18. ASSUME NEW r \in Requests, BeginRemChangeInt(r)
        PROVE  CompletedOnce'
    <3>1. {r} \subseteq sent
      BY <2>18 DEF BeginRemChangeInt
    <3>2. QED
      BY <2>0, <2>18, <3>1, OneReply
         DEF BeginRemChangeInt, CompletedOnce
  <2>19. ASSUME NEW r \in Requests, DeviceAbortIO(r)
        PROVE  CompletedOnce'
    <3>1. {r} \subseteq sent
      BY <2>19 DEF DeviceAbortIO
    <3>2. QED
      BY <2>0, <2>19, <3>1, OneReply
         DEF DeviceAbortIO, Reply, CompletedOnce
  <2>20. QED
    BY <2>1, <2>2, <2>3, <2>4, <2>5, <2>6, <2>7, <2>8, <2>9, <2>10, 
       <2>11, <2>12, <2>13, <2>14, <2>15, <2>16, <2>17, <2>18, 
       <2>19
       DEF Next, WorkerStep, ClientStep
<1>3. QED BY <1>1, <1>2, DiskTypeCorrect, BooksAlways, PTL DEF Spec

-----------------------------------------------------------------------------
(* Teardown and the walk over the registrations.                           *)

\* Under the same condition, the base is freed only when no client has the
\* device open and no request is left in it.
THEOREM FreedIdle == ASSUME EagerRemove = 0 PROVE Spec => []ExpungedIdle
<1>1. Init => ExpungedIdle
  BY DEF Init, ExpungedIdle
<1>2. TypeOK /\ WorkerBooks /\ Awake /\ Books /\ ExpungedIdle /\ [Next]_vars =>
        ExpungedIdle'
  <2> SUFFICES ASSUME TypeOK, WorkerBooks, Awake, Books, ExpungedIdle,
                      [Next]_vars
               PROVE  ExpungedIdle'
    OBVIOUS
  <2>1. CASE UNCHANGED vars
    BY <2>1 DEF vars, libVars, workerVars, clientVars, ExpungedIdle
  <2>2. CASE WorkerWake
    BY <2>2 DEF WorkerWake, libVars, ExpungedIdle, TypeOK
  <2>3. CASE WorkerTake
    BY <2>3 DEF WorkerTake, libVars, ExpungedIdle, TypeOK
  <2>4. CASE WorkerIdle
    BY <2>4 DEF WorkerIdle, libVars, ExpungedIdle, TypeOK
  <2>5. CASE ProcessData
    BY <2>5 DEF ProcessData, WorkerBooks, libVars, ExpungedIdle
  <2>6. CASE ProcessStartStop
    BY <2>6 DEF ProcessStartStop, WorkerBooks, libVars, ExpungedIdle
  <2>7. CASE ProcessAddChangeInt
    BY <2>7 DEF ProcessAddChangeInt, WorkerBooks, libVars, ExpungedIdle
  <2>8. CASE ProcessMediaChange
    BY <2>8 DEF ProcessMediaChange, WorkerBooks, libVars, ExpungedIdle
  <2>9. CASE WalkNext
    BY <2>9 DEF WalkNext, WorkerBooks, libVars, ExpungedIdle
  <2>10. CASE WalkEnd
    BY <2>10 DEF WalkEnd, WorkerBooks, libVars, ExpungedIdle
  <2>11. CASE DeviceExpunge
    BY <2>11
       DEF DeviceExpunge, TearDown, MayTearDown, Awake, Books, SentBooks, InHand,
           workerVars, clientVars, ExpungedIdle
  <2>12. ASSUME NEW r \in Requests, DeviceOpen(r)
        PROVE  ExpungedIdle'
    BY <2>12 DEF DeviceOpen, libVars, ExpungedIdle, TypeOK
  <2>13. ASSUME NEW r \in Requests, DeviceClose(r)
        PROVE  ExpungedIdle'
    <3>1. CASE MayTearDown(opened', io_queue')
      <4>1. current = NULL /\ InHand = {} /\ opened' = {} /\ io_queue' = <<>>
        BY <3>1 DEF MayTearDown, Awake, InHand
      <4>2. sent' = {}
        <5>1. sent \subseteq opened
          BY <4>1 DEF Books, SentBooks
        <5>2. current # r
          BY <4>1, DiskConstants
        <5>3. opened \subseteq {r} /\ sent' = sent \ {r}
          BY <2>13, <4>1, <5>2 DEF DeviceClose
        <5>4. QED BY <5>1, <5>3
      <4>3. QED BY <2>13, <4>1, <4>2 DEF DeviceClose, ExpungedIdle
    <3>2. CASE ~ MayTearDown(opened', io_queue')
      BY <2>13, <3>2 DEF DeviceClose, ExpungedIdle
    <3>3. QED BY <3>1, <3>2
  <2>14. ASSUME NEW r \in Requests, NEW c \in Commands, BeginQueued(r, c)
        PROVE  ExpungedIdle'
    BY <2>14 DEF BeginQueued, Send, libVars, ExpungedIdle, TypeOK
  <2>15. ASSUME NEW r \in Requests, BeginStatus(r)
        PROVE  ExpungedIdle'
    BY <2>15 DEF BeginStatus, Send, libVars, ExpungedIdle, TypeOK
  <2>16. ASSUME NEW r \in Requests, BeginFlush(r)
        PROVE  ExpungedIdle'
    BY <2>16 DEF BeginFlush, Send, libVars, ExpungedIdle, TypeOK
  <2>17. ASSUME NEW r \in Requests, BeginRemove(r)
        PROVE  ExpungedIdle'
    BY <2>17 DEF BeginRemove, Send, libVars, ExpungedIdle, TypeOK
  <2>18. ASSUME NEW r \in Requests, BeginRemChangeInt(r)
        PROVE  ExpungedIdle'
    BY <2>18 DEF BeginRemChangeInt, libVars, ExpungedIdle, TypeOK
  <2>19. ASSUME NEW r \in Requests, DeviceAbortIO(r)
        PROVE  ExpungedIdle'
    BY <2>19 DEF DeviceAbortIO, libVars, ExpungedIdle, TypeOK
  <2>20. QED
    BY <2>1, <2>2, <2>3, <2>4, <2>5, <2>6, <2>7, <2>8, <2>9, <2>10, 
       <2>11, <2>12, <2>13, <2>14, <2>15, <2>16, <2>17, <2>18, 
       <2>19
       DEF Next, WorkerStep, ClientStep
<1>3. QED
  BY <1>1, <1>2, DiskTypeCorrect, AwakeAlways, BooksAlways, PTL DEF Spec

\* The walk of signal_media_change causes every registration that was there
\* when it began and still is, whatever clients remove meanwhile but the node
\* it has loaded.
THEOREM WalkComplete == Spec => []EveryRegistrationCaused
<1> USE DiskConstants
<1>1. Init => WalkBooks
  BY DEF Init, WalkBooks
<1>2. TypeOK /\ WorkerBooks /\ Awake /\ WalkBooks /\ [Next]_vars => WalkBooks'
  <2> SUFFICES ASSUME TypeOK, WorkerBooks, Awake, WalkBooks, [Next]_vars
               PROVE  WalkBooks'
    OBVIOUS
  <2>1. CASE UNCHANGED vars
    BY <2>1 DEF vars, unitVars, workerVars, WalkBooks, Registered
  <2>2. CASE WorkerWake
    BY <2>2 DEF WorkerWake, unitVars, WalkBooks, Registered, TypeOK
  <2>3. CASE WorkerTake
    BY <2>3 DEF WorkerTake, unitVars, WalkBooks, Registered, TypeOK
  <2>4. CASE WorkerIdle
    BY <2>4 DEF WorkerIdle, unitVars, WalkBooks, Registered, TypeOK
  <2>5. CASE ProcessData
    BY <2>5 DEF ProcessData, Finish, WalkBooks
  <2>6. CASE ProcessStartStop
    BY <2>6 DEF ProcessStartStop, Finish, WalkBooks
  <2>7. CASE ProcessAddChangeInt
    BY <2>7 DEF ProcessAddChangeInt, Finish, WalkBooks
  <2>8. CASE ProcessMediaChange
    BY <2>8 DEF ProcessMediaChange, unitVars, WalkBooks, Registered, TypeOK
  <2>9. CASE WalkNext
    BY <2>9 DEF WalkNext, unitVars, WalkBooks, Registered, TypeOK
  <2>10. CASE WalkEnd
    BY <2>10 DEF WalkEnd, Finish, WalkBooks
  <2>11. CASE DeviceExpunge
    BY <2>11
       DEF DeviceExpunge, TearDown, MayTearDown, Awake, WorkerBooks, workerVars,
           WalkBooks, Registered
  <2>12. ASSUME NEW r \in Requests, DeviceOpen(r)
        PROVE  WalkBooks'
    BY <2>12 DEF DeviceOpen, unitVars, workerVars, WalkBooks, Registered
  <2>13. ASSUME NEW r \in Requests, DeviceClose(r)
        PROVE  WalkBooks'
    BY <2>13
       DEF DeviceClose, TearDown, MayTearDown, Awake, WorkerBooks, Stray,
           WalkBooks, Registered
  <2>14. ASSUME NEW r \in Requests, NEW c \in Commands, BeginQueued(r, c)
        PROVE  WalkBooks'
    BY <2>14 DEF BeginQueued, unitVars, workerVars, WalkBooks, Registered
  <2>15. ASSUME NEW r \in Requests, BeginStatus(r)
        PROVE  WalkBooks'
    BY <2>15 DEF BeginStatus, unitVars, workerVars, WalkBooks, Registered
  <2>16. ASSUME NEW r \in Requests, BeginFlush(r)
        PROVE  WalkBooks'
    BY <2>16 DEF BeginFlush, unitVars, workerVars, WalkBooks, Registered
  <2>17. ASSUME NEW r \in Requests, BeginRemove(r)
        PROVE  WalkBooks'
    BY <2>17 DEF BeginRemove, unitVars, workerVars, WalkBooks, Registered
  <2>18. ASSUME NEW r \in Requests, BeginRemChangeInt(r)
        PROVE  WalkBooks'
    BY <2>18
       DEF BeginRemChangeInt, Unregister, Stray, WalkBooks, Registered
  <2>19. ASSUME NEW r \in Requests, DeviceAbortIO(r)
        PROVE  WalkBooks'
    BY <2>19
       DEF DeviceAbortIO, Unregister, Stray, WalkBooks, Registered
  <2>20. QED
    BY <2>1, <2>2, <2>3, <2>4, <2>5, <2>6, <2>7, <2>8, <2>9, <2>10, 
       <2>11, <2>12, <2>13, <2>14, <2>15, <2>16, <2>17, <2>18, 
       <2>19
       DEF Next, WorkerStep, ClientStep
<1>3. WalkBooks => EveryRegistrationCaused
  BY DEF WalkBooks, EveryRegistrationCaused
<1>4. QED BY <1>1, <1>2, <1>3, DiskTypeCorrect, AwakeAlways, PTL DEF Spec

-----------------------------------------------------------------------------
(* Order of service.                                                       *)

\* Under the same condition, requests of one unit are taken in the order
\* they were sent, except for the CMD_START of a stopped unit.
THEOREM TakenInOrder == ASSUME EagerRemove = 0 PROVE Spec => ServedInOrder
<1> DEFINE Fair(i) ==
             \A j \in 1 .. i - 1 :
               io_queue[i] = current' /\ UnitOf[io_queue[j]] = UnitOf[current']
                 => stopped[UnitOf[current']] = 1 /\ command[current'] = "START"
           Order ==
             current = NULL /\ current' # NULL => \A i \in Positions : Fair(i)
<1>1. TypeOK /\ WorkerBooks /\ Books /\ [Next]_vars => Order
  <2> SUFFICES ASSUME TypeOK, WorkerBooks, Books, [Next]_vars,
                      current = NULL, current' # NULL, NEW i \in Positions
               PROVE  Fair(i)
    OBVIOUS
  <2>1. WorkerTake
    BY DEF Next, vars, WorkerStep, ClientStep, WorkerWake, WorkerIdle,
           ProcessData, ProcessStartStop, ProcessAddChangeInt,
           ProcessMediaChange, WalkNext, WalkEnd, Finish, DeviceExpunge,
           DeviceOpen, DeviceClose, BeginQueued, BeginStatus, BeginFlush,
           BeginRemove, BeginRemChangeInt, DeviceAbortIO, workerVars,
           WorkerBooks
  <2>2. PICK k \in Positions :
          IsFirst(k, RunnablePositions) /\ current' = io_queue[k]
    BY <2>1 DEF WorkerTake
  <2>3. SUFFICES ASSUME NEW j \in 1 .. i - 1, io_queue[i] = current',
                        UnitOf[io_queue[j]] = UnitOf[current']
                 PROVE  /\ stopped[UnitOf[current']] = 1
                        /\ command[current'] = "START"
    OBVIOUS
  <2>4. i = k
    BY <2>2, <2>3 DEF Books, OneHolder
  <2>5. j \in Positions /\ ~ (i <= j)
    <3>1. i \in Nat /\ Len(io_queue) \in Nat /\ i <= Len(io_queue)
      BY DEF TypeOK, Positions
    <3>2. QED BY <3>1 DEF Positions
  <2>6. ~ Runnable(io_queue[j])
    BY <2>2, <2>4, <2>5 DEF IsFirst, RunnablePositions
  <2>7. Runnable(current')
    BY <2>2 DEF IsFirst, RunnablePositions
  <2>8. stopped[UnitOf[current']] # 0 /\ command[current'] = "START"
    BY <2>3, <2>6, <2>7 DEF Runnable
  <2>9. stopped[UnitOf[current']] \in {0, 1}
    BY <2>2, DiskConstants DEF TypeOK, Positions
  <2>10. QED BY <2>8, <2>9
<1>2. QED
  BY <1>1, DiskTypeCorrect, BooksAlways, PTL DEF Spec, ServedInOrder

=============================================================================
