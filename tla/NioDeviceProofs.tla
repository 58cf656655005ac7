--------------------------- MODULE NioDeviceProofs ---------------------------
(***************************************************************************)
(* Proofs about the broker, for any finite set of clients.                 *)
(***************************************************************************)
EXTENDS NioDevice, FiniteSetTheorems, TLAPS

\* What detach() leaves of a queue.
LEMMA DetachProperties ==
  ASSUME NEW S, NEW q \in Seq(S), NEW i \in 1 .. Len(q)
  PROVE  /\ Detach(q, i) \in Seq(S)
         /\ Len(Detach(q, i)) = Len(q) - 1
         /\ \A j \in 1 .. Len(q) - 1 :
              Detach(q, i)[j] = IF j < i THEN q[j] ELSE q[j + 1]
  BY DEF Detach

\* Taking a queued request out leaves the queue and the client well typed.
LEMMA RemoveQueuedTypes ==
  ASSUME TypeOK, NEW c \in Clients, RemoveQueued(c)
  PROVE  /\ io_queue' \in Seq(Clients)
         /\ sent' \subseteq Clients /\ abort_taken' \subseteq Clients
         /\ io_Error' \in [Clients -> IoErrors]
         /\ cmd' \in [Clients -> Commands]
<1>1. io_queue' \in Seq(Clients)
  BY DetachProperties DEF RemoveQueued, TypeOK
<1>2. QED BY <1>1 DEF RemoveQueued, TypeOK, IoErrors, Commands

\* Whether it starts to stop the worker or defers, an expunge leaves the
\* variables it touches well typed.
LEMMA ExpungeTypes ==
  ASSUME TypeOK, NEW t \in Tasks, NEW count, NEW queue,
         DeviceExpunge(t, count, queue)
  PROVE  /\ delexp' \in Flag /\ worker_stop' \in Flag
         /\ expunging' \subseteq Tasks
         /\ signals' \subseteq {"work", "break"}
<1>1. CASE BeginStop(t)
  BY <1>1 DEF BeginStop, TypeOK, Flag
<1>2. CASE delexp' = 1 /\ UNCHANGED <<expunging, worker_stop, signals>>
  BY <1>2 DEF TypeOK, Flag
<1>3. QED BY <1>1, <1>2 DEF DeviceExpunge

-----------------------------------------------------------------------------
\* Every reachable state of the broker is well typed.
THEOREM TypeCorrect == Spec => []TypeOK
<1> USE DEF Busy, Flag, Lives, PCs, IoErrors, Commands, Tasks
<1>1. Init => TypeOK
  BY ConstantsAssumption DEF Init, TypeOK
<1>2. TypeOK /\ [Next]_vars => TypeOK'
  <2> SUFFICES ASSUME TypeOK, [Next]_vars PROVE TypeOK'
    OBVIOUS
  <2> USE DEF TypeOK, libVars, queueVars, backendVars, procVars, workerVars,
              clientVars
  <2>1. CASE UNCHANGED vars
    BY <2>1 DEF vars
  <2>2. CASE Load
    <3>1. CASE DeviceInit
      BY <3>1 DEF DeviceInit
    <3>2. CASE InitReady
      BY <3>2 DEF InitReady
    <3>3. CASE InitTimeout
      BY <3>3 DEF InitTimeout
    <3>4. CASE InitAbandon
      BY <3>4 DEF InitAbandon
    <3>5. QED BY <2>2, <3>1, <3>2, <3>3, <3>4 DEF Load
  <2>3. CASE RemDevice
    <3>1. DeviceExpunge(Tool, lib_OpenCnt, io_queue)
      BY <2>3 DEF RemDevice
    <3>2. /\ delexp' \in Flag /\ worker_stop' \in Flag
          /\ expunging' \subseteq Tasks
          /\ signals' \subseteq {"work", "break"}
      BY <3>1, ExpungeTypes
    <3>3. QED BY <2>3, <3>2 DEF RemDevice
  <2>4. ASSUME NEW t \in Tasks, ExpungeFinish(t) \/ ExpungeTimeout(t)
        PROVE  TypeOK'
    <3>1. CASE ExpungeFinish(t)
      BY <3>1 DEF ExpungeFinish
    <3>2. CASE ExpungeTimeout(t)
      BY <3>2 DEF ExpungeTimeout
    <3>3. QED BY <2>4, <3>1, <3>2
  <2>5. CASE Worker
    <3>1. CASE WorkerStart
      BY <3>1 DEF WorkerStart
    <3>2. CASE WorkerWake
      BY <3>2 DEF WorkerWake
    <3>3. CASE WorkerDequeue
      BY <3>3, ConstantsAssumption DEF WorkerDequeue
    <3>4. CASE WorkerDrained
      BY <3>4 DEF WorkerDrained
    <3>5. CASE WorkerOpenBackend
      BY <3>5 DEF WorkerOpenBackend
    <3>6. CASE WorkerExchange
      BY <3>6 DEF WorkerExchange
    <3>7. CASE WorkerControl
      BY <3>7 DEF WorkerControl
    <3>8. CASE WorkerComplete
      BY <3>8 DEF WorkerComplete
    <3>9. CASE WorkerReply
      BY <3>9 DEF WorkerReply
    <3>10. CASE WorkerFreeSignal
      BY <3>10 DEF WorkerFreeSignal
    <3>11. CASE WorkerGone
      BY <3>11 DEF WorkerGone
    <3>12. QED
      BY <2>5, <3>1, <3>2, <3>3, <3>4, <3>5, <3>6, <3>7, <3>8, <3>9, <3>10,
         <3>11
         DEF Worker, Request
  <2>6. ASSUME NEW c \in Clients, ClientCall(c)
        PROVE  TypeOK'
    <3>1. CASE DeviceOpen(c)
      BY <3>1 DEF DeviceOpen
    <3>2. CASE DeviceOpenBadUnit(c)
      BY <3>2 DEF DeviceOpenBadUnit
    <3>3. CASE DeviceClose(c)
      <4>1. lib_OpenCnt' \in Nat
        BY <3>3 DEF DeviceClose
      <4>2. /\ io_queue' \in Seq(Clients)
            /\ sent' \subseteq Clients /\ abort_taken' \subseteq Clients
            /\ io_Error' \in [Clients -> IoErrors]
            /\ cmd' \in [Clients -> Commands]
        <5>1. CASE RemoveQueued(c)
          BY <5>1, RemoveQueuedTypes
        <5>2. CASE UNCHANGED <<io_queue, sent, io_Error, abort_taken, cmd>>
          BY <5>2
        <5>3. QED BY <3>3, <5>1, <5>2 DEF DeviceClose
      <4>3. /\ delexp' \in Flag /\ worker_stop' \in Flag
            /\ expunging' \subseteq Tasks
            /\ signals' \subseteq {"work", "break"}
        <5>1. CASE DeviceExpunge(c, lib_OpenCnt', io_queue')
          BY <5>1, ExpungeTypes
        <5>2. CASE UNCHANGED <<delexp, expunging, worker_stop, signals>>
          BY <5>2
        <5>3. QED BY <3>3, <5>1, <5>2 DEF DeviceClose
      <4>4. QED BY <3>3, <4>1, <4>2, <4>3 DEF DeviceClose
    <3>4. CASE BeginIOReject(c)
      BY <3>4 DEF BeginIOReject
    <3>5. CASE BeginIONoMemory(c)
      BY <3>5 DEF BeginIONoMemory
    <3>6. ASSUME NEW command \in Commands, BeginIO(c, command)
          PROVE  TypeOK'
      BY <3>6 DEF BeginIO
    <3>7. CASE ClearRequest(c)
      BY <3>7 DEF ClearRequest
    <3>8. CASE AbortQueued(c)
      <4>1. /\ io_queue' \in Seq(Clients)
            /\ sent' \subseteq Clients /\ abort_taken' \subseteq Clients
            /\ io_Error' \in [Clients -> IoErrors]
            /\ cmd' \in [Clients -> Commands]
        BY <3>8, RemoveQueuedTypes DEF AbortQueued
      <4>2. QED BY <3>8, <4>1 DEF AbortQueued
    <3>9. CASE AbortInProgress(c)
      BY <3>9 DEF AbortInProgress
    <3>10. QED BY <2>6, <3>1, <3>2, <3>3, <3>4, <3>5, <3>6, <3>7, <3>8, <3>9
               DEF ClientCall
  <2>7. QED BY <2>1, <2>2, <2>3, <2>4, <2>5, <2>6 DEF Next
<1>3. QED BY <1>1, <1>2, PTL DEF Spec

\* The worker lives and dies with the device as WorkerLife says.
THEOREM WorkerLifeCorrect == Spec => []WorkerLife
<1> USE DEF WorkerLife, Busy, PCs, Lives, Flag
<1>1. Init => WorkerLife
  BY DEF Init
<1>2. TypeOK /\ WorkerLife /\ [Next]_vars => WorkerLife'
  <2> SUFFICES ASSUME TypeOK, WorkerLife, [Next]_vars
               PROVE  WorkerLife'
    OBVIOUS
  <2> USE DEF TypeOK, libVars, queueVars, backendVars, procVars, workerVars,
              clientVars
  <2>1. CASE UNCHANGED vars
    BY <2>1 DEF vars
  <2>2. CASE DeviceInit
    BY <2>2 DEF DeviceInit
  <2>3. CASE InitReady
    BY <2>3 DEF InitReady
  <2>4. CASE InitTimeout
    BY <2>4 DEF InitTimeout
  <2>5. CASE InitAbandon
    BY <2>5 DEF InitAbandon
  <2>6. CASE RemDevice
    BY <2>6 DEF RemDevice, DeviceExpunge, BeginStop
  <2>7. CASE WorkerStart
    BY <2>7 DEF WorkerStart
  <2>8. CASE WorkerWake
    BY <2>8 DEF WorkerWake
  <2>9. CASE WorkerDequeue
    BY <2>9 DEF WorkerDequeue
  <2>10. CASE WorkerDrained
    BY <2>10 DEF WorkerDrained
  <2>11. CASE WorkerOpenBackend
    BY <2>11 DEF WorkerOpenBackend
  <2>12. CASE WorkerExchange
    BY <2>12 DEF WorkerExchange, ClosesBackend
  <2>13. CASE WorkerControl
    BY <2>13 DEF WorkerControl, ControlClosesBackend
  <2>14. CASE WorkerComplete
    BY <2>14 DEF WorkerComplete
  <2>15. CASE WorkerReply
    BY <2>15 DEF WorkerReply
  <2>16. CASE WorkerFreeSignal
    BY <2>16 DEF WorkerFreeSignal
  <2>17. CASE WorkerGone
    BY <2>17 DEF WorkerGone
  <2>18. ASSUME NEW t \in Tasks, ExpungeFinish(t) PROVE WorkerLife'
    BY <2>18 DEF ExpungeFinish
  <2>19. ASSUME NEW t \in Tasks, ExpungeTimeout(t) PROVE WorkerLife'
    BY <2>19 DEF ExpungeTimeout
  <2>20. ASSUME NEW c \in Clients, DeviceOpen(c) PROVE WorkerLife'
    BY <2>20 DEF DeviceOpen
  <2>21. ASSUME NEW c \in Clients, DeviceOpenBadUnit(c) PROVE WorkerLife'
    BY <2>21 DEF DeviceOpenBadUnit
  <2>22. ASSUME NEW c \in Clients, DeviceClose(c) PROVE WorkerLife'
    BY <2>22 DEF DeviceClose, RemoveQueued, DeviceExpunge, BeginStop
  <2>23. ASSUME NEW c \in Clients, BeginIOReject(c) PROVE WorkerLife'
    BY <2>23 DEF BeginIOReject
  <2>24. ASSUME NEW c \in Clients, BeginIONoMemory(c) PROVE WorkerLife'
    BY <2>24 DEF BeginIONoMemory
  <2>25. ASSUME NEW c \in Clients, ClearRequest(c) PROVE WorkerLife'
    BY <2>25 DEF ClearRequest
  <2>26. ASSUME NEW c \in Clients, AbortQueued(c) PROVE WorkerLife'
    BY <2>26 DEF AbortQueued, RemoveQueued
  <2>27. ASSUME NEW c \in Clients, AbortInProgress(c) PROVE WorkerLife'
    BY <2>27 DEF AbortInProgress
  <2>28. ASSUME NEW c \in Clients, NEW command \in Commands,
               BeginIO(c, command)
        PROVE  WorkerLife'
    BY <2>28 DEF BeginIO, CanSubmit
  <2>29. QED BY <2>1, <2>2, <2>3, <2>4, <2>5, <2>6, <2>7, <2>8, <2>9, <2>10,
      <2>11, <2>12, <2>13, <2>14, <2>15, <2>16, <2>17, <2>18, <2>19, <2>20,
      <2>21, <2>22, <2>23, <2>24, <2>25, <2>26, <2>27, <2>28 DEF Next, Load,
      Worker, Request, ClientCall
<1>3. QED BY <1>1, <1>2, TypeCorrect, PTL DEF Spec

\* The worker's published state follows its position: nothing is in progress
\* outside worker_pump, and no abort mark survives a completion.
THEOREM WorkerStateCorrect == Spec => []WorkerState
<1> USE DEF WorkerState, Busy, PCs
<1>1. Init => WorkerState
  BY DEF Init
<1>2. TypeOK /\ WorkerLife /\ WorkerState /\ [Next]_vars => WorkerState'
  <2> SUFFICES ASSUME TypeOK, WorkerLife, WorkerState, [Next]_vars
               PROVE  WorkerState'
    OBVIOUS
  <2> USE DEF TypeOK, libVars, queueVars, backendVars, procVars, workerVars,
              clientVars
  <2>1. CASE UNCHANGED vars
    BY <2>1 DEF vars
  <2>2. CASE DeviceInit
    BY <2>2 DEF DeviceInit, WorkerLife
  <2>3. CASE InitReady
    BY <2>3 DEF InitReady
  <2>4. CASE InitTimeout
    BY <2>4 DEF InitTimeout
  <2>5. CASE InitAbandon
    BY <2>5 DEF InitAbandon
  <2>6. CASE RemDevice
    BY <2>6 DEF RemDevice, DeviceExpunge, BeginStop
  <2>7. CASE WorkerStart
    BY <2>7 DEF WorkerStart
  <2>8. CASE WorkerWake
    BY <2>8 DEF WorkerWake
  <2>9. CASE WorkerDequeue
    BY <2>9 DEF WorkerDequeue
  <2>10. CASE WorkerDrained
    BY <2>10 DEF WorkerDrained
  <2>11. CASE WorkerOpenBackend
    BY <2>11 DEF WorkerOpenBackend
  <2>12. CASE WorkerExchange
    BY <2>12 DEF WorkerExchange, ClosesBackend
  <2>13. CASE WorkerControl
    BY <2>13 DEF WorkerControl, ControlClosesBackend
  <2>14. CASE WorkerComplete
    BY <2>14 DEF WorkerComplete
  <2>15. CASE WorkerReply
    BY <2>15 DEF WorkerReply
  <2>16. CASE WorkerFreeSignal
    BY <2>16 DEF WorkerFreeSignal
  <2>17. CASE WorkerGone
    BY <2>17 DEF WorkerGone
  <2>18. ASSUME NEW t \in Tasks, ExpungeFinish(t) PROVE WorkerState'
    BY <2>18 DEF ExpungeFinish
  <2>19. ASSUME NEW t \in Tasks, ExpungeTimeout(t) PROVE WorkerState'
    BY <2>19 DEF ExpungeTimeout
  <2>20. ASSUME NEW c \in Clients, DeviceOpen(c) PROVE WorkerState'
    BY <2>20 DEF DeviceOpen
  <2>21. ASSUME NEW c \in Clients, DeviceOpenBadUnit(c) PROVE WorkerState'
    BY <2>21 DEF DeviceOpenBadUnit
  <2>22. ASSUME NEW c \in Clients, DeviceClose(c) PROVE WorkerState'
    BY <2>22 DEF DeviceClose, RemoveQueued, DeviceExpunge, BeginStop
  <2>23. ASSUME NEW c \in Clients, BeginIOReject(c) PROVE WorkerState'
    BY <2>23 DEF BeginIOReject
  <2>24. ASSUME NEW c \in Clients, BeginIONoMemory(c) PROVE WorkerState'
    BY <2>24 DEF BeginIONoMemory
  <2>25. ASSUME NEW c \in Clients, ClearRequest(c) PROVE WorkerState'
    BY <2>25 DEF ClearRequest
  <2>26. ASSUME NEW c \in Clients, AbortQueued(c) PROVE WorkerState'
    BY <2>26 DEF AbortQueued, RemoveQueued
  <2>27. ASSUME NEW c \in Clients, AbortInProgress(c) PROVE WorkerState'
    BY <2>27 DEF AbortInProgress
  <2>28. ASSUME NEW c \in Clients, NEW command \in Commands,
               BeginIO(c, command)
        PROVE  WorkerState'
    BY <2>28 DEF BeginIO, CanSubmit
  <2>29. QED BY <2>1, <2>2, <2>3, <2>4, <2>5, <2>6, <2>7, <2>8, <2>9, <2>10,
      <2>11, <2>12, <2>13, <2>14, <2>15, <2>16, <2>17, <2>18, <2>19, <2>20,
      <2>21, <2>22, <2>23, <2>24, <2>25, <2>26, <2>27, <2>28 DEF Next, Load,
      Worker, Request, ClientCall
<1>3. QED BY <1>1, <1>2, TypeCorrect, WorkerLifeCorrect, PTL DEF Spec

\* No BeginIO() is left to a worker that sleeps and was not signalled.
THEOREM WakeupCorrect == Spec => []NoLostWakeup
<1> USE DEF NoLostWakeup, PCs, Lives, Flag
<1>1. Init => NoLostWakeup
  BY DEF Init
<1>2. TypeOK /\ WorkerLife /\ NoLostWakeup /\ [Next]_vars => NoLostWakeup'
  <2> SUFFICES ASSUME TypeOK, WorkerLife, NoLostWakeup, [Next]_vars
               PROVE  NoLostWakeup'
    OBVIOUS
  <2> USE DEF TypeOK, libVars, queueVars, backendVars, procVars, workerVars,
              clientVars
  <2>1. CASE UNCHANGED vars
    BY <2>1 DEF vars
  <2>2. CASE DeviceInit
    BY <2>2 DEF DeviceInit
  <2>3. CASE InitReady
    BY <2>3 DEF InitReady
  <2>4. CASE InitTimeout
    BY <2>4 DEF InitTimeout
  <2>5. CASE InitAbandon
    BY <2>5 DEF InitAbandon
  <2>6. CASE RemDevice
    BY <2>6 DEF RemDevice, DeviceExpunge, BeginStop
  <2>7. CASE WorkerStart
    BY <2>7 DEF WorkerStart, WorkerLife
  <2>8. CASE WorkerWake
    BY <2>8 DEF WorkerWake
  <2>9. CASE WorkerDequeue
    BY <2>9 DEF WorkerDequeue
  <2>10. CASE WorkerDrained
    BY <2>10 DEF WorkerDrained
  <2>11. CASE WorkerOpenBackend
    BY <2>11 DEF WorkerOpenBackend
  <2>12. CASE WorkerExchange
    BY <2>12 DEF WorkerExchange, ClosesBackend
  <2>13. CASE WorkerControl
    BY <2>13 DEF WorkerControl, ControlClosesBackend
  <2>14. CASE WorkerComplete
    BY <2>14 DEF WorkerComplete
  <2>15. CASE WorkerReply
    BY <2>15 DEF WorkerReply
  <2>16. CASE WorkerFreeSignal
    BY <2>16 DEF WorkerFreeSignal
  <2>17. CASE WorkerGone
    BY <2>17 DEF WorkerGone
  <2>18. ASSUME NEW t \in Tasks, ExpungeFinish(t) PROVE NoLostWakeup'
    BY <2>18 DEF ExpungeFinish
  <2>19. ASSUME NEW t \in Tasks, ExpungeTimeout(t) PROVE NoLostWakeup'
    BY <2>19 DEF ExpungeTimeout
  <2>20. ASSUME NEW c \in Clients, DeviceOpen(c) PROVE NoLostWakeup'
    BY <2>20 DEF DeviceOpen
  <2>21. ASSUME NEW c \in Clients, DeviceOpenBadUnit(c) PROVE NoLostWakeup'
    BY <2>21 DEF DeviceOpenBadUnit
  <2>22. ASSUME NEW c \in Clients, DeviceClose(c) PROVE NoLostWakeup'
    BY <2>22 DEF DeviceClose, RemoveQueued, DeviceExpunge, BeginStop
  <2>23. ASSUME NEW c \in Clients, BeginIOReject(c) PROVE NoLostWakeup'
    BY <2>23 DEF BeginIOReject
  <2>24. ASSUME NEW c \in Clients, BeginIONoMemory(c) PROVE NoLostWakeup'
    BY <2>24 DEF BeginIONoMemory
  <2>25. ASSUME NEW c \in Clients, ClearRequest(c) PROVE NoLostWakeup'
    BY <2>25 DEF ClearRequest
  <2>26. ASSUME NEW c \in Clients, AbortQueued(c) PROVE NoLostWakeup'
    BY <2>26 DEF AbortQueued, RemoveQueued
  <2>27. ASSUME NEW c \in Clients, AbortInProgress(c) PROVE NoLostWakeup'
    BY <2>27 DEF AbortInProgress
  <2>28. ASSUME NEW c \in Clients, NEW command \in Commands,
               BeginIO(c, command)
        PROVE  NoLostWakeup'
    BY <2>28 DEF BeginIO, CanSubmit, WorkerLife
  <2>29. QED BY <2>1, <2>2, <2>3, <2>4, <2>5, <2>6, <2>7, <2>8, <2>9, <2>10,
      <2>11, <2>12, <2>13, <2>14, <2>15, <2>16, <2>17, <2>18, <2>19, <2>20,
      <2>21, <2>22, <2>23, <2>24, <2>25, <2>26, <2>27, <2>28 DEF Next, Load,
      Worker, Request, ClientCall
<1>3. QED BY <1>1, <1>2, TypeCorrect, WorkerLifeCorrect, PTL DEF Spec

\* A transport fault or a change of settings never leaves its backend open.
THEOREM BackendCorrect == Spec => []BackendFresh
<1> USE DEF BackendFresh, PCs, Lives, Flag
<1>1. Init => BackendFresh
  BY DEF Init
<1>2. TypeOK /\ WorkerLife /\ BackendFresh /\ [Next]_vars => BackendFresh'
  <2> SUFFICES ASSUME TypeOK, WorkerLife, BackendFresh, [Next]_vars
               PROVE  BackendFresh'
    OBVIOUS
  <2> USE DEF TypeOK, libVars, queueVars, backendVars, procVars, workerVars,
              clientVars
  <2>1. CASE UNCHANGED vars
    BY <2>1 DEF vars
  <2>2. CASE DeviceInit
    BY <2>2 DEF DeviceInit
  <2>3. CASE InitReady
    BY <2>3 DEF InitReady
  <2>4. CASE InitTimeout
    BY <2>4 DEF InitTimeout
  <2>5. CASE InitAbandon
    BY <2>5 DEF InitAbandon
  <2>6. CASE RemDevice
    BY <2>6 DEF RemDevice, DeviceExpunge, BeginStop
  <2>7. CASE WorkerStart
    BY <2>7 DEF WorkerStart
  <2>8. CASE WorkerWake
    BY <2>8 DEF WorkerWake
  <2>9. CASE WorkerDequeue
    BY <2>9 DEF WorkerDequeue
  <2>10. CASE WorkerDrained
    BY <2>10 DEF WorkerDrained
  <2>11. CASE WorkerOpenBackend
    BY <2>11 DEF WorkerOpenBackend
  <2>12. CASE WorkerExchange
    BY <2>12 DEF WorkerExchange, ClosesBackend
  <2>13. CASE WorkerControl
    BY <2>13 DEF WorkerControl, ControlClosesBackend
  <2>14. CASE WorkerComplete
    BY <2>14 DEF WorkerComplete
  <2>15. CASE WorkerReply
    BY <2>15 DEF WorkerReply
  <2>16. CASE WorkerFreeSignal
    BY <2>16 DEF WorkerFreeSignal
  <2>17. CASE WorkerGone
    BY <2>17 DEF WorkerGone
  <2>18. ASSUME NEW t \in Tasks, ExpungeFinish(t) PROVE BackendFresh'
    BY <2>18 DEF ExpungeFinish, WorkerLife
  <2>19. ASSUME NEW t \in Tasks, ExpungeTimeout(t) PROVE BackendFresh'
    BY <2>19 DEF ExpungeTimeout
  <2>20. ASSUME NEW c \in Clients, DeviceOpen(c) PROVE BackendFresh'
    BY <2>20 DEF DeviceOpen
  <2>21. ASSUME NEW c \in Clients, DeviceOpenBadUnit(c) PROVE BackendFresh'
    BY <2>21 DEF DeviceOpenBadUnit
  <2>22. ASSUME NEW c \in Clients, DeviceClose(c) PROVE BackendFresh'
    BY <2>22 DEF DeviceClose, RemoveQueued, DeviceExpunge, BeginStop
  <2>23. ASSUME NEW c \in Clients, BeginIOReject(c) PROVE BackendFresh'
    BY <2>23 DEF BeginIOReject
  <2>24. ASSUME NEW c \in Clients, BeginIONoMemory(c) PROVE BackendFresh'
    BY <2>24 DEF BeginIONoMemory
  <2>25. ASSUME NEW c \in Clients, ClearRequest(c) PROVE BackendFresh'
    BY <2>25 DEF ClearRequest
  <2>26. ASSUME NEW c \in Clients, AbortQueued(c) PROVE BackendFresh'
    BY <2>26 DEF AbortQueued, RemoveQueued
  <2>27. ASSUME NEW c \in Clients, AbortInProgress(c) PROVE BackendFresh'
    BY <2>27 DEF AbortInProgress
  <2>28. ASSUME NEW c \in Clients, NEW command \in Commands,
               BeginIO(c, command)
        PROVE  BackendFresh'
    BY <2>28 DEF BeginIO, CanSubmit
  <2>29. QED BY <2>1, <2>2, <2>3, <2>4, <2>5, <2>6, <2>7, <2>8, <2>9, <2>10,
      <2>11, <2>12, <2>13, <2>14, <2>15, <2>16, <2>17, <2>18, <2>19, <2>20,
      <2>21, <2>22, <2>23, <2>24, <2>25, <2>26, <2>27, <2>28 DEF Next, Load,
      Worker, Request, ClientCall
<1>3. QED BY <1>1, <1>2, TypeCorrect, WorkerLifeCorrect, PTL DEF Spec

\* Answering a queued request takes its only node out and leaves every other
\* client where it was.
LEMMA RemoveQueuedHolder ==
  ASSUME TypeOK, ExactlyOneHolder, NEW c \in Clients, RemoveQueued(c),
         UNCHANGED <<pc, req>>
  PROVE  /\ ExactlyOneHolder'
         /\ ~Queued(c)'
         /\ \A d \in Clients \ {c} : Queued(d)' <=> Queued(d)
<1>1. PICK i \in 1 .. Len(io_queue) :
        io_queue[i] = c /\ io_queue' = Detach(io_queue, i)
  BY DEF RemoveQueued
<1>2. /\ io_queue \in Seq(Clients)
      /\ Len(io_queue') = Len(io_queue) - 1
      /\ \A j \in 1 .. Len(io_queue) - 1 :
           io_queue'[j] = IF j < i THEN io_queue[j] ELSE io_queue[j + 1]
  BY <1>1, DetachProperties DEF TypeOK
<1>3. Len(io_queue) \in Nat
  BY <1>2
<1>4. \A j, k \in 1 .. Len(io_queue) :
        io_queue[j] = io_queue[k] /\ io_queue[j] \in Clients => j = k
  BY DEF ExactlyOneHolder
<1>5. ~Queued(c)'
  BY <1>1, <1>2, <1>3, <1>4 DEF Queued
<1>6. ASSUME NEW d \in Clients \ {c} PROVE Queued(d)' <=> Queued(d)
  <2>1. ASSUME NEW j \in 1 .. Len(io_queue), io_queue[j] = d
        PROVE  Queued(d)'
    <3>1. j # i
      BY <1>1, <2>1
    <3>2. CASE j < i
      BY <1>2, <1>3, <2>1, <3>2 DEF Queued
    <3>3. CASE j > i
      <4>1. j - 1 \in 1 .. Len(io_queue')
            /\ io_queue'[j - 1] = io_queue[j]
        BY <1>1, <1>2, <1>3, <3>3
      <4>2. QED BY <2>1, <4>1 DEF Queued
    <3>4. QED BY <1>3, <3>1, <3>2, <3>3
  <2>2. Queued(d)' => Queued(d)
    BY <1>1, <1>2, <1>3 DEF Queued
  <2>3. QED BY <2>1, <2>2 DEF Queued
<1>7. \A d \in Clients : \A j, k \in 1 .. Len(io_queue') :
        io_queue'[j] = d /\ io_queue'[k] = d => j = k
  BY <1>1, <1>2, <1>3, <1>4
<1>8. ~(req = c /\ pc \in Busy \cup {"reply"})
  BY <1>1 DEF ExactlyOneHolder, Queued
<1>9. ASSUME NEW d \in Clients
      PROVE  /\ (d \in sent') <=> Held(d)'
             /\ Queued(d)' => ~(req' = d /\ pc' \in Busy \cup {"reply"})
  <2>1. CASE d = c
    BY <1>5, <1>8, <2>1 DEF RemoveQueued, Held
  <2>2. CASE d # c
    BY <1>6, <2>2 DEF RemoveQueued, Held, ExactlyOneHolder
  <2>3. QED BY <2>1, <2>2
<1>10. QED BY <1>5, <1>6, <1>7, <1>9 DEF ExactlyOneHolder

\* ... and the abort is reported to that client and to no other.
LEMMA RemoveQueuedBooks ==
  ASSUME TypeOK, ExactlyOneHolder, AbortBooks, NEW c \in Clients,
         RemoveQueued(c), UNCHANGED <<pc, req, in_progress_aborted>>
  PROVE  AbortBooks'
<1>1. ~Queued(c)' /\ \A d \in Clients \ {c} : Queued(d)' <=> Queued(d)
  BY RemoveQueuedHolder
<1>2. ~(req = c /\ pc \in Busy \cup {"reply"})
  BY DEF RemoveQueued, ExactlyOneHolder, Queued
<1>3. /\ io_Error' = [io_Error EXCEPT ![c] = "ABORTED"]
      /\ sent' = sent \ {c} /\ abort_taken' = abort_taken \cup {c}
  BY DEF RemoveQueued
<1>4. ASSUME NEW d \in Clients
      PROVE  /\ Queued(d)' => d \notin abort_taken'
             /\ req' = d /\ pc' \in Busy =>
                  (d \in abort_taken' <=> in_progress_aborted' = 1)
             /\ d \notin sent' \/ (req' = d /\ pc' = "reply") =>
                  (io_Error'[d] \in {"OK", "ABORTED"}
                     => (d \in abort_taken' <=> io_Error'[d] = "ABORTED"))
  <2>1. CASE d = c
    BY <1>1, <1>2, <1>3, <2>1 DEF TypeOK
  <2>2. CASE d # c
    <3>1. Queued(d)' => Queued(d)
      BY <1>1, <2>2
    <3>2. QED BY <1>3, <2>2, <3>1 DEF AbortBooks, TypeOK
  <2>3. QED BY <2>1, <2>2
<1>5. QED BY <1>4 DEF AbortBooks

\* The first opener closes nothing and the last one empties the set.
LEMMA OpenerCount ==
  ASSUME TypeOK
  PROVE  /\ IsFiniteSet(opened)
         /\ Cardinality(opened) \in Nat
         /\ Cardinality(opened) = 0 <=> opened = {}
         /\ \A c \in Clients \ opened :
              Cardinality(opened \cup {c}) = Cardinality(opened) + 1
         /\ \A c \in opened :
              Cardinality(opened \ {c}) = Cardinality(opened) - 1
<1>1. IsFiniteSet(opened)
  BY ConstantsAssumption, FS_Subset DEF TypeOK
<1>2. QED BY <1>1, FS_EmptySet, FS_CardinalityType, FS_AddElement,
             FS_RemoveElement

\* Exactly-once replies, for any set of clients and any interleaving of the
\* worker, AbortIO, CloseDevice and Expunge.
THEOREM HolderCorrect == Spec => []ExactlyOneHolder
<1> USE DEF ExactlyOneHolder, Held, Queued, Busy
<1>1. Init => ExactlyOneHolder
  BY DEF Init
<1>2. TypeOK /\ WorkerLife /\ ExactlyOneHolder /\ [Next]_vars => ExactlyOneHolder'
  <2> SUFFICES ASSUME TypeOK, WorkerLife, ExactlyOneHolder, [Next]_vars
               PROVE  ExactlyOneHolder'
    OBVIOUS
  <2> USE DEF TypeOK, libVars, queueVars, backendVars, procVars, workerVars,
              clientVars
  <2>1. CASE UNCHANGED vars
    BY <2>1 DEF vars
  <2>2. CASE DeviceInit
    BY <2>2 DEF DeviceInit, WorkerLife
  <2>3. CASE InitReady
    BY <2>3 DEF InitReady
  <2>4. CASE InitTimeout
    BY <2>4 DEF InitTimeout
  <2>5. CASE InitAbandon
    BY <2>5 DEF InitAbandon
  <2>6. CASE RemDevice
    BY <2>6 DEF RemDevice, DeviceExpunge, BeginStop
  <2>7. CASE WorkerStart
    BY <2>7 DEF WorkerStart
  <2>8. CASE WorkerWake
    BY <2>8 DEF WorkerWake
  <2>9. CASE WorkerDequeue
    <3>1. /\ io_queue \in Seq(Clients) /\ Len(io_queue) \in Nat \ {0}
          /\ Head(io_queue) = io_queue[1] /\ io_queue[1] \in Clients
          /\ Len(Tail(io_queue)) = Len(io_queue) - 1
          /\ \A j \in 1 .. Len(io_queue) - 1 :
               Tail(io_queue)[j] = io_queue[j + 1]
      BY <2>9 DEF WorkerDequeue
    <3>2. /\ req' = io_queue[1] /\ io_queue' = Tail(io_queue)
          /\ pc = "pump" /\ pc' = "dispatch" /\ sent' = sent
      BY <2>9, <3>1 DEF WorkerDequeue
    <3>3. \A d \in Clients : \A j, k \in 1 .. Len(io_queue') :
            io_queue'[j] = d /\ io_queue'[k] = d => j = k
      BY <3>1, <3>2
    <3>4. ASSUME NEW d \in Clients, d # io_queue[1]
          PROVE  Queued(d)' <=> Queued(d)
      <4>1. Queued(d)' => Queued(d)
        BY <3>1, <3>2
      <4>2. ASSUME NEW j \in 1 .. Len(io_queue), io_queue[j] = d
            PROVE  Queued(d)'
        <5>1. /\ j - 1 \in 1 .. Len(io_queue) - 1
              /\ io_queue'[j - 1] = d
          BY <3>1, <3>2, <3>4, <4>2
        <5>2. QED BY <3>1, <3>2, <5>1
      <4>3. QED BY <4>1, <4>2
    <3>5. ASSUME NEW d \in Clients, d = io_queue[1] PROVE ~Queued(d)'
      BY <3>1, <3>2, <3>5
    <3>6. QED BY <3>1, <3>2, <3>3, <3>4, <3>5
  <2>10. CASE WorkerDrained
    BY <2>10 DEF WorkerDrained
  <2>11. CASE WorkerOpenBackend
    BY <2>11 DEF WorkerOpenBackend
  <2>12. CASE WorkerExchange
    BY <2>12 DEF WorkerExchange, ClosesBackend
  <2>13. CASE WorkerControl
    BY <2>13 DEF WorkerControl, ControlClosesBackend
  <2>14. CASE WorkerComplete
    BY <2>14 DEF WorkerComplete
  <2>15. CASE WorkerReply
    BY <2>15 DEF WorkerReply
  <2>16. CASE WorkerFreeSignal
    BY <2>16 DEF WorkerFreeSignal
  <2>17. CASE WorkerGone
    BY <2>17 DEF WorkerGone
  <2>18. ASSUME NEW t \in Tasks, ExpungeFinish(t) PROVE ExactlyOneHolder'
    BY <2>18 DEF ExpungeFinish
  <2>19. ASSUME NEW t \in Tasks, ExpungeTimeout(t) PROVE ExactlyOneHolder'
    BY <2>19 DEF ExpungeTimeout
  <2>20. ASSUME NEW c \in Clients, DeviceOpen(c) PROVE ExactlyOneHolder'
    BY <2>20 DEF DeviceOpen
  <2>21. ASSUME NEW c \in Clients, DeviceOpenBadUnit(c) PROVE ExactlyOneHolder'
    BY <2>21 DEF DeviceOpenBadUnit
  <2>22. ASSUME NEW c \in Clients, DeviceClose(c) PROVE ExactlyOneHolder'
    <3>1. CASE RemoveQueued(c)
      BY <2>22, <3>1, RemoveQueuedHolder DEF DeviceClose
    <3>2. CASE UNCHANGED <<io_queue, sent, io_Error, abort_taken, cmd>>
      BY <2>22, <3>2 DEF DeviceClose
    <3>3. QED BY <2>22, <3>1, <3>2 DEF DeviceClose
  <2>23. ASSUME NEW c \in Clients, BeginIOReject(c) PROVE ExactlyOneHolder'
    BY <2>23 DEF BeginIOReject
  <2>24. ASSUME NEW c \in Clients, BeginIONoMemory(c) PROVE ExactlyOneHolder'
    BY <2>24 DEF BeginIONoMemory
  <2>25. ASSUME NEW c \in Clients, ClearRequest(c) PROVE ExactlyOneHolder'
    BY <2>25 DEF ClearRequest
  <2>26. ASSUME NEW c \in Clients, AbortQueued(c) PROVE ExactlyOneHolder'
    BY <2>26, RemoveQueuedHolder DEF AbortQueued
  <2>27. ASSUME NEW c \in Clients, AbortInProgress(c) PROVE ExactlyOneHolder'
    BY <2>27 DEF AbortInProgress
  <2>28. ASSUME NEW c \in Clients, NEW command \in Commands,
               BeginIO(c, command)
        PROVE  ExactlyOneHolder'
    BY <2>28 DEF BeginIO, CanSubmit
  <2>29. QED BY <2>1, <2>2, <2>3, <2>4, <2>5, <2>6, <2>7, <2>8, <2>9, <2>10,
      <2>11, <2>12, <2>13, <2>14, <2>15, <2>16, <2>17, <2>18, <2>19, <2>20,
      <2>21, <2>22, <2>23, <2>24, <2>25, <2>26, <2>27, <2>28 DEF Next, Load,
      Worker, Request, ClientCall
<1>3. QED BY <1>1, <1>2, TypeCorrect, WorkerLifeCorrect, PTL DEF Spec

\* An accepted abort is neither lost nor passed on to another request.
THEOREM AbortBooksCorrect == Spec => []AbortBooks
<1> USE DEF AbortBooks, ExactlyOneHolder, Held, Queued, Busy
<1>1. Init => AbortBooks
  BY DEF Init
<1>2. TypeOK /\ WorkerLife /\ WorkerState /\ ExactlyOneHolder /\ AbortBooks
      /\ [Next]_vars => AbortBooks'
  <2> SUFFICES ASSUME TypeOK, WorkerLife, WorkerState, ExactlyOneHolder,
                      AbortBooks, [Next]_vars
               PROVE  AbortBooks'
    OBVIOUS
  <2> USE DEF TypeOK, libVars, queueVars, backendVars, procVars, workerVars,
              clientVars
  <2>1. CASE UNCHANGED vars
    BY <2>1 DEF vars
  <2>2. CASE DeviceInit
    BY <2>2 DEF DeviceInit, WorkerLife
  <2>3. CASE InitReady
    BY <2>3 DEF InitReady
  <2>4. CASE InitTimeout
    BY <2>4 DEF InitTimeout
  <2>5. CASE InitAbandon
    BY <2>5 DEF InitAbandon
  <2>6. CASE RemDevice
    BY <2>6 DEF RemDevice, DeviceExpunge, BeginStop
  <2>7. CASE WorkerStart
    BY <2>7 DEF WorkerStart
  <2>8. CASE WorkerWake
    BY <2>8 DEF WorkerWake
  <2>9. CASE WorkerDequeue
    BY <2>9 DEF WorkerDequeue
  <2>10. CASE WorkerDrained
    BY <2>10 DEF WorkerDrained
  <2>11. CASE WorkerOpenBackend
    BY <2>11 DEF WorkerOpenBackend
  <2>12. CASE WorkerExchange
    BY <2>12 DEF WorkerExchange, ClosesBackend
  <2>13. CASE WorkerControl
    BY <2>13 DEF WorkerControl, ControlClosesBackend
  <2>14. CASE WorkerComplete
    BY <2>14 DEF WorkerComplete
  <2>15. CASE WorkerReply
    BY <2>15 DEF WorkerReply
  <2>16. CASE WorkerFreeSignal
    BY <2>16 DEF WorkerFreeSignal
  <2>17. CASE WorkerGone
    BY <2>17 DEF WorkerGone
  <2>18. ASSUME NEW t \in Tasks, ExpungeFinish(t) PROVE AbortBooks'
    BY <2>18 DEF ExpungeFinish
  <2>19. ASSUME NEW t \in Tasks, ExpungeTimeout(t) PROVE AbortBooks'
    BY <2>19 DEF ExpungeTimeout
  <2>20. ASSUME NEW c \in Clients, DeviceOpen(c) PROVE AbortBooks'
    BY <2>20 DEF DeviceOpen
  <2>21. ASSUME NEW c \in Clients, DeviceOpenBadUnit(c) PROVE AbortBooks'
    BY <2>21 DEF DeviceOpenBadUnit
  <2>22. ASSUME NEW c \in Clients, DeviceClose(c) PROVE AbortBooks'
    <3>1. CASE RemoveQueued(c)
      BY <2>22, <3>1, RemoveQueuedBooks DEF DeviceClose
    <3>2. CASE UNCHANGED <<io_queue, sent, io_Error, abort_taken, cmd>>
      BY <2>22, <3>2 DEF DeviceClose
    <3>3. QED BY <2>22, <3>1, <3>2 DEF DeviceClose
  <2>23. ASSUME NEW c \in Clients, BeginIOReject(c) PROVE AbortBooks'
    BY <2>23 DEF BeginIOReject
  <2>24. ASSUME NEW c \in Clients, BeginIONoMemory(c) PROVE AbortBooks'
    BY <2>24 DEF BeginIONoMemory
  <2>25. ASSUME NEW c \in Clients, ClearRequest(c) PROVE AbortBooks'
    BY <2>25 DEF ClearRequest
  <2>26. ASSUME NEW c \in Clients, AbortQueued(c) PROVE AbortBooks'
    BY <2>26, RemoveQueuedBooks DEF AbortQueued
  <2>27. ASSUME NEW c \in Clients, AbortInProgress(c) PROVE AbortBooks'
    BY <2>27 DEF AbortInProgress, WorkerState
  <2>28. ASSUME NEW c \in Clients, NEW command \in Commands,
               BeginIO(c, command)
        PROVE  AbortBooks'
    BY <2>28 DEF BeginIO, CanSubmit
  <2>29. QED BY <2>1, <2>2, <2>3, <2>4, <2>5, <2>6, <2>7, <2>8, <2>9, <2>10,
      <2>11, <2>12, <2>13, <2>14, <2>15, <2>16, <2>17, <2>18, <2>19, <2>20,
      <2>21, <2>22, <2>23, <2>24, <2>25, <2>26, <2>27, <2>28 DEF Next, Load,
      Worker, Request, ClientCall
<1>3. QED
  BY <1>1, <1>2, TypeCorrect, WorkerLifeCorrect, WorkerStateCorrect,
     HolderCorrect, PTL
     DEF Spec

\* OpenCnt is exact, a queued request has its opener, and who is there while
\* an expunge waits came late.
THEOREM ExpungeBooksCorrect == Spec => []ExpungeBooks
<1> USE DEF ExpungeBooks, Idle, Queued
<1>1. Init => ExpungeBooks
  BY FS_EmptySet DEF Init
<1>2. TypeOK /\ ExactlyOneHolder /\ ExpungeBooks /\ [Next]_vars
      => ExpungeBooks'
  <2> SUFFICES ASSUME TypeOK, ExactlyOneHolder, ExpungeBooks, [Next]_vars
               PROVE  ExpungeBooks'
    OBVIOUS
  <2> USE DEF TypeOK, libVars, queueVars, backendVars, procVars, workerVars,
              clientVars
  <2>1. CASE UNCHANGED vars
    BY <2>1 DEF vars
  <2>2. CASE DeviceInit
    BY <2>2 DEF DeviceInit
  <2>3. CASE InitReady
    BY <2>3 DEF InitReady
  <2>4. CASE InitTimeout
    BY <2>4 DEF InitTimeout
  <2>5. CASE InitAbandon
    BY <2>5 DEF InitAbandon
  <2>6. CASE RemDevice
    BY <2>6, OpenerCount DEF RemDevice, DeviceExpunge, BeginStop
  <2>7. CASE WorkerStart
    BY <2>7 DEF WorkerStart
  <2>8. CASE WorkerWake
    BY <2>8 DEF WorkerWake
  <2>9. CASE WorkerDequeue
    BY <2>9 DEF WorkerDequeue
  <2>10. CASE WorkerDrained
    BY <2>10 DEF WorkerDrained
  <2>11. CASE WorkerOpenBackend
    BY <2>11 DEF WorkerOpenBackend
  <2>12. CASE WorkerExchange
    BY <2>12 DEF WorkerExchange, ClosesBackend
  <2>13. CASE WorkerControl
    BY <2>13 DEF WorkerControl, ControlClosesBackend
  <2>14. CASE WorkerComplete
    BY <2>14 DEF WorkerComplete
  <2>15. CASE WorkerReply
    BY <2>15 DEF WorkerReply
  <2>16. CASE WorkerFreeSignal
    BY <2>16 DEF WorkerFreeSignal
  <2>17. CASE WorkerGone
    BY <2>17 DEF WorkerGone
  <2>18. ASSUME NEW t \in Tasks, ExpungeFinish(t) PROVE ExpungeBooks'
    BY <2>18 DEF ExpungeFinish
  <2>19. ASSUME NEW t \in Tasks, ExpungeTimeout(t) PROVE ExpungeBooks'
    BY <2>19 DEF ExpungeTimeout
  <2>20. ASSUME NEW c \in Clients, DeviceOpen(c) PROVE ExpungeBooks'
    <3>1. lib_OpenCnt' = Cardinality(opened')
      BY <2>20, OpenerCount DEF DeviceOpen
    <3>2. QED BY <2>20, <3>1 DEF DeviceOpen, ExecCallAllowed
  <2>21. ASSUME NEW c \in Clients, DeviceOpenBadUnit(c) PROVE ExpungeBooks'
    BY <2>21 DEF DeviceOpenBadUnit
  <2>22. ASSUME NEW c \in Clients, DeviceClose(c) PROVE ExpungeBooks'
    <3>1. lib_OpenCnt' = Cardinality(opened')
      BY <2>22, OpenerCount DEF DeviceClose
    <3>2. \A d \in Clients : Queued(d)' => d \in opened'
      <4>1. CASE RemoveQueued(c)
        <5>1. /\ ~Queued(c)'
              /\ \A d \in Clients \ {c} : Queued(d)' <=> Queued(d)
          BY <2>22, <4>1, RemoveQueuedHolder DEF DeviceClose
        <5>2. QED BY <2>22, <5>1 DEF DeviceClose
      <4>2. CASE ~Queued(c) /\ UNCHANGED io_queue
        BY <2>22, <4>2 DEF DeviceClose
      <4>3. QED BY <2>22, <4>1, <4>2 DEF DeviceClose
    <3>3. expunging' # {} => opened' \subseteq late'
      <4>1. CASE BeginStop(c) /\ Idle(lib_OpenCnt', io_queue')
        <5>1. opened' = {}
          <6>1. Cardinality(opened \ {c}) = 0 /\ IsFiniteSet(opened \ {c})
            BY <2>22, <3>1, <4>1, OpenerCount, FS_RemoveElement DEF DeviceClose
          <6>2. QED BY <2>22, <6>1, FS_EmptySet DEF DeviceClose
        <5>2. QED BY <5>1
      <4>2. CASE expunging' = expunging
        BY <2>22, <4>2 DEF DeviceClose
      <4>3. QED BY <2>22, <4>1, <4>2 DEF DeviceClose, DeviceExpunge
    <3>4. life' = "resident"
      BY <2>22 DEF DeviceClose
    <3>5. QED BY <3>1, <3>2, <3>3, <3>4
  <2>23. ASSUME NEW c \in Clients, BeginIOReject(c) PROVE ExpungeBooks'
    BY <2>23 DEF BeginIOReject
  <2>24. ASSUME NEW c \in Clients, BeginIONoMemory(c) PROVE ExpungeBooks'
    BY <2>24 DEF BeginIONoMemory
  <2>25. ASSUME NEW c \in Clients, ClearRequest(c) PROVE ExpungeBooks'
    BY <2>25 DEF ClearRequest
  <2>26. ASSUME NEW c \in Clients, AbortQueued(c) PROVE ExpungeBooks'
    <3>1. \A d \in Clients : Queued(d)' => Queued(d)
      BY <2>26, RemoveQueuedHolder DEF AbortQueued
    <3>2. QED BY <2>26, <3>1 DEF AbortQueued
  <2>27. ASSUME NEW c \in Clients, AbortInProgress(c) PROVE ExpungeBooks'
    BY <2>27 DEF AbortInProgress
  <2>28. ASSUME NEW c \in Clients, NEW command \in Commands,
               BeginIO(c, command)
        PROVE  ExpungeBooks'
    BY <2>28 DEF BeginIO, CanSubmit
  <2>29. QED BY <2>1, <2>2, <2>3, <2>4, <2>5, <2>6, <2>7, <2>8, <2>9, <2>10,
      <2>11, <2>12, <2>13, <2>14, <2>15, <2>16, <2>17, <2>18, <2>19, <2>20,
      <2>21, <2>22, <2>23, <2>24, <2>25, <2>26, <2>27, <2>28 DEF Next, Load,
      Worker, Request, ClientCall
<1>3. QED BY <1>1, <1>2, TypeCorrect, HolderCorrect, PTL DEF Spec

-----------------------------------------------------------------------------
\* A client reads "aborted" exactly when an abort of its request took effect.
THEOREM AbortReported == Spec => []AbortIsReported
<1>1. AbortBooks => AbortIsReported
  BY DEF AbortBooks, AbortIsReported
<1>2. QED BY <1>1, AbortBooksCorrect, PTL

\* Every exchange runs over a backend opened since the last transport fault
\* and the last change of settings.
THEOREM ExchangeFresh == Spec => []ExchangeOnFreshBackend
<1>1. BackendFresh => ExchangeOnFreshBackend
  BY DEF BackendFresh, ExchangeOnFreshBackend
<1>2. QED BY <1>1, BackendCorrect, PTL

\* Expunge never frees the base under the worker, even when Exec callers run
\* during its Delay().
THEOREM WorkerOutlived == Spec => []WorkerOutlivedByBase
<1>1. WorkerLife => WorkerOutlivedByBase
  BY DEF WorkerLife, WorkerOutlivedByBase
<1>2. QED BY <1>1, WorkerLifeCorrect, PTL

\* Whoever is still there when the base is freed opened it during the Delay()
\* of an expunge; every request accepted before the idle test was answered.
THEOREM OnlyLatecomers == Spec => []OnlyLatecomersStranded
<1>1. /\ TypeOK /\ WorkerLife /\ ExactlyOneHolder /\ ExpungeBooks
      => OnlyLatecomersStranded
  <2> SUFFICES ASSUME TypeOK, WorkerLife, ExactlyOneHolder, ExpungeBooks,
                      life = "freed"
               PROVE  opened \cup sent \subseteq late
    BY DEF OnlyLatecomersStranded
  <2>1. opened \subseteq late
    BY DEF ExpungeBooks
  <2>2. pc = "gone"
    BY DEF WorkerLife, TypeOK
  <2>3. \A c \in sent : Queued(c)
    BY <2>2 DEF ExactlyOneHolder, Held, Busy, TypeOK
  <2>4. QED BY <2>1, <2>3 DEF ExpungeBooks, TypeOK
<1>2. QED BY <1>1, TypeCorrect, WorkerLifeCorrect, HolderCorrect,
             ExpungeBooksCorrect, PTL

-----------------------------------------------------------------------------
(* The broker as FifoBroker: the line of requests.                         *)

\* What the worker holds, then the queue; who asked for an abort; what each
\* client reads.
Holding == pc \in Busy \cup {"reply"}
Line    == (IF Holding THEN <<req>> ELSE <<>>) \o io_queue
Asked   == {c \in Clients : c \in sent /\ c \in abort_taken}
Outcome == [c \in Clients |-> IF c \in sent THEN "pending" ELSE io_Error[c]]

\* A request put before a queue.
LEMMA Preceded ==
  ASSUME NEW S, NEW q \in Seq(S), NEW r \in S
  PROVE  /\ <<>> \o q = q
         /\ <<r>> \o q \in Seq(S)
         /\ Len(<<r>> \o q) = Len(q) + 1
         /\ (<<r>> \o q)[1] = r
         /\ \A i \in 1 .. Len(q) : (<<r>> \o q)[i + 1] = q[i]
         /\ \A i \in 2 .. Len(q) + 1 : (<<r>> \o q)[i] = q[i - 1]
         /\ <<r>> \o q # <<>> /\ Head(<<r>> \o q) = r
         /\ Tail(<<r>> \o q) = q
         /\ \A x \in S : Append(<<r>> \o q, x) = <<r>> \o Append(q, x)
<1>1. /\ <<r>> \o q \in Seq(S) /\ Len(<<r>> \o q) = Len(q) + 1 /\ Len(q) \in Nat
      /\ (<<r>> \o q)[1] = r
      /\ \A i \in 1 .. Len(q) : (<<r>> \o q)[i + 1] = q[i]
  OBVIOUS
<1>2. <<>> \o q = q
  OBVIOUS
<1>3. \A i \in 2 .. Len(q) + 1 : (<<r>> \o q)[i] = q[i - 1]
  <2>1. ASSUME NEW i \in 2 .. Len(q) + 1 PROVE (<<r>> \o q)[i] = q[i - 1]
    <3>1. i - 1 \in 1 .. Len(q) /\ i = (i - 1) + 1
      BY <1>1
    <3>2. QED BY <1>1, <3>1
  <2>2. QED BY <2>1
<1>4. <<r>> \o q # <<>> /\ Head(<<r>> \o q) = r
  BY <1>1
<1>5. Tail(<<r>> \o q) = q
  <2> DEFINE s == <<r>> \o q
  <2>1. /\ Tail(s) \in Seq(S) /\ Len(Tail(s)) = Len(q)
        /\ \A i \in 1 .. Len(q) : Tail(s)[i] = s[i + 1]
    BY <1>1
  <2>2. QED BY <1>1, <2>1
<1>6. ASSUME NEW x \in S PROVE Append(<<r>> \o q, x) = <<r>> \o Append(q, x)
  OBVIOUS
<1>7. QED BY <1>1, <1>2, <1>3, <1>4, <1>5, <1>6

\* The line of the broker.
LEMMA LineShape ==
  ASSUME TypeOK
  PROVE  /\ Line \in Seq(Clients) /\ Len(io_queue) \in Nat
         /\ ~Holding => Line = io_queue
         /\ Holding =>
              /\ req \in Clients /\ Line = <<req>> \o io_queue
              /\ Len(Line) = Len(io_queue) + 1 /\ Line[1] = req
              /\ \A i \in 1 .. Len(io_queue) : Line[i + 1] = io_queue[i]
              /\ \A i \in 2 .. Len(Line) : Line[i] = io_queue[i - 1]
              /\ Line # <<>> /\ Head(Line) = req /\ Tail(Line) = io_queue
<1>1. io_queue \in Seq(Clients) /\ (Holding => req \in Clients)
  BY DEF TypeOK, Holding
<1>2. CASE ~Holding
  BY <1>1, <1>2, Preceded DEF Line
<1>3. CASE Holding
  <2>1. Line = <<req>> \o io_queue
    BY <1>3 DEF Line
  <2>2. QED BY <1>1, <1>3, <2>1, Preceded, SMTT(30)
<1>4. QED BY <1>2, <1>3

\* Who waits in the line is whose request the broker has.
LEMMA WaitingIsSent ==
  ASSUME TypeOK, ExactlyOneHolder, NEW c \in Clients
  PROVE  (\E i \in 1 .. Len(Line) : Line[i] = c) <=> c \in sent
<1>1. c \in sent <=> Queued(c) \/ (req = c /\ Holding)
  BY DEF ExactlyOneHolder, Held, Holding
<1>2. CASE ~Holding
  BY <1>1, <1>2, LineShape DEF Queued
<1>3. CASE Holding
  <2>1. Queued(c) => \E i \in 1 .. Len(Line) : Line[i] = c
    BY <1>3, LineShape DEF Queued
  <2>2. req = c => \E i \in 1 .. Len(Line) : Line[i] = c
    BY <1>3, LineShape
  <2>3. ASSUME NEW i \in 1 .. Len(Line), Line[i] = c PROVE Queued(c) \/ req = c
    <3>1. CASE i = 1
      BY <1>3, <2>3, <3>1, LineShape
    <3>2. CASE i # 1
      <4>1. i \in 2 .. Len(Line) /\ i - 1 \in 1 .. Len(io_queue)
        BY <1>3, <3>2, LineShape
      <4>2. QED BY <1>3, <2>3, <4>1, LineShape DEF Queued
    <3>3. QED BY <3>1, <3>2
  <2>4. QED BY <1>1, <1>3, <2>1, <2>2, <2>3
<1>4. QED BY <1>2, <1>3

\* The mapped actions, in the broker's own terms.
LEMMA BrokerTerms ==
  /\ Broker!Serve <=>
       /\ Line # <<>>
       /\ Outcome' = [Outcome EXCEPT ![Head(Line)] =
                         IF Head(Line) \in Asked THEN "ABORTED" ELSE "OK"]
       /\ Asked' = Asked \ {Head(Line)}
       /\ Line' = Tail(Line)
  /\ \A c \in Clients :
       /\ Broker!Accept(c) <=>
            /\ ~\E i \in 1 .. Len(Line) : Line[i] = c
            /\ Line' = Append(Line, c)
            /\ Outcome' = [Outcome EXCEPT ![c] = "pending"]
            /\ Asked' = Asked
       /\ Broker!TurnAway(c) <=>
            /\ ~\E i \in 1 .. Len(Line) : Line[i] = c
            /\ \E answer \in {"OK", "FAILED"} :
                 Outcome' = [Outcome EXCEPT ![c] = answer]
            /\ Line' = Line /\ Asked' = Asked
       /\ Broker!AskAbort(c) <=>
            /\ \E i \in 1 .. Len(Line) : Line[i] = c
            /\ Asked' = Asked \cup {c}
            /\ Line' = Line /\ Outcome' = Outcome
       /\ Broker!Withdraw(c) <=>
            \E i \in 1 .. Len(Line) :
              /\ Line[i] = c
              /\ Line' = Detach(Line, i)
              /\ Outcome' = [Outcome EXCEPT ![c] = "ABORTED"]
              /\ Asked' = Asked \ {c}
  /\ UNCHANGED Broker!brokerVars <=>
       Line' = Line /\ Outcome' = Outcome /\ Asked' = Asked
<1> USE DEF Line, Outcome, Asked, Holding, Detach, Broker!Waiting
<1>1. Broker!Serve <=>
       /\ Line # <<>>
       /\ Outcome' = [Outcome EXCEPT ![Head(Line)] =
                         IF Head(Line) \in Asked THEN "ABORTED" ELSE "OK"]
       /\ Asked' = Asked \ {Head(Line)}
       /\ Line' = Tail(Line)
  BY DEF Broker!Serve
<1>2. ASSUME NEW c \in Clients
      PROVE  /\ Broker!Accept(c) <=>
                  /\ ~\E i \in 1 .. Len(Line) : Line[i] = c
                  /\ Line' = Append(Line, c)
                  /\ Outcome' = [Outcome EXCEPT ![c] = "pending"]
                  /\ Asked' = Asked
             /\ Broker!TurnAway(c) <=>
                  /\ ~\E i \in 1 .. Len(Line) : Line[i] = c
                  /\ \E answer \in {"OK", "FAILED"} :
                       Outcome' = [Outcome EXCEPT ![c] = answer]
                  /\ Line' = Line /\ Asked' = Asked
  BY DEF Broker!Accept, Broker!TurnAway
<1>3. ASSUME NEW c \in Clients
      PROVE  Broker!AskAbort(c) <=>
               /\ \E i \in 1 .. Len(Line) : Line[i] = c
               /\ Asked' = Asked \cup {c}
               /\ Line' = Line /\ Outcome' = Outcome
  BY DEF Broker!AskAbort
<1>4. ASSUME NEW c \in Clients
      PROVE  Broker!Withdraw(c) <=>
               \E i \in 1 .. Len(Line) :
                 /\ Line[i] = c
                 /\ Line' = Detach(Line, i)
                 /\ Outcome' = [Outcome EXCEPT ![c] = "ABORTED"]
                 /\ Asked' = Asked \ {c}
  BY DEF Broker!Withdraw
<1>5. UNCHANGED Broker!brokerVars <=>
       Line' = Line /\ Outcome' = Outcome /\ Asked' = Asked
  BY DEF Broker!brokerVars
<1>6. QED BY <1>1, <1>2, <1>3, <1>4, <1>5

\* Taking a queued request out withdraws it from the line.
LEMMA RemovalWithdraws ==
  ASSUME TypeOK, ExactlyOneHolder, NEW c \in Clients, RemoveQueued(c),
         UNCHANGED <<pc, req>>
  PROVE  Broker!Withdraw(c)
<1>1. PICK i \in 1 .. Len(io_queue) :
        io_queue[i] = c /\ io_queue' = Detach(io_queue, i)
  BY DEF RemoveQueued
<1>2. /\ sent' = sent \ {c} /\ io_Error' = [io_Error EXCEPT ![c] = "ABORTED"]
      /\ abort_taken' = abort_taken \cup {c} /\ c \in sent
  BY DEF RemoveQueued, ExactlyOneHolder, Held, Queued
<1>3. Outcome' = [Outcome EXCEPT ![c] = "ABORTED"]
  BY <1>2 DEF Outcome, TypeOK
<1>4. Asked' = Asked \ {c}
  BY <1>2 DEF Asked
<1>5. \E k \in 1 .. Len(Line) : Line[k] = c /\ Line' = Detach(Line, k)
  <2>0. /\ io_queue \in Seq(Clients) /\ io_queue' \in Seq(Clients)
        /\ Len(io_queue') = Len(io_queue) - 1 /\ Len(io_queue) \in Nat
        /\ \A j \in 1 .. Len(io_queue) - 1 :
             io_queue'[j] = IF j < i THEN io_queue[j] ELSE io_queue[j + 1]
    <3>1. io_queue \in Seq(Clients) /\ Len(io_queue) \in Nat
      BY DEF TypeOK
    <3>2. /\ Detach(io_queue, i) \in Seq(Clients)
          /\ Len(Detach(io_queue, i)) = Len(io_queue) - 1
          /\ \A j \in 1 .. Len(io_queue) - 1 : Detach(io_queue, i)[j] =
               IF j < i THEN io_queue[j] ELSE io_queue[j + 1]
      BY <3>1, DetachProperties
    <3>3. QED BY <1>1, <3>1, <3>2
  <2>1. CASE ~Holding
    <3>1. Line = io_queue /\ Line' = io_queue'
      BY <2>0, <2>1, Preceded, LineShape DEF Line, Holding
    <3>2. QED BY <1>1, <3>1
  <2>2. CASE Holding
    <3>1. /\ Line = <<req>> \o io_queue /\ req \in Clients
          /\ Line \in Seq(Clients) /\ Len(Line) = Len(io_queue) + 1
          /\ Line[1] = req
          /\ \A j \in 1 .. Len(io_queue) : Line[j + 1] = io_queue[j]
          /\ \A j \in 2 .. Len(Line) : Line[j] = io_queue[j - 1]
      BY <2>2, LineShape
    <3>2. Line' = <<req>> \o io_queue'
      BY <2>2 DEF Line, Holding
    <3>3. /\ Line' \in Seq(Clients) /\ Len(Line') = Len(io_queue)
          /\ Line'[1] = req
          /\ \A j \in 2 .. Len(io_queue) : Line'[j] = io_queue'[j - 1]
      <4> DEFINE q == io_queue'
      <4>1. /\ <<req>> \o q \in Seq(Clients) /\ Len(<<req>> \o q) = Len(q) + 1
            /\ (<<req>> \o q)[1] = req
            /\ \A j \in 2 .. Len(q) + 1 : (<<req>> \o q)[j] = q[j - 1]
        <5>1. q \in Seq(Clients) /\ req \in Clients
          BY <2>0, <3>1
        <5> HIDE DEF q
        <5>2. QED BY <5>1, Preceded
      <4>2. Len(q) + 1 = Len(io_queue)
        BY <2>0
      <4>3. QED BY <3>2, <4>1, <4>2
    <3>4. i + 1 \in 1 .. Len(Line) /\ Line[i + 1] = c
      BY <1>1, <2>0, <3>1
    <3>5. /\ Detach(Line, i + 1) \in Seq(Clients)
          /\ Len(Detach(Line, i + 1)) = Len(io_queue)
          /\ \A j \in 1 .. Len(io_queue) : Detach(Line, i + 1)[j] =
               IF j < i + 1 THEN Line[j] ELSE Line[j + 1]
      <4>1. /\ Detach(Line, i + 1) \in Seq(Clients)
            /\ Len(Detach(Line, i + 1)) = Len(Line) - 1
            /\ \A j \in 1 .. Len(Line) - 1 : Detach(Line, i + 1)[j] =
                 IF j < i + 1 THEN Line[j] ELSE Line[j + 1]
        BY <3>1, <3>4, DetachProperties
      <4>2. Len(Line) - 1 = Len(io_queue)
        BY <2>0, <3>1
      <4>3. QED BY <4>1, <4>2
    <3>6. ASSUME NEW j \in 1 .. Len(io_queue)
          PROVE  Line'[j] = Detach(Line, i + 1)[j]
      <4>1. CASE j = 1
        BY <1>1, <2>0, <3>1, <3>3, <3>5, <4>1
      <4>2. CASE j # 1 /\ j < i + 1
        <5>1. j - 1 \in 1 .. Len(io_queue) - 1 /\ j - 1 < i /\ j \in 2 .. Len(io_queue)
          BY <1>1, <2>0, <4>2
        <5>2. Line'[j] = io_queue[j - 1]
          BY <2>0, <3>3, <5>1
        <5>3. Line[j] = io_queue[j - 1]
          BY <2>0, <3>1, <5>1
        <5>4. QED BY <3>5, <4>2, <5>2, <5>3
      <4>3. CASE ~(j < i + 1)
        <5>1. /\ j - 1 \in 1 .. Len(io_queue) - 1 /\ ~(j - 1 < i)
              /\ j \in 2 .. Len(io_queue) /\ (j - 1) + 1 = j
          BY <1>1, <2>0, <4>3
        <5>2. Line'[j] = io_queue[j]
          BY <2>0, <3>3, <5>1
        <5>3. Line[j + 1] = io_queue[j]
          BY <3>1
        <5>4. QED BY <3>5, <4>3, <5>2, <5>3
      <4>4. QED BY <4>1, <4>2, <4>3
    <3>7. Line' = Detach(Line, i + 1)
      BY <2>0, <3>3, <3>5, <3>6
    <3>8. QED BY <3>4, <3>7
  <2>3. QED BY <2>1, <2>2
<1>6. QED BY <1>3, <1>4, <1>5, BrokerTerms

\* What the worker is about to reply with.
ReplyBooks == pc = "reply" => io_Error[req] \in {"OK", "ABORTED"}

\* A completed request carries an outcome of its own until ReplyMsg(): the
\* client cannot have it refused meanwhile.
THEOREM ReplyBooksCorrect == Spec => []ReplyBooks
<1>1. Init => ReplyBooks
  BY DEF Init, ReplyBooks
<1>2. TypeOK /\ ExactlyOneHolder /\ ReplyBooks /\ [Next]_vars => ReplyBooks'
  <2> SUFFICES ASSUME TypeOK, ExactlyOneHolder, ReplyBooks, [Next]_vars
               PROVE  ReplyBooks'
    OBVIOUS
  <2> USE DEF libVars, queueVars, backendVars, procVars, workerVars, clientVars
  <2>1. CASE UNCHANGED vars
    BY <2>1 DEF vars, ReplyBooks
  <2>2. CASE DeviceInit
    BY <2>2 DEF DeviceInit, ReplyBooks
  <2>3. CASE InitReady
    BY <2>3 DEF InitReady, ReplyBooks
  <2>4. CASE InitTimeout
    BY <2>4 DEF InitTimeout, ReplyBooks
  <2>5. CASE InitAbandon
    BY <2>5 DEF InitAbandon, ReplyBooks
  <2>6. CASE RemDevice
    BY <2>6 DEF RemDevice, DeviceExpunge, BeginStop, ReplyBooks
  <2>7. CASE WorkerStart
    BY <2>7 DEF WorkerStart, ReplyBooks
  <2>8. CASE WorkerWake
    BY <2>8 DEF WorkerWake, ReplyBooks
  <2>9. CASE WorkerDequeue
    BY <2>9 DEF WorkerDequeue, ReplyBooks
  <2>10. CASE WorkerDrained
    BY <2>10 DEF WorkerDrained, ReplyBooks
  <2>11. CASE WorkerOpenBackend
    BY <2>11 DEF WorkerOpenBackend, ReplyBooks
  <2>12. CASE WorkerExchange
    BY <2>12 DEF WorkerExchange, ClosesBackend, ReplyBooks
  <2>13. CASE WorkerControl
    BY <2>13 DEF WorkerControl, ControlClosesBackend, ReplyBooks
  <2>14. CASE WorkerComplete
    BY <2>14 DEF WorkerComplete, ReplyBooks, TypeOK, Busy
  <2>15. CASE WorkerReply
    BY <2>15 DEF WorkerReply, ReplyBooks
  <2>16. CASE WorkerFreeSignal
    BY <2>16 DEF WorkerFreeSignal, ReplyBooks
  <2>17. CASE WorkerGone
    BY <2>17 DEF WorkerGone, ReplyBooks
  <2>18. ASSUME NEW t \in Tasks, ExpungeFinish(t)
         PROVE  ReplyBooks'
    BY <2>18 DEF ExpungeFinish, ReplyBooks
  <2>19. ASSUME NEW t \in Tasks, ExpungeTimeout(t)
         PROVE  ReplyBooks'
    BY <2>19 DEF ExpungeTimeout, ReplyBooks
  <2>20. ASSUME NEW c \in Clients, DeviceOpen(c)
         PROVE  ReplyBooks'
    BY <2>20 DEF DeviceOpen, ReplyBooks, ExactlyOneHolder, Held, TypeOK, Busy
  <2>21. ASSUME NEW c \in Clients, DeviceOpenBadUnit(c)
         PROVE  ReplyBooks'
    BY <2>21 DEF DeviceOpenBadUnit, ReplyBooks, ExactlyOneHolder, Held,
        TypeOK, Busy
  <2>22. ASSUME NEW c \in Clients, DeviceClose(c)
         PROVE  ReplyBooks'
    BY <2>22 DEF DeviceClose, RemoveQueued, ReplyBooks, TypeOK, Busy
  <2>23. ASSUME NEW c \in Clients, BeginIOReject(c)
         PROVE  ReplyBooks'
    BY <2>23 DEF BeginIOReject, CanSubmit, ReplyBooks, ExactlyOneHolder,
        Held, TypeOK, Busy
  <2>24. ASSUME NEW c \in Clients, BeginIONoMemory(c)
         PROVE  ReplyBooks'
    BY <2>24 DEF BeginIONoMemory, CanSubmit, ReplyBooks, ExactlyOneHolder,
        Held, TypeOK, Busy
  <2>25. ASSUME NEW c \in Clients, ClearRequest(c)
         PROVE  ReplyBooks'
    BY <2>25 DEF ClearRequest, ReplyBooks
  <2>26. ASSUME NEW c \in Clients, AbortQueued(c)
         PROVE  ReplyBooks'
    BY <2>26 DEF AbortQueued, RemoveQueued, ReplyBooks, TypeOK, Busy
  <2>27. ASSUME NEW c \in Clients, AbortInProgress(c)
         PROVE  ReplyBooks'
    BY <2>27 DEF AbortInProgress, ReplyBooks
  <2>28. ASSUME NEW c \in Clients, NEW command \in Commands,
                BeginIO(c, command)
         PROVE  ReplyBooks'
    BY <2>28 DEF BeginIO, CanSubmit, ReplyBooks
  <2>29. QED BY <2>1, <2>2, <2>3, <2>4, <2>5, <2>6, <2>7, <2>8, <2>9, <2>10,
      <2>11, <2>12, <2>13, <2>14, <2>15, <2>16, <2>17, <2>18, <2>19, <2>20,
      <2>21, <2>22, <2>23, <2>24, <2>25, <2>26, <2>27, <2>28 DEF Next, Load,
      Worker, Request, ClientCall
<1>3. QED BY <1>1, <1>2, TypeCorrect, HolderCorrect, PTL DEF Spec

\* ServesInOrder: the broker implements FifoBroker.  Requests are answered in
\* the order BeginIO() accepted them, out of turn only when AbortIO() or
\* CloseDevice() withdraws one, and an accepted abort shows in the answer.
THEOREM InOrder == Spec => ServesInOrder
<1>1. Init => Broker!Init
  <2>1. ASSUME Init PROVE Line = <<>> /\ Asked = {} /\ Outcome = [c \in Clients |-> "OK"]
    BY <2>1 DEF Init, Line, Asked, Outcome, Holding, Busy
  <2>2. QED BY <2>1 DEF Broker!Init, Line, Asked, Outcome, Holding
<1>2. /\ TypeOK /\ WorkerLife /\ WorkerState /\ ExactlyOneHolder /\ AbortBooks
      /\ ReplyBooks /\ [Next]_vars
      => [Broker!Next]_(Broker!brokerVars)
  <2> DEFINE Step == \/ Broker!Serve
                     \/ \E c \in Clients :
                          \/ Broker!Accept(c) \/ Broker!TurnAway(c)
                          \/ Broker!AskAbort(c) \/ Broker!Withdraw(c)
                     \/ Line' = Line /\ Outcome' = Outcome /\ Asked' = Asked
  <2> SUFFICES ASSUME TypeOK, WorkerLife, WorkerState, ExactlyOneHolder,
                      AbortBooks, ReplyBooks, [Next]_vars
               PROVE  Step
    BY BrokerTerms DEF Broker!Next
  <2>0. ASSUME UNCHANGED <<req, io_queue, sent, abort_taken, io_Error>>,
               UNCHANGED pc \/ (Holding' <=> Holding)
        PROVE  Line' = Line /\ Outcome' = Outcome /\ Asked' = Asked
    BY <2>0 DEF Line, Asked, Outcome, Holding
  <2> USE DEF libVars, queueVars, backendVars, procVars, workerVars, clientVars
  <2>1. CASE UNCHANGED vars
    <3>1. UNCHANGED <<pc, req, io_queue, sent, abort_taken, io_Error>>
      BY <2>1 DEF vars
    <3>2. QED BY <3>1, <2>0
  <2>2. CASE DeviceInit
    <3>1. UNCHANGED <<req, io_queue, sent, abort_taken, io_Error>>
      BY <2>2 DEF DeviceInit
    <3>2. Holding' <=> Holding
      BY <2>2 DEF DeviceInit, Holding, Busy, WorkerLife
    <3>3. QED BY <3>1, <3>2, <2>0
  <2>3. CASE InitReady
    <3>1. UNCHANGED <<pc, req, io_queue, sent, abort_taken, io_Error>>
      BY <2>3 DEF InitReady
    <3>2. QED BY <3>1, <2>0
  <2>4. CASE InitTimeout
    <3>1. UNCHANGED <<pc, req, io_queue, sent, abort_taken, io_Error>>
      BY <2>4 DEF InitTimeout
    <3>2. QED BY <3>1, <2>0
  <2>5. CASE InitAbandon
    <3>1. UNCHANGED <<pc, req, io_queue, sent, abort_taken, io_Error>>
      BY <2>5 DEF InitAbandon
    <3>2. QED BY <3>1, <2>0
  <2>6. CASE RemDevice
    <3>1. UNCHANGED <<pc, req, io_queue, sent, abort_taken, io_Error>>
      BY <2>6 DEF RemDevice, DeviceExpunge, BeginStop
    <3>2. QED BY <3>1, <2>0
  <2>7. CASE WorkerStart
    <3>1. UNCHANGED <<req, io_queue, sent, abort_taken, io_Error>>
      BY <2>7 DEF WorkerStart
    <3>2. Holding' <=> Holding
      BY <2>7 DEF WorkerStart, Holding, Busy, WorkerLife
    <3>3. QED BY <3>1, <3>2, <2>0
  <2>8. CASE WorkerWake
    <3>1. UNCHANGED <<req, io_queue, sent, abort_taken, io_Error>>
      BY <2>8 DEF WorkerWake
    <3>2. Holding' <=> Holding
      BY <2>8 DEF WorkerWake, Holding, Busy, WorkerLife
    <3>3. QED BY <3>1, <3>2, <2>0
  <2>9. CASE WorkerDequeue
    <3>1. /\ ~Holding /\ Holding' /\ req' = Head(io_queue) /\ io_queue # <<>>
          /\ io_queue' = Tail(io_queue) /\ io_queue \in Seq(Clients)
          /\ UNCHANGED <<sent, abort_taken, io_Error>>
      BY <2>9 DEF WorkerDequeue, Holding, Busy, TypeOK
    <3>2. <<Head(io_queue)>> \o Tail(io_queue) = io_queue
      BY <3>1
    <3>3. Line' = io_queue /\ Line = io_queue
      BY <3>1, <3>2, LineShape DEF Line
    <3>4. QED BY <3>1, <3>3 DEF Asked, Outcome
  <2>10. CASE WorkerDrained
    <3>1. UNCHANGED <<req, io_queue, sent, abort_taken, io_Error>>
      BY <2>10 DEF WorkerDrained
    <3>2. Holding' <=> Holding
      BY <2>10 DEF WorkerDrained, Holding, Busy, WorkerLife
    <3>3. QED BY <3>1, <3>2, <2>0
  <2>11. CASE WorkerOpenBackend
    <3>1. UNCHANGED <<req, io_queue, sent, abort_taken, io_Error>>
      BY <2>11 DEF WorkerOpenBackend
    <3>2. Holding' <=> Holding
      BY <2>11 DEF WorkerOpenBackend, Holding, Busy, WorkerLife
    <3>3. QED BY <3>1, <3>2, <2>0
  <2>12. CASE WorkerExchange
    <3>1. UNCHANGED <<req, io_queue, sent, abort_taken, io_Error>>
      BY <2>12 DEF WorkerExchange, ClosesBackend
    <3>2. Holding' <=> Holding
      BY <2>12 DEF WorkerExchange, ClosesBackend, Holding, Busy, WorkerLife
    <3>3. QED BY <3>1, <3>2, <2>0
  <2>13. CASE WorkerControl
    <3>1. UNCHANGED <<req, io_queue, sent, abort_taken, io_Error>>
      BY <2>13 DEF WorkerControl, ControlClosesBackend
    <3>2. Holding' <=> Holding
      BY <2>13 DEF WorkerControl, ControlClosesBackend, Holding, Busy,
          WorkerLife
    <3>3. QED BY <3>1, <3>2, <2>0
  <2>14. CASE WorkerComplete
    <3>1. /\ Holding /\ Holding' /\ UNCHANGED <<req, io_queue, sent, abort_taken>>
          /\ req \in sent /\ \A d \in Clients \ {req} : io_Error'[d] = io_Error[d]
      BY <2>14 DEF WorkerComplete, Holding, Busy, TypeOK, ExactlyOneHolder,
          Held
    <3>2. Line' = Line /\ Asked' = Asked
      BY <3>1 DEF Line, Asked
    <3>3. Outcome' = Outcome
      BY <3>1 DEF Outcome
    <3>4. QED BY <3>2, <3>3
  <2>15. CASE WorkerReply
    <3>1. /\ Holding /\ ~Holding' /\ UNCHANGED <<io_queue, abort_taken, io_Error>>
          /\ req \in sent /\ req \in Clients /\ sent' = sent \ {req}
          /\ pc = "reply" /\ io_queue \in Seq(Clients)
      BY <2>15 DEF WorkerReply, Holding, Busy, TypeOK, ExactlyOneHolder, Held
    <3>2. Line # <<>> /\ Head(Line) = req /\ Tail(Line) = io_queue
      BY <3>1, LineShape
    <3>3. Line' = io_queue
      BY <3>1, Preceded DEF Line
    <3>4. Asked' = Asked \ {req}
      BY <3>1 DEF Asked
    <3>5. io_Error[req] = IF req \in Asked THEN "ABORTED" ELSE "OK"
      BY <3>1 DEF Asked, AbortBooks, ReplyBooks
    <3>6. Outcome' = [Outcome EXCEPT ![req] = io_Error[req]]
      BY <3>1 DEF Outcome
    <3>7. Broker!Serve
      BY <3>2, <3>3, <3>4, <3>5, <3>6, BrokerTerms
    <3>8. QED BY <3>7
  <2>16. CASE WorkerFreeSignal
    <3>1. UNCHANGED <<req, io_queue, sent, abort_taken, io_Error>>
      BY <2>16 DEF WorkerFreeSignal
    <3>2. Holding' <=> Holding
      BY <2>16 DEF WorkerFreeSignal, Holding, Busy, WorkerLife
    <3>3. QED BY <3>1, <3>2, <2>0
  <2>17. CASE WorkerGone
    <3>1. UNCHANGED <<req, io_queue, sent, abort_taken, io_Error>>
      BY <2>17 DEF WorkerGone
    <3>2. Holding' <=> Holding
      BY <2>17 DEF WorkerGone, Holding, Busy, WorkerLife
    <3>3. QED BY <3>1, <3>2, <2>0
  <2>18. ASSUME NEW t \in Tasks, ExpungeFinish(t)
         PROVE  Step
    <3>1. UNCHANGED <<pc, req, io_queue, sent, abort_taken, io_Error>>
      BY <2>18 DEF ExpungeFinish
    <3>2. QED BY <3>1, <2>0
  <2>19. ASSUME NEW t \in Tasks, ExpungeTimeout(t)
         PROVE  Step
    <3>1. UNCHANGED <<pc, req, io_queue, sent, abort_taken, io_Error>>
      BY <2>19 DEF ExpungeTimeout
    <3>2. QED BY <3>1, <2>0
  <2>20. ASSUME NEW c \in Clients, DeviceOpen(c)
         PROVE  Step
    <3>1. /\ c \notin sent /\ io_Error' = [io_Error EXCEPT ![c] = "OK"]
          /\ UNCHANGED <<pc, req, io_queue, sent>>
          /\ \A d \in Clients : d \in sent => (d \in abort_taken' <=> d \in abort_taken)
      BY <2>20 DEF DeviceOpen
    <3>2. Line' = Line /\ Asked' = Asked
      BY <3>1 DEF Line, Asked, Holding
    <3>3. Outcome' = [Outcome EXCEPT ![c] = "OK"]
      BY <3>1 DEF Outcome, TypeOK
    <3>4. Broker!TurnAway(c)
      BY <3>1, <3>2, <3>3, WaitingIsSent, BrokerTerms
    <3>5. QED BY <3>4
  <2>21. ASSUME NEW c \in Clients, DeviceOpenBadUnit(c)
         PROVE  Step
    <3>1. /\ c \notin sent /\ io_Error' = [io_Error EXCEPT ![c] = "FAILED"]
          /\ UNCHANGED <<pc, req, io_queue, sent>>
          /\ \A d \in Clients : d \in sent => (d \in abort_taken' <=> d \in abort_taken)
      BY <2>21 DEF DeviceOpenBadUnit
    <3>2. Line' = Line /\ Asked' = Asked
      BY <3>1 DEF Line, Asked, Holding
    <3>3. Outcome' = [Outcome EXCEPT ![c] = "FAILED"]
      BY <3>1 DEF Outcome, TypeOK
    <3>4. Broker!TurnAway(c)
      BY <3>1, <3>2, <3>3, WaitingIsSent, BrokerTerms
    <3>5. QED BY <3>4
  <2>22. ASSUME NEW c \in Clients, DeviceClose(c)
         PROVE  Step
    <3>1. UNCHANGED <<pc, req>>
      BY <2>22 DEF DeviceClose
    <3>2. CASE RemoveQueued(c)
      BY <3>1, <3>2, RemovalWithdraws
    <3>3. CASE UNCHANGED <<io_queue, sent, io_Error, abort_taken, cmd>>
      BY <3>1, <3>3, <2>0
    <3>4. QED BY <2>22, <3>2, <3>3 DEF DeviceClose
  <2>23. ASSUME NEW c \in Clients, BeginIOReject(c)
         PROVE  Step
    <3>1. /\ c \notin sent /\ io_Error' = [io_Error EXCEPT ![c] = "FAILED"]
          /\ UNCHANGED <<pc, req, io_queue, sent>>
          /\ \A d \in Clients : d \in sent => (d \in abort_taken' <=> d \in abort_taken)
      BY <2>23 DEF BeginIOReject, CanSubmit
    <3>2. Line' = Line /\ Asked' = Asked
      BY <3>1 DEF Line, Asked, Holding
    <3>3. Outcome' = [Outcome EXCEPT ![c] = "FAILED"]
      BY <3>1 DEF Outcome, TypeOK
    <3>4. Broker!TurnAway(c)
      BY <3>1, <3>2, <3>3, WaitingIsSent, BrokerTerms
    <3>5. QED BY <3>4
  <2>24. ASSUME NEW c \in Clients, BeginIONoMemory(c)
         PROVE  Step
    <3>1. /\ c \notin sent /\ io_Error' = [io_Error EXCEPT ![c] = "FAILED"]
          /\ UNCHANGED <<pc, req, io_queue, sent>>
          /\ \A d \in Clients : d \in sent => (d \in abort_taken' <=> d \in abort_taken)
      BY <2>24 DEF BeginIONoMemory, CanSubmit
    <3>2. Line' = Line /\ Asked' = Asked
      BY <3>1 DEF Line, Asked, Holding
    <3>3. Outcome' = [Outcome EXCEPT ![c] = "FAILED"]
      BY <3>1 DEF Outcome, TypeOK
    <3>4. Broker!TurnAway(c)
      BY <3>1, <3>2, <3>3, WaitingIsSent, BrokerTerms
    <3>5. QED BY <3>4
  <2>25. ASSUME NEW c \in Clients, ClearRequest(c)
         PROVE  Step
    <3>1. UNCHANGED <<pc, req, io_queue, sent, abort_taken, io_Error>>
      BY <2>25 DEF ClearRequest
    <3>2. QED BY <3>1, <2>0
  <2>26. ASSUME NEW c \in Clients, AbortQueued(c)
         PROVE  Step
    <3>1. RemoveQueued(c) /\ UNCHANGED <<pc, req>>
      BY <2>26 DEF AbortQueued
    <3>2. QED BY <3>1, RemovalWithdraws
  <2>27. ASSUME NEW c \in Clients, AbortInProgress(c)
         PROVE  Step
    <3>1. /\ pc \in Busy /\ req = c /\ abort_taken' = abort_taken \cup {c}
          /\ UNCHANGED <<pc, req, io_queue, sent, io_Error>>
      BY <2>27, ConstantsAssumption DEF AbortInProgress, WorkerState
    <3>2. c \in sent
      BY <3>1 DEF ExactlyOneHolder, Held
    <3>3. Line' = Line /\ Outcome' = Outcome
      BY <3>1 DEF Line, Outcome, Holding
    <3>4. Asked' = Asked \cup {c}
      BY <3>1, <3>2 DEF Asked
    <3>5. Broker!AskAbort(c)
      BY <3>2, <3>3, <3>4, WaitingIsSent, BrokerTerms
    <3>6. QED BY <3>5
  <2>28. ASSUME NEW c \in Clients, NEW command \in Commands,
                BeginIO(c, command)
         PROVE  Step
    <3>1. /\ c \notin sent /\ sent' = sent \cup {c}
          /\ abort_taken' = abort_taken \ {c} /\ io_queue' = Append(io_queue, c)
          /\ io_queue \in Seq(Clients) /\ UNCHANGED <<pc, req, io_Error>>
      BY <2>28 DEF BeginIO, CanSubmit, TypeOK
    <3>2. Line' = Append(Line, c)
      <4>1. CASE ~Holding
        BY <3>1, <4>1, Preceded DEF Line, Holding
      <4>2. CASE Holding
        <5>1. req \in Clients /\ Line = <<req>> \o io_queue
          BY <4>2, LineShape
        <5>2. Line' = <<req>> \o Append(io_queue, c)
          BY <3>1, <4>2 DEF Line, Holding
        <5>3. Append(<<req>> \o io_queue, c) = <<req>> \o Append(io_queue, c)
          BY <3>1, <5>1
        <5>4. QED BY <5>1, <5>2, <5>3
      <4>3. QED BY <4>1, <4>2
    <3>3. Asked' = Asked
      BY <3>1 DEF Asked
    <3>4. Outcome' = [Outcome EXCEPT ![c] = "pending"]
      BY <3>1 DEF Outcome
    <3>5. Broker!Accept(c)
      BY <3>1, <3>2, <3>3, <3>4, WaitingIsSent, BrokerTerms
    <3>6. QED BY <3>5
  <2>29. QED BY <2>1, <2>2, <2>3, <2>4, <2>5, <2>6, <2>7, <2>8, <2>9, <2>10,
      <2>11, <2>12, <2>13, <2>14, <2>15, <2>16, <2>17, <2>18, <2>19, <2>20,
      <2>21, <2>22, <2>23, <2>24, <2>25, <2>26, <2>27, <2>28 DEF Next, Load,
      Worker, Request, ClientCall
<1>3. QED
  BY <1>1, <1>2, TypeCorrect, WorkerLifeCorrect, WorkerStateCorrect,
     HolderCorrect, AbortBooksCorrect, ReplyBooksCorrect, PTL
     DEF Spec, ServesInOrder, Broker!Spec
=============================================================================
