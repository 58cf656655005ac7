----------------------- MODULE DirectoryBackendProofs -----------------------
(***************************************************************************)
(* Proofs about the guarded directory backend: for any number of packets   *)
(* and challenges, no request is sent while an earlier one may take        *)
(* effect.                                                                 *)
(***************************************************************************)
EXTENDS DirectoryBackend, TLAPS

\* Every reachable state is well typed, and a recovery has its challenge.
THEOREM DirTypeCorrect == Spec => []TypeOK
<1> USE DEF Flag, PCs, Recovering
<1>1. Init => TypeOK
  BY DEF Init, TypeOK
<1>2. TypeOK /\ [Next]_vars => TypeOK'
  <2> SUFFICES ASSUME TypeOK, [Next]_vars
               PROVE  TypeOK'
    OBVIOUS
  <2> USE DEF callVars, guardVars, sessionVars, controlVars, packetVars,
              hostVars, historyVars, TypeOK
  <2>1. CASE UNCHANGED vars
    BY <2>1 DEF vars
  <2>2. CASE BackendOpen
    BY <2>2 DEF BackendOpen, Goto
  <2>3. CASE QuiesceBegin
    BY <2>3 DEF QuiesceBegin
  <2>4. CASE QuiescePermit
    BY <2>4 DEF QuiescePermit, Goto, MayDiscard
  <2>5. CASE QuiesceDiscardAck
    BY <2>5 DEF QuiesceDiscardAck, Goto, MayDiscard
  <2>6. CASE QuiesceBarrier
    <3>1. BARRIER' \subseteq Nat
      BY <2>6 DEF QuiesceBarrier
    <3>2. pc' \in PCs \ {"idle"} /\ UNCHANGED token /\ next' \in Nat
      BY <2>6 DEF QuiesceBarrier, Goto
    <3>3. QED BY <2>6, <3>1, <3>2 DEF QuiesceBarrier, Goto
  <2>7. CASE QuiesceAck
    BY <2>7 DEF QuiesceAck, Goto
  <2>8. CASE QuiesceChallenge
    BY <2>8 DEF QuiesceChallenge
  <2>9. CASE QuiesceForget
    BY <2>9 DEF QuiesceForget
  <2>10. CASE OpenFailed
    BY <2>10 DEF OpenFailed, Goto, MayDiscard
  <2>11. CASE BackendExchange
    BY <2>11 DEF BackendExchange, Goto
  <2>12. CASE TransferCheck
    BY <2>12 DEF TransferCheck, Goto
  <2>13. CASE TransferRetirePermit
    BY <2>13 DEF TransferRetirePermit, Goto, MayDiscard
  <2>14. CASE TransferMark
    BY <2>14 DEF TransferMark, Goto
  <2>15. CASE TransferSend
    BY <2>15 DEF TransferSend, Goto
  <2>16. CASE TransferUnmark
    BY <2>16 DEF TransferUnmark, Goto
  <2>17. CASE TransferReceive
    BY <2>17 DEF TransferReceive
  <2>18. CASE TransferGiveUp
    BY <2>18 DEF TransferGiveUp, Goto, MayDiscard
  <2>19. CASE GuardValidate
    BY <2>19 DEF GuardValidate, Goto
  <2>20. CASE ExchangeComplete
    BY <2>20 DEF ExchangeComplete, Goto
  <2>21. CASE BackendClose
    BY <2>21 DEF BackendClose, MayDiscard
  <2>22. CASE GuestRestart
    BY <2>22 DEF GuestRestart
  <2>23. CASE HostStart
    BY <2>23 DEF HostStart
  <2>24. CASE HostCrash
    BY <2>24 DEF HostCrash
  <2>25. CASE HostTake
    BY <2>25 DEF HostTake
  <2>26. CASE HostReply
    BY <2>26 DEF HostReply
  <2>27. CASE HostRelease
    BY <2>27 DEF HostRelease
  <2>28. CASE HostBarrier
    BY <2>28 DEF HostBarrier
  <2>29. CASE HostRotate
    BY <2>29 DEF HostRotate
  <2>30. CASE HostAck
    BY <2>30 DEF HostAck
  <2>31. CASE OperatorConsents
    BY <2>31 DEF OperatorConsents
  <2>32. QED BY <2>1, <2>2, <2>3, <2>4, <2>5, <2>6, <2>7, <2>8, <2>9, <2>10,
      <2>11, <2>12, <2>13, <2>14, <2>15, <2>16, <2>17, <2>18, <2>19, <2>20,
      <2>21, <2>22, <2>23, <2>24, <2>25, <2>26, <2>27, <2>28, <2>29, <2>30,
      <2>31 DEF Next, Guest, Quiesce, Transfer, Host
<1>3. QED BY <1>1, <1>2, PTL DEF Spec

\* Quarantine covers whatever AMBIGUOUS records, except while a validated
\* reply is being tidied up after.
THEOREM DirGuardBooks == Spec => []GuardBooks
<1> USE DEF Flag, PCs
<1>1. Init => GuardBooks
  BY DEF Init, TypeOK, GuardBooks
<1>2. TypeOK /\ GuardBooks /\ [Next]_vars => GuardBooks'
  <2> SUFFICES ASSUME TypeOK, GuardBooks, [Next]_vars
               PROVE  GuardBooks'
    OBVIOUS
  <2> USE DEF callVars, guardVars, sessionVars, controlVars, packetVars,
              hostVars, historyVars, TypeOK, GuardBooks
  <2>1. CASE UNCHANGED vars
    BY <2>1 DEF vars
  <2>2. CASE BackendOpen
    BY <2>2 DEF BackendOpen, Goto
  <2>3. CASE QuiesceBegin
    BY <2>3 DEF QuiesceBegin
  <2>4. CASE QuiescePermit
    BY <2>4 DEF QuiescePermit, Goto, MayDiscard
  <2>5. CASE QuiesceDiscardAck
    BY <2>5 DEF QuiesceDiscardAck, Goto, MayDiscard
  <2>6. CASE QuiesceBarrier
    BY <2>6 DEF QuiesceBarrier, Goto
  <2>7. CASE QuiesceAck
    BY <2>7 DEF QuiesceAck, Goto
  <2>8. CASE QuiesceChallenge
    BY <2>8 DEF QuiesceChallenge
  <2>9. CASE QuiesceForget
    BY <2>9 DEF QuiesceForget
  <2>10. CASE OpenFailed
    BY <2>10 DEF OpenFailed, Goto, MayDiscard
  <2>11. CASE BackendExchange
    BY <2>11 DEF BackendExchange, Goto
  <2>12. CASE TransferCheck
    BY <2>12 DEF TransferCheck, Goto
  <2>13. CASE TransferRetirePermit
    BY <2>13 DEF TransferRetirePermit, Goto, MayDiscard
  <2>14. CASE TransferMark
    BY <2>14 DEF TransferMark, Goto
  <2>15. CASE TransferSend
    BY <2>15 DEF TransferSend, Goto
  <2>16. CASE TransferUnmark
    BY <2>16 DEF TransferUnmark, Goto
  <2>17. CASE TransferReceive
    BY <2>17 DEF TransferReceive
  <2>18. CASE TransferGiveUp
    BY <2>18 DEF TransferGiveUp, Goto, MayDiscard
  <2>19. CASE GuardValidate
    BY <2>19 DEF GuardValidate, Goto
  <2>20. CASE ExchangeComplete
    BY <2>20 DEF ExchangeComplete, Goto
  <2>21. CASE BackendClose
    BY <2>21 DEF BackendClose, MayDiscard
  <2>22. CASE GuestRestart
    BY <2>22 DEF GuestRestart
  <2>23. CASE HostStart
    BY <2>23 DEF HostStart
  <2>24. CASE HostCrash
    BY <2>24 DEF HostCrash
  <2>25. CASE HostTake
    BY <2>25 DEF HostTake
  <2>26. CASE HostReply
    BY <2>26 DEF HostReply
  <2>27. CASE HostRelease
    BY <2>27 DEF HostRelease
  <2>28. CASE HostBarrier
    BY <2>28 DEF HostBarrier
  <2>29. CASE HostRotate
    BY <2>29 DEF HostRotate
  <2>30. CASE HostAck
    BY <2>30 DEF HostAck
  <2>31. CASE OperatorConsents
    BY <2>31 DEF OperatorConsents
  <2>32. QED BY <2>1, <2>2, <2>3, <2>4, <2>5, <2>6, <2>7, <2>8, <2>9, <2>10,
      <2>11, <2>12, <2>13, <2>14, <2>15, <2>16, <2>17, <2>18, <2>19, <2>20,
      <2>21, <2>22, <2>23, <2>24, <2>25, <2>26, <2>27, <2>28, <2>29, <2>30,
      <2>31 DEF Next, Guest, Quiesce, Transfer, Host
<1>3. QED BY <1>1, <1>2, DirTypeCorrect, PTL DEF Spec

\* A RECOVER file is always one the operator wrote after the last packet.
THEOREM DirConsentBooks == Spec => []ConsentBooks
<1> USE DEF Flag, PCs, Recovering
<1>1. Init => ConsentBooks
  BY DEF Init, TypeOK, ConsentBooks
<1>2. TypeOK /\ ConsentBooks /\ [Next]_vars => ConsentBooks'
  <2> SUFFICES ASSUME TypeOK, ConsentBooks, [Next]_vars
               PROVE  ConsentBooks'
    OBVIOUS
  <2> USE DEF callVars, guardVars, sessionVars, controlVars, packetVars,
              hostVars, historyVars, TypeOK, ConsentBooks
  <2>1. CASE UNCHANGED vars
    BY <2>1 DEF vars
  <2>2. CASE BackendOpen
    BY <2>2 DEF BackendOpen, Goto
  <2>3. CASE QuiesceBegin
    BY <2>3 DEF QuiesceBegin
  <2>4. CASE QuiescePermit
    BY <2>4 DEF QuiescePermit, Goto, MayDiscard
  <2>5. CASE QuiesceDiscardAck
    BY <2>5 DEF QuiesceDiscardAck, Goto, MayDiscard
  <2>6. CASE QuiesceBarrier
    BY <2>6 DEF QuiesceBarrier, Goto
  <2>7. CASE QuiesceAck
    BY <2>7 DEF QuiesceAck, Goto
  <2>8. CASE QuiesceChallenge
    BY <2>8 DEF QuiesceChallenge
  <2>9. CASE QuiesceForget
    BY <2>9 DEF QuiesceForget
  <2>10. CASE OpenFailed
    BY <2>10 DEF OpenFailed, Goto, MayDiscard
  <2>11. CASE BackendExchange
    BY <2>11 DEF BackendExchange, Goto
  <2>12. CASE TransferCheck
    BY <2>12 DEF TransferCheck, Goto
  <2>13. CASE TransferRetirePermit
    BY <2>13 DEF TransferRetirePermit, Goto, MayDiscard
  <2>14. CASE TransferMark
    BY <2>14 DEF TransferMark, Goto
  <2>15. CASE TransferSend
    BY <2>15 DEF TransferSend, Goto
  <2>16. CASE TransferUnmark
    BY <2>16 DEF TransferUnmark, Goto
  <2>17. CASE TransferReceive
    BY <2>17 DEF TransferReceive
  <2>18. CASE TransferGiveUp
    BY <2>18 DEF TransferGiveUp, Goto, MayDiscard
  <2>19. CASE GuardValidate
    BY <2>19 DEF GuardValidate, Goto
  <2>20. CASE ExchangeComplete
    BY <2>20 DEF ExchangeComplete, Goto
  <2>21. CASE BackendClose
    BY <2>21 DEF BackendClose, MayDiscard
  <2>22. CASE GuestRestart
    BY <2>22 DEF GuestRestart
  <2>23. CASE HostStart
    BY <2>23 DEF HostStart
  <2>24. CASE HostCrash
    BY <2>24 DEF HostCrash
  <2>25. CASE HostTake
    BY <2>25 DEF HostTake
  <2>26. CASE HostReply
    BY <2>26 DEF HostReply
  <2>27. CASE HostRelease
    BY <2>27 DEF HostRelease
  <2>28. CASE HostBarrier
    BY <2>28 DEF HostBarrier
  <2>29. CASE HostRotate
    BY <2>29 DEF HostRotate
  <2>30. CASE HostAck
    BY <2>30 DEF HostAck
  <2>31. CASE OperatorConsents
    BY <2>31 DEF OperatorConsents
  <2>32. QED BY <2>1, <2>2, <2>3, <2>4, <2>5, <2>6, <2>7, <2>8, <2>9, <2>10,
      <2>11, <2>12, <2>13, <2>14, <2>15, <2>16, <2>17, <2>18, <2>19, <2>20,
      <2>21, <2>22, <2>23, <2>24, <2>25, <2>26, <2>27, <2>28, <2>29, <2>30,
      <2>31 DEF Next, Guest, Quiesce, Transfer, Host
<1>3. QED BY <1>1, <1>2, DirTypeCorrect, PTL DEF Spec

-----------------------------------------------------------------------------
\* The inductive invariant behind containment.
Contained == OnePacket /\ ProofsPredatePacket /\ Generations /\ CallKnows

\* With an ACK to wait for, every part of the containment argument is kept.
THEOREM DirContained ==
  ASSUME Legacy = 0 PROVE Spec => []Contained
<1> USE DEF Flag, PCs, Recovering, Outstanding
<1>1. Init => Contained
  BY DEF Init, TypeOK, Contained, OnePacket, ProofsPredatePacket,
         Generations, CallKnows
<1>2. TypeOK /\ Contained /\ [Next]_vars => Contained'
  <2> SUFFICES ASSUME TypeOK, Contained, [Next]_vars
               PROVE  Contained'
    OBVIOUS
  <2> USE DEF callVars, guardVars, sessionVars, controlVars, packetVars,
              hostVars, historyVars, TypeOK, Contained, OnePacket,
              ProofsPredatePacket, Generations, CallKnows
  <2>1. CASE UNCHANGED vars
    BY <2>1 DEF vars
  <2>2. CASE BackendOpen
    BY <2>2 DEF BackendOpen, Goto
  <2>3. CASE QuiesceBegin
    BY <2>3 DEF QuiesceBegin
  <2>4. CASE QuiescePermit
    BY <2>4 DEF QuiescePermit, Goto, MayDiscard
  <2>5. CASE QuiesceDiscardAck
    BY <2>5 DEF QuiesceDiscardAck, Goto, MayDiscard
  <2>6. CASE QuiesceBarrier
    <3>1. pc' \in {"await_ack", "open_failed"}
      BY <2>6 DEF QuiesceBarrier, Goto
    <3>2. \A b \in BARRIER' : b <= token
      <4>1. token \in Nat /\ \A b \in BARRIER : b <= token
        OBVIOUS
      <4>2. BARRIER' \in {BARRIER, BARRIER \cup {token}}
        BY <2>6 DEF QuiesceBarrier
      <4> HIDE DEF TypeOK, Contained
      <4>3. QED BY <4>1, <4>2
    <3>3. UNCHANGED <<token, got, next>>
      BY <2>6 DEF QuiesceBarrier, Goto
    <3>4. QED BY <2>6, <3>1, <3>2, <3>3 DEF QuiesceBarrier
  <2>7. CASE QuiesceAck
    BY <2>7 DEF QuiesceAck, Goto
  <2>8. CASE QuiesceChallenge
    BY <2>8 DEF QuiesceChallenge
  <2>9. CASE QuiesceForget
    BY <2>9 DEF QuiesceForget
  <2>10. CASE OpenFailed
    BY <2>10 DEF OpenFailed, Goto, MayDiscard
  <2>11. CASE BackendExchange
    BY <2>11 DEF BackendExchange, Goto
  <2>12. CASE TransferCheck
    BY <2>12 DEF TransferCheck, Goto
  <2>13. CASE TransferRetirePermit
    BY <2>13 DEF TransferRetirePermit, Goto, MayDiscard
  <2>14. CASE TransferMark
    BY <2>14 DEF TransferMark, Goto
  <2>15. CASE TransferSend
    BY <2>15 DEF TransferSend, Goto
  <2>16. CASE TransferUnmark
    BY <2>16 DEF TransferUnmark, Goto
  <2>17. CASE TransferReceive
    BY <2>17 DEF TransferReceive
  <2>18. CASE TransferGiveUp
    BY <2>18 DEF TransferGiveUp, Goto, MayDiscard
  <2>19. CASE GuardValidate
    BY <2>19 DEF GuardValidate, Goto
  <2>20. CASE ExchangeComplete
    BY <2>20 DEF ExchangeComplete, Goto
  <2>21. CASE BackendClose
    BY <2>21 DEF BackendClose, MayDiscard
  <2>22. CASE GuestRestart
    BY <2>22 DEF GuestRestart
  <2>23. CASE HostStart
    BY <2>23 DEF HostStart
  <2>24. CASE HostCrash
    BY <2>24 DEF HostCrash
  <2>25. CASE HostTake
    BY <2>25 DEF HostTake
  <2>26. CASE HostReply
    BY <2>26 DEF HostReply
  <2>27. CASE HostRelease
    BY <2>27 DEF HostRelease
  <2>28. CASE HostBarrier
    BY <2>28 DEF HostBarrier
  <2>29. CASE HostRotate
    BY <2>29 DEF HostRotate
  <2>30. CASE HostAck
    BY <2>30 DEF HostAck
  <2>31. CASE OperatorConsents
    BY <2>31 DEF OperatorConsents
  <2>32. QED BY <2>1, <2>2, <2>3, <2>4, <2>5, <2>6, <2>7, <2>8, <2>9, <2>10,
      <2>11, <2>12, <2>13, <2>14, <2>15, <2>16, <2>17, <2>18, <2>19, <2>20,
      <2>21, <2>22, <2>23, <2>24, <2>25, <2>26, <2>27, <2>28, <2>29, <2>30,
      <2>31 DEF Next, Guest, Quiesce, Transfer, Host
<1>3. QED BY <1>1, <1>2, DirTypeCorrect, PTL DEF Spec

-----------------------------------------------------------------------------
\* A packet that may still take effect is recorded on disk.
THEOREM UncertaintyKept == ASSUME Legacy = 0 PROVE Spec => []UncertaintyOnDisk
<1>1. Contained => UncertaintyOnDisk
  BY DEF Contained, ProofsPredatePacket, UncertaintyOnDisk
<1>2. QED BY <1>1, DirContained, PTL

\* No request is published while an earlier one can execute or be answered.
THEOREM SendContained ==
  ASSUME Legacy = 0 PROVE Spec => []NothingOldWhenSending
<1>1. Contained => NothingOldWhenSending
  BY DEF Contained, CallKnows, NothingOldWhenSending
<1>2. QED BY <1>1, DirContained, PTL

\* A call is completed with the reply to its own request.
THEOREM ReplyMatches == ASSUME Legacy = 0 PROVE Spec => []ReplyAnswersRequest
<1>1. Contained => ReplyAnswersRequest
  BY DEF Contained, CallKnows, ReplyAnswersRequest
<1>2. QED BY <1>1, DirContained, PTL

\* Between calls an unquarantined guard has no uncertainty on disk.
THEOREM GuardAgrees == Spec => []GuardAgreesWithDisk
<1>1. GuardBooks => GuardAgreesWithDisk
  BY DEF GuardBooks, GuardAgreesWithDisk
<1>2. QED BY <1>1, DirGuardBooks, PTL

\* Recovery from an unknown outcome uses a fresh authorisation.
THEOREM ConsentFresh == Spec => RecoveryNeedsFreshConsent
<1>1. TypeOK /\ ConsentBooks /\ [Next]_vars =>
        [pc = "permit" /\ pc' = "discard_ack" /\ AMBIGUOUS # 0
           => consent = 1]_vars
  <2> SUFFICES ASSUME TypeOK, ConsentBooks, Next,
                      pc = "permit", pc' = "discard_ack", AMBIGUOUS # 0
               PROVE  consent = 1
    OBVIOUS
  <2>1. QuiescePermit
    BY DEF Next, Guest, Quiesce, Transfer, Host, BackendOpen, QuiesceBegin,
           QuiesceDiscardAck, QuiesceBarrier, QuiesceAck, QuiesceChallenge,
           QuiesceForget, OpenFailed, BackendExchange, TransferCheck,
           TransferRetirePermit, TransferMark, TransferSend, TransferUnmark,
           TransferReceive, TransferGiveUp, GuardValidate, ExchangeComplete,
           BackendClose, GuestRestart, HostStart, HostCrash, HostTake,
           HostReply, HostRelease, HostBarrier, HostRotate, HostAck,
           OperatorConsents, callVars, Goto
  <2>2. QED
    BY <2>1 DEF QuiescePermit, Goto, TypeOK, Recovering, ConsentBooks
<1>2. QED BY <1>1, DirTypeCorrect, DirConsentBooks, PTL
            DEF Spec, RecoveryNeedsFreshConsent
=============================================================================
