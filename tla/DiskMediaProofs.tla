--------------------------- MODULE DiskMediaProofs ---------------------------
(***************************************************************************)
(* Proofs about the media of a disk unit, for any images and any number of *)
(* changes.  The type invariant needs no assumption; the others assume     *)
(* that a call reported as failed was not executed by the peer.            *)
(***************************************************************************)
EXTENDS DiskMedia, TLAPS

\* Types of what the retried acknowledgement leaves.
LEMMA AckedTypes ==
  ASSUME TypeOK, NEW ack \in Acked
  PROVE  ack.pending \in Flag /\ ack.changed \in Flag
BY DEF Acked, TypeOK, Flag

\* Every command keeps the types.
LEMMA MediaTypeStep ==
  ASSUME TypeOK, [Next]_vars
  PROVE  TypeOK'
<1> USE MediaConstants
<1>1. CASE UNCHANGED vars
  BY <1>1 DEF vars, driverVars, peerVars, histVars, TypeOK
<1>2. ASSUME NEW i \in Images, NEW w \in Flag, Mount(i, w)
      PROVE  TypeOK'
  <2>1. PICK ack \in Acked : MountMode(i, w, ack)
    BY <1>2 DEF Mount
  <2>2. QED
    BY <1>2, <2>1, AckedTypes
       DEF Mount, MountMode, Commit, ClearChanged, ClearLocalMedia, KeepAck,
           ModeOf, CountLeft, TypeOK, Flag
<1>3. ASSUME NEW i \in Images, NEW w \in Flag, MountCatalog(i, w)
      PROVE  TypeOK'
  <2> DEFINE entry == [image |-> i, writable |-> w]
  <2>1. entry \in Entries
    BY DEF Entries
  <2>2. PICK ack \in Acked :
          \/ NoMapping(ack)
          \/ \E o \in Failure :
               NotStored(ack) /\ Rollback(IF Done(o) THEN entry ELSE mapping)
          \/ MountMode(i, w, ack) /\ Rollback(entry)
    BY <1>3 DEF MountCatalog
  <2>3. mapping' \in Entries \cup {NULL} /\ store_failed' \in Flag
    BY <2>1, <2>2 DEF NoMapping, Rollback, TypeOK, Flag
  <2>4. CASE NoMapping(ack) \/ NotStored(ack)
    BY <1>3, <2>3, <2>4, AckedTypes
       DEF NoMapping, NotStored, MountCatalog, KeepAck, TypeOK, Flag
  <2>5. CASE MountMode(i, w, ack)
    BY <1>3, <2>3, <2>5, AckedTypes
       DEF MountCatalog, MountMode, Commit, ClearChanged, ClearLocalMedia,
           KeepAck, ModeOf, CountLeft, TypeOK, Flag
  <2>6. QED BY <2>2, <2>4, <2>5
<1>4. CASE RestoreBoot
  <2>1. PICK i \in BootImages, w \in Flag, ack \in Acked :
          RestoreBootImage(i, w, ack)
    BY <1>4 DEF RestoreBoot
  <2>2. i \in Images
    BY DEF MediaConstants
  <2>3. QED
    BY <1>4, <2>1, <2>2, AckedTypes
       DEF RestoreBoot, RestoreBootImage, Commit, ClearChanged,
           ClearLocalMedia, KeepAck, ModeOf, CountLeft, TypeOK, Flag
<1>5. CASE EjectMedium
  <2>1. PICK ack \in Acked :
          \/ NoMapping(ack)
          \/ \E o \in Failure :
               NotStored(ack) /\ Rollback(IF Done(o) THEN NULL ELSE mapping)
          \/ Eject(ack) /\ Rollback(NULL)
    BY <1>5 DEF EjectMedium
  <2>2. mapping' \in Entries \cup {NULL} /\ store_failed' \in Flag
    BY <2>1 DEF NoMapping, Rollback, TypeOK, Flag
  <2>3. CASE NoMapping(ack) \/ NotStored(ack)
    BY <1>5, <2>2, <2>3, AckedTypes
       DEF NoMapping, NotStored, EjectMedium, KeepAck, TypeOK, Flag
  <2>4. CASE Eject(ack)
    BY <1>5, <2>2, <2>4, AckedTypes
       DEF EjectMedium, Eject, ClearChanged, ClearLocalMedia, KeepAck,
           CountLeft, TypeOK, Flag
  <2>5. QED BY <2>1, <2>3, <2>4
<1>6. ASSUME NEW w \in Flag, NEW etd \in Flag, Transfer(w, etd)
      PROVE  TypeOK'
  BY <1>6, AckedTypes DEF Transfer, KeepAck, TypeOK, Flag
<1>7. CASE OtherCommand
  BY <1>7, AckedTypes DEF OtherCommand, KeepAck, histVars, TypeOK, Flag
<1>8. CASE Observe
  BY <1>8 DEF Observe, driverVars, peerVars, TypeOK, Flag
<1>9. QED
  BY <1>1, <1>2, <1>3, <1>4, <1>5, <1>6, <1>7, <1>8 DEF Next

\* Every reachable state is well typed; in particular the count stays within
\* its bound and what is stored is always a mapping.
THEOREM MediaTypeCorrect == Spec => []TypeOK
<1>1. Init => TypeOK
  BY MediaConstants DEF Init, TypeOK, Flag
<1>2. TypeOK /\ [Next]_vars => TypeOK'
  BY MediaTypeStep
<1>3. QED BY <1>1, <1>2, PTL DEF Spec

-----------------------------------------------------------------------------
(* What a step does to the medium when a failed call did nothing.          *)

\* The retry of an acknowledgement clears the pending mark only with the flag.
AckStep ==
  (changed = 1 => change_ack_pending = 1) =>
    (changed' = 1 => change_ack_pending' = 1)

\* The medium stays.
Stays ==
  /\ UNCHANGED <<mounted, writable, media, change_count, slot, slot_ro>>
  /\ AckStep

\* The unit is empty afterwards, at the same count or a higher one.
Empties ==
  /\ mounted' = 0 /\ change_count' >= change_count

\* A new medium is in the unit, at a higher count.
Gains ==
  /\ mounted' = 1 /\ change_count' > change_count
  /\ slot' = media' /\ media' \in Images
  /\ writable' = 1 => slot_ro' = 0
  /\ changed' = 1 => change_ack_pending' = 1

\* When failures mean that nothing was done, an acknowledged flag is clear.
LEMMA AckedBooks ==
  ASSUME TypeOK, LostReplies = 0, NEW ack \in Acked,
         changed' = ack.changed, change_ack_pending' = ack.pending
  PROVE  AckStep
<1>1. CASE change_ack_pending = 0
  <2>1. ack = [pending |-> 0, changed |-> changed]
    BY <1>1 DEF Acked
  <2>2. changed' = changed
    BY <2>1
  <2>3. QED BY <1>1, <2>2 DEF AckStep
<1>2. CASE change_ack_pending # 0
  <2>1. PICK o \in Outcome :
          ack = [pending |-> IF o = "ok" THEN 0 ELSE 1,
                 changed |-> IF Done(o) THEN 0 ELSE changed]
    BY <1>2 DEF Acked
  <2>2. QED BY <2>1 DEF Outcome, Done, AckStep
<1>3. QED BY <1>1, <1>2

\* A committed mount gains a medium.
LEMMA CommitGains ==
  ASSUME TypeOK, LostReplies = 0, NEW i \in Images, NEW w \in Flag,
         Commit(i, w), slot' = i, w = 1 => slot_ro' = 0
  PROVE  Gains
<1>1. change_count' > change_count
  BY DEF Commit, TypeOK
<1>2. changed' = 1 => change_ack_pending' = 1
  BY DEF Commit, ClearChanged, Outcome, Done
<1>3. QED BY <1>1, <1>2 DEF Commit, Gains

\* fujinet_disk_mount_mode() stays, empties or gains.
LEMMA MountKinds ==
  ASSUME TypeOK, LostReplies = 0, NEW i \in Images, NEW w \in Flag,
         NEW ack \in Acked, MountMode(i, w, ack)
  PROVE  (io_Error' = 1 /\ (Stays \/ Empties)) \/
         (io_Error' = 0 /\ Gains /\ media' = i /\ writable' = w)
<1>1. CASE \E o \in Failure :
             /\ IF o = "lost"
                THEN slot' = i /\ slot_ro' = ModeOf(i, w) /\ changed' = 1
                ELSE changed' = ack.changed /\ UNCHANGED <<slot, slot_ro>>
             /\ KeepAck(ack) /\ io_Error' = 1
             /\ UNCHANGED <<mounted, writable, media, change_count>>
  <2>1. changed' = ack.changed /\ UNCHANGED <<slot, slot_ro>>
    BY <1>1 DEF Failure, Outcome
  <2>2. AckStep
    BY <1>1, <2>1, AckedBooks DEF KeepAck
  <2>3. QED BY <1>1, <2>1, <2>2 DEF Stays
<1>2. CASE /\ Valid(i, w, ModeOf(i, w))
           /\ slot' = i /\ slot_ro' = ModeOf(i, w)
           /\ Commit(i, w)
  <2>1. w = 1 => slot_ro' = 0
    BY <1>2 DEF Valid, ModeOf
  <2>2. Gains
    BY <1>2, <2>1, CommitGains
  <2>3. QED BY <1>2, <2>2 DEF Commit
<1>3. CASE ClearLocalMedia /\ io_Error' = 1 /\ UNCHANGED change_count
  BY <1>3 DEF ClearLocalMedia, Empties, TypeOK
<1>4. QED BY <1>1, <1>2, <1>3 DEF MountMode

\* So does fujinet_disk_restore_boot().
LEMMA RestoreKinds ==
  ASSUME TypeOK, LostReplies = 0, NEW i \in Images, NEW w \in Flag,
         NEW ack \in Acked, RestoreBootImage(i, w, ack)
  PROVE  (io_Error' = 1 /\ (Stays \/ Empties)) \/ (io_Error' = 0 /\ Gains)
<1>1. CASE \E o \in Failure :
             /\ IF o = "lost"
                THEN slot' = i /\ slot_ro' = ModeOf(i, w) /\ changed' = 1
                ELSE changed' = ack.changed /\ UNCHANGED <<slot, slot_ro>>
             /\ KeepAck(ack) /\ io_Error' = 1
             /\ UNCHANGED <<mounted, writable, media, change_count>>
  <2>1. changed' = ack.changed /\ UNCHANGED <<slot, slot_ro>>
    BY <1>1 DEF Failure, Outcome
  <2>2. AckStep
    BY <1>1, <2>1, AckedBooks DEF KeepAck
  <2>3. QED BY <1>1, <2>1, <2>2 DEF Stays
<1>2. CASE /\ slot' = i /\ slot_ro' = ModeOf(i, w)
           /\ Commit(i, 1 - slot_ro')
  <2>1. slot_ro' \in {0, 1}
    BY <1>2 DEF ModeOf
  <2>2. 1 - slot_ro' \in Flag /\ (1 - slot_ro' = 1 => slot_ro' = 0)
    <3>1. CASE slot_ro' = 0
      BY <3>1 DEF Flag
    <3>2. CASE slot_ro' = 1
      BY <3>2 DEF Flag
    <3>3. QED BY <2>1, <3>1, <3>2
  <2>3. Gains
    BY <1>2, <2>2, CommitGains
  <2>4. QED BY <1>2, <2>3 DEF Commit
<1>3. CASE ClearLocalMedia /\ io_Error' = 1 /\ UNCHANGED change_count
  BY <1>3 DEF ClearLocalMedia, Empties, TypeOK
<1>4. QED BY <1>1, <1>2, <1>3 DEF RestoreBootImage

\* fujinet_disk_eject() stays or empties.
LEMMA EjectKinds ==
  ASSUME TypeOK, LostReplies = 0, NEW ack \in Acked, Eject(ack)
  PROVE  (io_Error' = 1 /\ Stays) \/ (io_Error' = 0 /\ Empties)
<1>1. CASE \E o \in Failure :
             /\ IF mounted = 1 /\ o = "lost"
                THEN slot' = NULL /\ changed' = 1
                ELSE changed' = ack.changed /\ UNCHANGED slot
             /\ KeepAck(ack) /\ io_Error' = 1
             /\ UNCHANGED <<slot_ro, mounted, writable, media, change_count>>
  <2>1. changed' = ack.changed /\ UNCHANGED slot
    BY <1>1 DEF Failure, Outcome
  <2>2. AckStep
    BY <1>1, <2>1, AckedBooks DEF KeepAck
  <2>3. QED BY <1>1, <2>1, <2>2 DEF Stays
<1>2. CASE ClearLocalMedia /\ io_Error' = 0 /\ change_count' = change_count + 1
  BY <1>2 DEF ClearLocalMedia, Empties, TypeOK
<1>3. QED BY <1>1, <1>2 DEF Eject

\* A command that does not touch the medium stays.
LEMMA NoChangeStays ==
  ASSUME TypeOK, LostReplies = 0, NEW ack \in Acked,
         NoMapping(ack) \/ NotStored(ack)
  PROVE  Stays /\ io_Error' = 1
<1>1. AckStep
  BY AckedBooks DEF NoMapping, NotStored, KeepAck
<1>2. QED BY <1>1 DEF NoMapping, NotStored, Stays

\* Every step leaves the medium alone, empties the unit or gains a medium.
LEMMA StepKinds ==
  ASSUME TypeOK, LostReplies = 0, [Next]_vars
  PROVE  Stays \/ Empties \/ Gains
<1>1. CASE UNCHANGED vars
  BY <1>1 DEF vars, driverVars, peerVars, Stays, AckStep
<1>2. ASSUME NEW i \in Images, NEW w \in Flag, Mount(i, w)
      PROVE  Stays \/ Empties \/ Gains
  BY <1>2, MountKinds DEF Mount
<1>3. ASSUME NEW i \in Images, NEW w \in Flag, MountCatalog(i, w)
      PROVE  Stays \/ Empties \/ Gains
  BY <1>3, MountKinds, NoChangeStays DEF MountCatalog
<1>4. CASE RestoreBoot
  BY <1>4, RestoreKinds, MediaConstants DEF RestoreBoot
<1>5. CASE EjectMedium
  BY <1>5, EjectKinds, NoChangeStays DEF EjectMedium
<1>6. ASSUME NEW w \in Flag, NEW etd \in Flag, Transfer(w, etd)
      PROVE  Stays \/ Empties \/ Gains
  <2>1. AckStep
    BY <1>6, AckedBooks DEF Transfer, KeepAck
  <2>2. QED BY <1>6, <2>1 DEF Transfer, Stays
<1>7. CASE OtherCommand
  <2>1. AckStep
    BY <1>7, AckedBooks DEF OtherCommand, KeepAck
  <2>2. QED BY <1>7, <2>1 DEF OtherCommand, Stays
<1>8. CASE Observe
  BY <1>8 DEF Observe, driverVars, peerVars, Stays, AckStep
<1>9. QED
  BY <1>1, <1>2, <1>3, <1>4, <1>5, <1>6, <1>7, <1>8 DEF Next

\* The driver's medium is the peer's, and a CHANGED flag the peer shows for it
\* is one the driver will acknowledge, when failed calls did nothing.
THEOREM MediaAgrees ==
  ASSUME LostReplies = 0
  PROVE  Spec => [](Agree /\ ChangeWillBeAcknowledged)
<1>1. Init => Agree /\ ChangeWillBeAcknowledged
  BY DEF Init, Agree, ChangeWillBeAcknowledged
<1>2. TypeOK /\ Agree /\ ChangeWillBeAcknowledged /\ [Next]_vars
        => (Agree /\ ChangeWillBeAcknowledged)'
  <2> SUFFICES ASSUME TypeOK, Agree, ChangeWillBeAcknowledged, [Next]_vars
               PROVE  Agree' /\ ChangeWillBeAcknowledged'
    OBVIOUS
  <2>1. CASE Stays
    BY <2>1 DEF Stays, AckStep, Agree, ChangeWillBeAcknowledged
  <2>2. CASE Empties
    BY <2>2 DEF Empties, Agree, ChangeWillBeAcknowledged
  <2>3. CASE Gains
    BY <2>3 DEF Gains, Agree, ChangeWillBeAcknowledged
  <2>4. QED BY <2>1, <2>2, <2>3, StepKinds
<1>3. QED BY <1>1, <1>2, MediaTypeCorrect, PTL DEF Spec

\* What a step does to a client's ticket and to the last transfer.
LEMMA HistorySteps ==
  ASSUME TypeOK, [Next]_vars
  PROVE  \/ Observe
         \/ \E w, etd \in Flag : Transfer(w, etd)
         \/ UNCHANGED <<ticket, touched>>
<1>1. CASE UNCHANGED vars
  BY <1>1 DEF vars, histVars
<1>2. ASSUME NEW i \in Images, NEW w \in Flag, Mount(i, w) \/ MountCatalog(i, w)
      PROVE  UNCHANGED <<ticket, touched>>
  BY <1>2 DEF Mount, MountCatalog
<1>3. CASE RestoreBoot \/ EjectMedium \/ OtherCommand
  BY <1>3 DEF RestoreBoot, EjectMedium, OtherCommand, histVars
<1>4. QED BY <1>1, <1>2, <1>3 DEF Next

\* A ticket whose count is current names the medium in the slot, when failed
\* calls did nothing: no two media are ever mounted under one count.
THEOREM TicketsKept ==
  ASSUME LostReplies = 0
  PROVE  Spec => []TicketBooks
<1>1. Init => TicketBooks
  BY DEF Init, TicketBooks
<1>2. TypeOK /\ TicketBooks /\ [Next]_vars => TicketBooks'
  <2> SUFFICES ASSUME TypeOK, TicketBooks, [Next]_vars, ticket' # NULL
               PROVE  /\ ticket'.count <= change_count'
                      /\ mounted' = 1 /\ ticket'.count = change_count'
                           => slot' = ticket'.image
    BY DEF TicketBooks
  <2>1. CASE Observe
    BY <2>1 DEF Observe, driverVars, peerVars, TypeOK
  <2>2. CASE UNCHANGED ticket
    <3>1. ticket.count \in Nat /\ ticket.count <= change_count /\ change_count \in Nat
      BY <2>2 DEF TicketBooks, TypeOK
    <3>2. CASE Stays
      BY <2>2, <3>2 DEF Stays, TicketBooks
    <3>3. CASE Empties
      <4>1. change_count' \in Nat
        BY MediaTypeStep DEF TypeOK
      <4>2. QED BY <2>2, <3>1, <3>3, <4>1 DEF Empties
    <3>4. CASE Gains
      <4>1. change_count' \in Nat
        BY MediaTypeStep DEF TypeOK
      <4>2. QED BY <2>2, <3>1, <3>4, <4>1 DEF Gains
    <3>5. QED BY <3>2, <3>3, <3>4, StepKinds
  <2>3. QED BY <2>1, <2>2, HistorySteps DEF Transfer
<1>3. QED BY <1>1, <1>2, MediaTypeCorrect, PTL DEF Spec

\* An ETD transfer reaches the medium its client saw, when failed calls did
\* nothing: the count check of ETD_READ and ETD_WRITE is enough.
THEOREM EtdContained ==
  ASSUME LostReplies = 0
  PROVE  Spec => []EtdSeesItsMedium
<1>1. Init => EtdSeesItsMedium
  BY DEF Init, EtdSeesItsMedium
<1>2. TypeOK /\ TicketBooks /\ EtdSeesItsMedium /\ [Next]_vars
        => EtdSeesItsMedium'
  <2> SUFFICES ASSUME TypeOK, TicketBooks, EtdSeesItsMedium, [Next]_vars
               PROVE  EtdSeesItsMedium'
    OBVIOUS
  <2>1. CASE Observe
    BY <2>1 DEF Observe, EtdSeesItsMedium
  <2>2. CASE UNCHANGED <<ticket, touched>>
    BY <2>2 DEF EtdSeesItsMedium
  <2>3. ASSUME NEW w \in Flag, NEW etd \in Flag, Transfer(w, etd)
        PROVE  EtdSeesItsMedium'
    <3>1. SUFFICES ASSUME touched' # NULL, touched'.etd = 1
                   PROVE  touched'.image = ticket'.image
      BY DEF EtdSeesItsMedium
    <3>2. Accepts(w, etd) /\ UNCHANGED ticket
      BY <2>3, <3>1 DEF Transfer
    <3>3. touched' = [image |-> slot, ro |-> slot_ro, wrote |-> w, etd |-> etd]
      BY <2>3, <3>1, <3>2 DEF Transfer
    <3>4. etd = 1
      BY <3>1, <3>3
    <3>5. ticket # NULL /\ ticket.count >= change_count /\ mounted = 1
      BY <2>3, <3>2, <3>4 DEF Transfer, Accepts
    <3>6. ticket.count = change_count
      BY <3>5 DEF TicketBooks, TypeOK
    <3>7. slot = ticket.image
      BY <3>5, <3>6 DEF TicketBooks
    <3>8. QED BY <3>2, <3>3, <3>7
  <2>4. QED BY <2>1, <2>2, <2>3, HistorySteps
<1>3. QED BY <1>1, <1>2, MediaTypeCorrect, TicketsKept, PTL DEF Spec

\* No write goes to a medium the peer mounted read-only, when failed calls
\* did nothing.
THEOREM WritesAllowed ==
  ASSUME LostReplies = 0
  PROVE  Spec => []WriteProtectHonoured
<1>1. Init => WriteProtectHonoured
  BY DEF Init, WriteProtectHonoured
<1>2. TypeOK /\ Agree /\ WriteProtectHonoured /\ [Next]_vars
        => WriteProtectHonoured'
  <2> SUFFICES ASSUME TypeOK, Agree, WriteProtectHonoured, [Next]_vars
               PROVE  WriteProtectHonoured'
    OBVIOUS
  <2>1. CASE Observe
    BY <2>1 DEF Observe, WriteProtectHonoured
  <2>2. CASE UNCHANGED <<ticket, touched>>
    BY <2>2 DEF WriteProtectHonoured
  <2>3. ASSUME NEW w \in Flag, NEW etd \in Flag, Transfer(w, etd)
        PROVE  WriteProtectHonoured'
    BY <2>3 DEF Transfer, Accepts, Agree, WriteProtectHonoured
  <2>4. QED BY <2>1, <2>2, <2>3, HistorySteps
<1>3. QED BY <1>1, <1>2, MediaTypeCorrect, MediaAgrees, PTL DEF Spec

\* The second store either leaves the new mapping of a command that succeeded,
\* or puts the old one back, or is on record as failed.
LEMMA RollbackBooks ==
  ASSUME NEW m, Rollback(m)
  PROVE  \/ io_Error' = 0 /\ mapping' = m /\ store_failed' = store_failed
         \/ io_Error' # 0 /\ mapping' = mapping /\ store_failed' = store_failed
         \/ io_Error' # 0 /\ store_failed' = 1
BY DEF Rollback, Done

\* The stored mapping names a medium mounted from the catalogue as long as
\* every undoing store succeeded, when failed calls did nothing.
THEOREM MappingKept ==
  ASSUME LostReplies = 0
  PROVE  Spec => []MappingNamesMedium
<1>1. Init => MappingNamesMedium
  BY DEF Init, MappingNamesMedium
<1>2. TypeOK /\ MappingNamesMedium /\ [Next]_vars => MappingNamesMedium'
  <2> SUFFICES ASSUME TypeOK, MappingNamesMedium, [Next]_vars
               PROVE  MappingNamesMedium'
    OBVIOUS
  <2>1. CASE UNCHANGED <<mounted, by_catalog, store_failed, mapping, media,
                         writable>>
    BY <2>1 DEF MappingNamesMedium
  <2>2. CASE mounted' = 0 \/ by_catalog' = 0 \/ store_failed' = 1
    BY <2>2 DEF MappingNamesMedium
  <2>3. ASSUME NEW i \in Images, NEW w \in Flag, Mount(i, w)
        PROVE  MappingNamesMedium'
    <3>1. \/ io_Error' = 1 /\ (Stays \/ Empties)
          \/ io_Error' = 0
      BY <2>3, MountKinds DEF Mount
    <3>2. QED
      BY <2>1, <2>2, <2>3, <3>1 DEF Mount, Stays, Empties
  <2>4. ASSUME NEW i \in Images, NEW w \in Flag, MountCatalog(i, w)
        PROVE  MappingNamesMedium'
    <3> DEFINE entry == [image |-> i, writable |-> w]
    <3>1. PICK ack \in Acked :
            \/ NoMapping(ack)
            \/ \E o \in Failure :
                 NotStored(ack) /\ Rollback(IF Done(o) THEN entry ELSE mapping)
            \/ MountMode(i, w, ack) /\ Rollback(entry)
      BY <2>4 DEF MountCatalog
    <3>2. CASE NoMapping(ack)
      BY <2>1, <2>4, <3>2 DEF MountCatalog, NoMapping
    <3>3. ASSUME NEW o \in Failure, NotStored(ack),
                 Rollback(IF Done(o) THEN entry ELSE mapping)
          PROVE  MappingNamesMedium'
      BY <2>1, <2>2, <2>4, <3>3, RollbackBooks DEF MountCatalog, NotStored
    <3>4. CASE MountMode(i, w, ack) /\ Rollback(entry)
      <4>1. CASE io_Error' = 1 /\ (Stays \/ Empties)
        BY <2>1, <2>2, <2>4, <3>4, <4>1, RollbackBooks
           DEF MountCatalog, Stays, Empties
      <4>2. CASE io_Error' = 0 /\ media' = i /\ writable' = w
        BY <3>4, <4>2, RollbackBooks DEF MappingNamesMedium
      <4>3. QED BY <3>4, <4>1, <4>2, MountKinds
    <3>5. QED BY <3>1, <3>2, <3>3, <3>4
  <2>5. CASE RestoreBoot
    <3>1. \/ io_Error' = 1 /\ (Stays \/ Empties)
          \/ io_Error' = 0
      BY <2>5, RestoreKinds, MediaConstants DEF RestoreBoot
    <3>2. QED
      BY <2>1, <2>2, <2>5, <3>1 DEF RestoreBoot, Stays, Empties
  <2>6. CASE EjectMedium
    <3>1. PICK ack \in Acked :
            \/ NoMapping(ack)
            \/ \E o \in Failure :
                 NotStored(ack) /\ Rollback(IF Done(o) THEN NULL ELSE mapping)
            \/ Eject(ack) /\ Rollback(NULL)
      BY <2>6 DEF EjectMedium
    <3>2. CASE NoMapping(ack)
      BY <2>1, <2>6, <3>2 DEF EjectMedium, NoMapping
    <3>3. ASSUME NEW o \in Failure, NotStored(ack),
                 Rollback(IF Done(o) THEN NULL ELSE mapping)
          PROVE  MappingNamesMedium'
      BY <2>1, <2>2, <2>6, <3>3, RollbackBooks DEF EjectMedium, NotStored
    <3>4. CASE Eject(ack) /\ Rollback(NULL)
      BY <2>1, <2>2, <2>6, <3>4, RollbackBooks, EjectKinds
         DEF EjectMedium, Stays, Empties
    <3>5. QED BY <3>1, <3>2, <3>3, <3>4
  <2>7. ASSUME NEW w \in Flag, NEW etd \in Flag, Transfer(w, etd)
        PROVE  MappingNamesMedium'
    BY <2>1, <2>7 DEF Transfer
  <2>8. CASE OtherCommand \/ Observe
    BY <2>1, <2>8 DEF OtherCommand, Observe, driverVars, peerVars, histVars
  <2>9. CASE UNCHANGED vars
    BY <2>1, <2>9 DEF vars, driverVars, histVars
  <2>10. QED
    BY <2>3, <2>4, <2>5, <2>6, <2>7, <2>8, <2>9 DEF Next
<1>3. QED BY <1>1, <1>2, MediaTypeCorrect, PTL DEF Spec
=============================================================================
