------------------------------ MODULE DiskMedia ------------------------------
(***************************************************************************)
(* The medium of one unit of fujinet-disk.device: the disk driver          *)
(* (amiga/common/fujinet_disk_driver.c), the commands of                   *)
(* device_process_request() that use it, the peer's slot behind it and the *)
(* unit's entry in the persistent mappings.                                *)
(*                                                                         *)
(* The worker runs one command at a time, so a command is one step; what   *)
(* varies is which of its calls to the peer fail.  A call that fails was   *)
(* refused (the peer did nothing) or, with LostReplies, its answer was     *)
(* lost (the peer did it).  A failing ensure_client() is a refused call.   *)
(* Flags are 0 or 1.                                                       *)
(***************************************************************************)
EXTENDS Naturals

CONSTANTS
  Images,        \* what can be mounted, by URI or as a catalogue entry
  Usable,        \* those validate_adf_geometry() accepts
  Protected,     \* those the peer mounts read-only whatever is asked
  BootImages,    \* what the peer may mount for RESTORE_BOOT
  NULL,
  LostReplies,
  MaxCount       \* bound on the change counter (32 bits in the code)

ASSUME MediaConstants ==
  /\ Usable \subseteq Images /\ Protected \subseteq Images
  /\ BootImages \subseteq Images /\ NULL \notin Images
  /\ LostReplies \in {0, 1} /\ MaxCount \in Nat

VARIABLES
  mounted, writable, media,          \* the driver's view of the medium
  change_count, change_ack_pending,
  slot, slot_ro, changed,            \* the peer: image, its mode, CHANGED flag
  mapping,                           \* the unit's stored mapping
  io_Error,                          \* of the last command: 0, or 1 for any error
  ticket,        \* history: count and image as a client last observed them
  touched,       \* history: what the last transfer reached at the peer
  by_catalog,    \* history: the mounted medium came from the catalogue
  store_failed   \* history: a store that was to undo a mapping has failed

driverVars == <<mounted, writable, media, change_count, change_ack_pending>>
peerVars   == <<slot, slot_ro, changed>>
histVars   == <<ticket, touched, by_catalog, store_failed>>
vars == <<driverVars, peerVars, mapping, io_Error, histVars>>

Flag    == {0, 1}
Outcome == IF LostReplies = 1 THEN {"ok", "refused", "lost"}
                              ELSE {"ok", "refused"}
Failure == Outcome \ {"ok"}
Entries == [image : Images, writable : Flag]

\* What the peer has done when a call ends with outcome o.
Done(o) == o # "refused"

Init ==
  /\ mounted = 0 /\ writable = 0 /\ media = NULL
  /\ change_count = 0 /\ change_ack_pending = 0
  /\ slot = NULL /\ slot_ro = 0 /\ changed = 0
  /\ mapping \in Entries \cup {NULL}
  /\ io_Error = 0
  /\ ticket = NULL /\ touched = NULL /\ by_catalog = 0 /\ store_failed = 0

-----------------------------------------------------------------------------
(* Every command first retries a pending fujinet_disk_acknowledge_change(). *)

Acked ==
  IF change_ack_pending = 0
  THEN {[pending |-> 0, changed |-> changed]}
  ELSE {[pending |-> IF o = "ok" THEN 0 ELSE 1,
         changed |-> IF Done(o) THEN 0 ELSE changed] : o \in Outcome}

\* Bug: a failed acknowledgement is forgotten.
BugAckForgotten ==
  \E o \in Outcome :
    /\ change_ack_pending' = 0
    /\ changed' = IF Done(o) THEN 0 ELSE 1

\* clear_changed() at the end of a committed transition.
ClearChanged ==
  \E o \in Outcome :
    /\ change_ack_pending' = IF o = "ok" THEN 0 ELSE 1
    /\ changed' = IF Done(o) THEN 0 ELSE 1

\* The transition did not commit: ack is what the retry left.
KeepAck(ack) == change_ack_pending' = ack.pending

ClearLocalMedia == mounted' = 0 /\ writable' = 0 /\ media' = NULL

\* Bug: a read-only mount is accepted for a writable request.
BugModeUnchecked(i, w, ro) == i \in Usable

\* validate_adf_geometry() of image i as the peer mounted it, mode ro.
Valid(i, w, ro) == i \in Usable /\ ~ (w = 1 /\ ro = 1)

ModeOf(i, w) == IF w = 1 /\ i \notin Protected THEN 0 ELSE 1

\* Bug: a replacement does not move the count.
BugReplacementUncounted(i, w) ==
  /\ mounted' = 1 /\ writable' = w /\ media' = i
  /\ change_count' = change_count + (IF mounted = 1 THEN 0 ELSE 1)
  /\ ClearChanged
  /\ io_Error' = 0

\* mounted becomes 1 with a new medium; a replacement counts twice.
Commit(i, w) ==
  /\ mounted' = 1 /\ writable' = w /\ media' = i
  /\ change_count' = change_count + (IF mounted = 1 THEN 2 ELSE 1)
  /\ ClearChanged
  /\ io_Error' = 0

\* fujinet_disk_mount_mode()
MountMode(i, w, ack) ==
  \/ \* the peer refuses the mount, or its answer is lost
     \E o \in Failure :
       /\ IF o = "lost"
          THEN slot' = i /\ slot_ro' = ModeOf(i, w) /\ changed' = 1
          ELSE changed' = ack.changed /\ UNCHANGED <<slot, slot_ro>>
       /\ KeepAck(ack) /\ io_Error' = 1
       /\ UNCHANGED <<mounted, writable, media, change_count>>
  \/ \* mounted, but unusable, or flush() or info() fails: unmounted again
     \E o \in Outcome :
       /\ slot' = IF Done(o) THEN NULL ELSE i
       /\ slot_ro' = ModeOf(i, w) /\ changed' = 1
       /\ ClearLocalMedia
       /\ KeepAck(ack) /\ io_Error' = 1
       /\ UNCHANGED change_count
  \/ /\ Valid(i, w, ModeOf(i, w))
     /\ slot' = i /\ slot_ro' = ModeOf(i, w)
     /\ Commit(i, w)

\* fujinet_disk_restore_boot(): the peer chooses image and mode; nothing is
\* unmounted when the image is unusable.
RestoreBootImage(i, w, ack) ==
  \/ \E o \in Failure :
       /\ IF o = "lost"
          THEN slot' = i /\ slot_ro' = ModeOf(i, w) /\ changed' = 1
          ELSE changed' = ack.changed /\ UNCHANGED <<slot, slot_ro>>
       /\ KeepAck(ack) /\ io_Error' = 1
       /\ UNCHANGED <<mounted, writable, media, change_count>>
  \/ /\ slot' = i /\ slot_ro' = ModeOf(i, w)
     /\ IF Valid(i, 0, slot_ro')
        THEN Commit(i, 1 - slot_ro')
        ELSE /\ ClearLocalMedia /\ changed' = 1
             /\ KeepAck(ack) /\ io_Error' = 1
             /\ UNCHANGED change_count

\* fujinet_disk_eject()
Eject(ack) ==
  \/ /\ mounted = 1
     /\ slot' = NULL /\ UNCHANGED slot_ro
     /\ ClearLocalMedia
     /\ change_count' = change_count + 1
     /\ ClearChanged
     /\ io_Error' = 0
  \/ \E o \in Failure :
       /\ IF mounted = 1 /\ o = "lost"
          THEN slot' = NULL /\ changed' = 1
          ELSE changed' = ack.changed /\ UNCHANGED slot
       /\ KeepAck(ack) /\ io_Error' = 1
       /\ UNCHANGED <<slot_ro, mounted, writable, media, change_count>>

-----------------------------------------------------------------------------
(* Commands.                                                               *)

CountLeft == change_count + 2 <= MaxCount

\* FUJINET_DISK_CMD_MOUNT, FUJINET_DISK_CMD_MOUNT_WRITABLE
Mount(i, w) ==
  /\ CountLeft
  /\ \E ack \in Acked : MountMode(i, w, ack)
  /\ by_catalog' = IF io_Error' = 0 THEN 0 ELSE by_catalog
  /\ UNCHANGED <<mapping, ticket, touched, store_failed>>

RestoreBoot ==
  /\ CountLeft
  /\ \E i \in BootImages, w \in Flag, ack \in Acked :
       RestoreBootImage(i, w, ack)
  /\ by_catalog' = IF io_Error' = 0 THEN 0 ELSE by_catalog
  /\ UNCHANGED <<mapping, ticket, touched, store_failed>>

\* A command that fails before it stores a mapping: the catalogue entry does
\* not resolve, or the mappings cannot be loaded.
NoMapping(ack) ==
  /\ io_Error' = 1
  /\ KeepAck(ack) /\ changed' = ack.changed
  /\ UNCHANGED <<slot, slot_ro, mounted, writable, media, change_count,
                 mapping, store_failed>>

\* The store of the new mapping fails (with or without effect).
NotStored(ack) ==
  /\ io_Error' = 1
  /\ KeepAck(ack) /\ changed' = ack.changed
  /\ UNCHANGED <<slot, slot_ro, mounted, writable, media, change_count>>

\* Bug: the old mapping is not put back.
BugNoUndo(m) == mapping' = m /\ UNCHANGED store_failed

\* The second store_mappings(), which puts the old mapping back when the
\* command failed after the first store, whose effect made it m.
Rollback(m) ==
  IF io_Error' = 0
  THEN mapping' = m /\ UNCHANGED store_failed
  ELSE \E o \in Outcome :
         /\ mapping' = IF Done(o) THEN mapping ELSE m
         /\ store_failed' = IF o = "ok" THEN store_failed ELSE 1

\* FUJINET_DISK_CMD_MOUNT_CATALOG: resolve, load, store, mount, undo.
MountCatalog(i, w) ==
  LET entry == [image |-> i, writable |-> w] IN
  /\ CountLeft
  /\ \E ack \in Acked :
       \/ NoMapping(ack)
       \/ \E o \in Failure :
            NotStored(ack) /\ Rollback(IF Done(o) THEN entry ELSE mapping)
       \/ MountMode(i, w, ack) /\ Rollback(entry)
  /\ by_catalog' = IF io_Error' = 0 THEN 1 ELSE by_catalog
  /\ UNCHANGED <<ticket, touched>>

\* TD_EJECT: load, store the empty mapping, unmount, undo.
EjectMedium ==
  /\ CountLeft
  /\ \E ack \in Acked :
       \/ NoMapping(ack)
       \/ \E o \in Failure :
            NotStored(ack) /\ Rollback(IF Done(o) THEN NULL ELSE mapping)
       \/ Eject(ack) /\ Rollback(NULL)
  /\ by_catalog' = IF io_Error' = 0 THEN 0 ELSE by_catalog
  /\ UNCHANGED <<ticket, touched>>

\* CMD_READ, CMD_WRITE (etd = 0), ETD_READ, ETD_WRITE with the count of the
\* client's ticket.  The peer may still refuse an accepted transfer.
Accepts(w, etd) ==
  /\ mounted = 1
  /\ w = 1 => writable = 1
  /\ etd = 1 => ticket.count >= change_count

Transfer(w, etd) ==
  /\ etd = 1 => ticket # NULL
  /\ \/ /\ Accepts(w, etd)
        /\ touched' = IF slot = NULL THEN NULL
                      ELSE [image |-> slot, ro |-> slot_ro, wrote |-> w,
                            etd |-> etd]
        /\ io_Error' \in IF slot = NULL THEN {1} ELSE Flag
     \/ /\ ~ Accepts(w, etd)
        /\ touched' = NULL /\ io_Error' = 1
  /\ \E ack \in Acked : KeepAck(ack) /\ changed' = ack.changed
  /\ UNCHANGED <<slot, slot_ro, mounted, writable, media, change_count,
                 mapping, ticket, by_catalog, store_failed>>

\* Updates, clears, geometry, inspection, trace: no state but the retry.
OtherCommand ==
  /\ \E ack \in Acked : KeepAck(ack) /\ changed' = ack.changed
  /\ io_Error' \in Flag
  /\ UNCHANGED <<slot, slot_ro, mounted, writable, media, change_count,
                 mapping, histVars>>

\* A client asks TD_CHANGESTATE and TD_CHANGENUM and looks at the medium.
Observe ==
  /\ mounted = 1
  /\ ticket' = [count |-> change_count, image |-> slot]
  /\ touched' = NULL
  /\ io_Error' = 0
  /\ UNCHANGED <<driverVars, peerVars, mapping, by_catalog, store_failed>>

Next ==
  \/ \E i \in Images, w \in Flag : Mount(i, w) \/ MountCatalog(i, w)
  \/ RestoreBoot \/ EjectMedium
  \/ \E w, etd \in Flag : Transfer(w, etd)
  \/ OtherCommand \/ Observe

Spec == Init /\ [][Next]_vars

-----------------------------------------------------------------------------
(* Properties.                                                             *)

TypeOK ==
  /\ mounted \in Flag /\ writable \in Flag
  /\ media \in Images \cup {NULL} /\ slot \in Images \cup {NULL}
  /\ change_count \in 0 .. MaxCount /\ change_ack_pending \in Flag
  /\ slot_ro \in Flag /\ changed \in Flag
  /\ mapping \in Entries \cup {NULL}
  /\ io_Error \in Flag
  /\ ticket \in [count : 0 .. MaxCount, image : Images \cup {NULL}] \cup {NULL}
  /\ touched \in [image : Images, ro : Flag, wrote : Flag, etd : Flag] \cup {NULL}
  /\ by_catalog \in Flag /\ store_failed \in Flag

\* A mounted medium is the one in the peer's slot, in a mode that allows the
\* writes the driver accepts.
Agree ==
  mounted = 1 => /\ slot = media /\ media \in Images
                 /\ writable = 1 => slot_ro = 0

\* A ticket whose count is still current names the medium in the slot.
TicketBooks ==
  ticket # NULL =>
    /\ ticket.count <= change_count
    /\ mounted = 1 /\ ticket.count = change_count => slot = ticket.image

\* An ETD transfer that runs reaches the medium its client saw when it took
\* the count, through any sequence of mounts, failed mounts and ejects.
EtdSeesItsMedium ==
  touched # NULL /\ touched.etd = 1 => touched.image = ticket.image

\* No write is sent to a medium the peer has mounted read-only.
WriteProtectHonoured ==
  touched # NULL /\ touched.wrote = 1 => touched.ro = 0

\* A CHANGED flag the peer shows for a medium the driver has adopted is one
\* the driver still means to acknowledge.
ChangeWillBeAcknowledged ==
  mounted = 1 /\ changed = 1 => change_ack_pending = 1

\* While a medium mounted from the catalogue is in the unit, the stored
\* mapping names it and its mode, whatever mounts and ejects have failed
\* since, as long as every undoing store succeeded.
MappingNamesMedium ==
  mounted = 1 /\ by_catalog = 1 /\ store_failed = 0 =>
    mapping = [image |-> media, writable |-> writable]

\* Whenever the unit gains or loses its medium the count moves, and with it
\* the change interrupts are caused.
TransitionsAreCounted ==
  [][ mounted' # mounted => change_count' > change_count ]_vars
=============================================================================
