-------------------------- MODULE DirectoryBackend --------------------------
(***************************************************************************)
(* The native-test backend: the packet guard (fujinet_nio_packet_backend.c) *)
(* over a directory shared with a host peer                                *)
(* (fujinet_nio_directory_backend.c).  The guest writes a request as a     *)
(* file, polls for the reply file, and must not send anything while an     *)
(* earlier request may still be executed or answered.  It is the broker's  *)
(* worker that calls, one call at a time, so the guard's `active' flag is  *)
(* pc # "idle" here.                                                       *)
(*                                                                         *)
(* A step is one operation on the directory.  Any file operation may fail; *)
(* a poll may end in its timeout at any moment.  The guest may be reset    *)
(* and the host peer killed between any two steps; files survive both.     *)
(*                                                                         *)
(* A challenge is its generation number (the real one is 128 random bits,  *)
(* never repeated), a packet the number of the exchange that sent it; 0 is *)
(* a file that does not exist.  All requests have the same device and      *)
(* command, so the guard's header comparison cannot tell replies apart.    *)
(***************************************************************************)
EXTENDS Naturals

CONSTANTS
  Legacy,        \* 1 if dos.library is older than V36: no ACK is awaited
  MaxChallenge,  \* bound: challenges the peer issues
  MaxPackets     \* bound: requests the guest sends

ASSUME DirectoryAssumption ==
  /\ Legacy \in {0, 1}
  /\ MaxChallenge \in Nat
  /\ MaxPackets \in Nat

VARIABLES
  pc, token, next,                  \* the call in progress and its locals
  got,                              \* the packet whose reply is in scratch
  backend_open,                     \* the broker's view of the backend
  guard_inited, opened, quarantined,
  session_ready, session_challenge,
  CHALLENGE, AMBIGUOUS, RECOVER, ACK, BARRIER, to_host, to_guest, \* files
  host_up, working, held,           \* the peer, the packet it executes, the
                                    \* reply it holds back
  barrier_pc, barrier_token,        \* the barrier it is serving
  sent,                             \* how many packets were published
  consent                           \* history: the operator has authorised
                                    \* recovery since the last packet was sent
                                    \* and the last authorisation was used

callVars    == <<pc, token, next, got, backend_open>>
guardVars   == <<guard_inited, opened, quarantined>>
sessionVars == <<session_ready, session_challenge>>
controlVars == <<CHALLENGE, AMBIGUOUS, RECOVER, ACK, BARRIER>>
packetVars  == <<to_host, to_guest>>
hostVars    == <<host_up, working, held, barrier_pc, barrier_token>>
historyVars == <<sent, consent>>
vars == <<callVars, guardVars, sessionVars, controlVars, packetVars, hostVars,
          historyVars>>

Flag == {0, 1}
PCs  == {"idle", "quiesce", "permit", "discard_ack", "barrier", "await_ack",
         "await_challenge", "forget", "open_failed",
         "check", "retire", "mark", "send", "unmark", "await_reply",
         "validate", "complete", "close"}

Init ==
  /\ pc = "idle" /\ token = 0 /\ next = 0 /\ got = 0 /\ backend_open = 0
  /\ guard_inited = 0 /\ opened = 0 /\ quarantined = 0
  /\ session_ready = 0 /\ session_challenge = 0
  /\ CHALLENGE = 0 /\ AMBIGUOUS = 0 /\ RECOVER = 0 /\ ACK = 0 /\ BARRIER = {}
  /\ to_host = 0 /\ to_guest = 0
  /\ host_up = 0 /\ working = 0 /\ held = 0
  /\ barrier_pc = "none" /\ barrier_token = 0
  /\ sent = 0 /\ consent = 0

\* Control passes to p, with nothing else of the call's locals changed.
Goto(p) == pc' = p /\ UNCHANGED <<token, next, got, backend_open>>

\* A record that is discarded is gone, or still there when that fails.
MayDiscard(file) == {0, file}

-----------------------------------------------------------------------------
(* backend_open(): the guard starts quarantined and must be recovered.     *)
(* Without a directory or an IDENTITY the call returns before any change.  *)

BackendOpen ==
  /\ pc = "idle" /\ backend_open = 0
  /\ guard_inited' = 1
  /\ quarantined' = IF guard_inited = 1 THEN quarantined ELSE 1
  /\ \/ opened' = 1 /\ Goto("quiesce")
     \/ opened' = opened /\ Goto("idle")  \* directory_open() failed
  /\ UNCHANGED <<sessionVars, controlVars, packetVars, hostVars, historyVars>>

\* directory_quiesce() up to its reading of CHALLENGE.
QuiesceBegin ==
  /\ pc = "quiesce"
  /\ session_ready' = 0
  /\ \/ /\ CHALLENGE # 0
        /\ token' = CHALLENGE
        /\ pc' = "permit"
     \/ /\ pc' = "open_failed"
        /\ UNCHANGED token
  /\ UNCHANGED <<next, got, backend_open, guardVars, session_challenge,
                 controlVars, packetVars, hostVars, historyVars>>

\* With AMBIGUOUS on disk the operator's RECOVER must name this challenge,
\* and is used up before any proof is asked for.
QuiescePermit ==
  /\ pc = "permit"
  /\ \/ AMBIGUOUS = 0 /\ Goto("discard_ack") /\ UNCHANGED <<RECOVER, consent>>
     \/ /\ AMBIGUOUS # 0 /\ RECOVER = token
        /\ RECOVER' = 0 /\ consent' = 0
        /\ Goto("discard_ack")
     \/ /\ AMBIGUOUS # 0
        /\ RECOVER' \in MayDiscard(RECOVER)
        /\ Goto("open_failed") /\ UNCHANGED consent
  /\ UNCHANGED <<guardVars, sessionVars, CHALLENGE, AMBIGUOUS, ACK, BARRIER,
                 packetVars, hostVars, sent>>

QuiesceDiscardAck ==
  /\ pc = "discard_ack"
  /\ \/ ACK' = 0 /\ Goto("barrier")
     \/ ACK' \in MayDiscard(ACK) /\ Goto("open_failed")
  /\ UNCHANGED <<guardVars, sessionVars, CHALLENGE, AMBIGUOUS, RECOVER,
                 BARRIER, packetVars, hostVars, historyVars>>

\* Bug: the peer's answer is not waited for.
BugQuiesceNoWait ==
  /\ pc = "barrier"
  /\ BARRIER' = BARRIER \cup {token}
  /\ pc' = "forget" /\ next' = token
  /\ UNCHANGED <<token, got, backend_open, guardVars, sessionVars, CHALLENGE,
                 AMBIGUOUS, RECOVER, ACK, packetVars, hostVars, historyVars>>

\* V34 does not look for the peer's answer: it waits ten ticks and goes on.
QuiesceBarrier ==
  /\ pc = "barrier"
  /\ \/ /\ BARRIER' = BARRIER \cup {token}
        /\ \/ Legacy = 0 /\ Goto("await_ack")
           \/ /\ Legacy = 1
              /\ pc' = "forget" /\ next' = token
              /\ UNCHANGED <<token, got, backend_open>>
     \/ BARRIER' = BARRIER /\ Goto("open_failed")
  /\ UNCHANGED <<guardVars, sessionVars, CHALLENGE, AMBIGUOUS, RECOVER, ACK,
                 packetVars, hostVars, historyVars>>

\* Bug: a rotated challenge alone is taken for proof.
BugAckNotChecked ==
  /\ pc = "await_ack"
  /\ Goto("await_challenge") \/ Goto("open_failed")
  /\ UNCHANGED <<guardVars, sessionVars, controlVars, packetVars, hostVars,
                 historyVars>>

QuiesceAck ==
  /\ pc = "await_ack"
  /\ \/ ACK = token /\ Goto("await_challenge")
     \/ Goto("open_failed")                     \* timeout
  /\ UNCHANGED <<guardVars, sessionVars, controlVars, packetVars, hostVars,
                 historyVars>>

QuiesceChallenge ==
  /\ pc = "await_challenge"
  /\ \/ /\ CHALLENGE # token
        /\ next' = CHALLENGE /\ pc' = "forget"
     \/ /\ CHALLENGE = token
        /\ pc' = "await_ack" /\ UNCHANGED next
  /\ UNCHANGED <<token, got, backend_open, guardVars, sessionVars,
                 controlVars, packetVars, hostVars, historyVars>>

\* The proof is in: the old uncertainty goes, and the guard lets packets by.
QuiesceForget ==
  /\ pc = "forget"
  /\ \/ /\ AMBIGUOUS' = 0
        /\ session_challenge' = next /\ session_ready' = 1
        /\ quarantined' = 0
        /\ backend_open' = 1 /\ pc' = "idle"
     \/ /\ pc' = "open_failed"
        /\ UNCHANGED <<AMBIGUOUS, sessionVars, quarantined, backend_open>>
  /\ UNCHANGED <<token, next, got, guard_inited, opened, CHALLENGE, RECOVER,
                 ACK, BARRIER, packetVars, hostVars, historyVars>>

\* fn_packet_backend_recover() failed: quarantined, and closed again.
OpenFailed ==
  /\ pc = "open_failed"
  /\ quarantined' = 1
  /\ opened' = 0
  /\ to_host' \in MayDiscard(to_host) /\ to_guest' \in MayDiscard(to_guest)
  /\ Goto("idle")
  /\ UNCHANGED <<guard_inited, sessionVars, controlVars, hostVars,
                 historyVars>>

-----------------------------------------------------------------------------
(* backend_exchange(), fn_packet_backend_exchange(), directory_transfer(). *)

\* Quarantine is entered before the adapter can send anything.
BackendExchange ==
  /\ pc = "idle" /\ backend_open = 1
  /\ sent < MaxPackets
  /\ \/ /\ opened = 1 /\ quarantined = 0
        /\ quarantined' = 1
        /\ Goto("check")
     \/ /\ opened = 0 \/ quarantined = 1
        /\ Goto("close") /\ UNCHANGED quarantined
  /\ UNCHANGED <<guard_inited, opened, sessionVars, controlVars, packetVars,
                 hostVars, historyVars>>

TransferCheck ==
  /\ pc = "check"
  /\ \/ /\ session_ready = 1 /\ AMBIGUOUS = 0
        /\ Legacy = 1 \/ CHALLENGE = session_challenge
        /\ Goto("retire")
     \/ Goto("close")      \* no session, another peer, or a file error
  /\ UNCHANGED <<guardVars, sessionVars, controlVars, packetVars, hostVars,
                 historyVars>>

\* Bug: a permission given during healthy traffic is left lying.
BugKeepPermit ==
  /\ pc = "retire"
  /\ Goto("mark")
  /\ UNCHANGED <<guardVars, sessionVars, controlVars, packetVars, hostVars,
                 historyVars>>

\* A permission given during healthy traffic is withdrawn.
TransferRetirePermit ==
  /\ pc = "retire"
  /\ \/ RECOVER' = 0 /\ Goto("mark")
     \/ RECOVER' \in MayDiscard(RECOVER) /\ Goto("close")
  /\ UNCHANGED <<guardVars, sessionVars, CHALLENGE, AMBIGUOUS, ACK, BARRIER,
                 packetVars, hostVars, historyVars>>

\* Bug: the packet is sent before the uncertainty is on disk.
BugSendUnmarked ==
  /\ pc = "mark"
  /\ Goto("send")
  /\ UNCHANGED <<guardVars, sessionVars, controlVars, packetVars, hostVars,
                 historyVars>>

\* A write that fails may leave AMBIGUOUS.tmp, which counts as AMBIGUOUS.
TransferMark ==
  /\ pc = "mark"
  /\ \/ AMBIGUOUS' = session_challenge /\ Goto("send")
     \/ AMBIGUOUS' \in {AMBIGUOUS, session_challenge} /\ Goto("close")
  /\ UNCHANGED <<guardVars, sessionVars, CHALLENGE, RECOVER, ACK, BARRIER,
                 packetVars, hostVars, historyVars>>

TransferSend ==
  /\ pc = "send"
  /\ \/ /\ to_host = 0
        /\ to_host' = sent + 1
        /\ sent' = sent + 1 /\ consent' = 0
        /\ Goto("await_reply")
     \/ Goto("unmark") /\ UNCHANGED <<to_host, historyVars>>
  /\ UNCHANGED <<guardVars, sessionVars, controlVars, to_guest, hostVars>>

\* Nothing was sent: FN_PACKET_REJECTED lifts the quarantine.
TransferUnmark ==
  /\ pc = "unmark"
  /\ \/ AMBIGUOUS' = 0 /\ quarantined' = 0
     \/ UNCHANGED <<AMBIGUOUS, quarantined>>
  /\ Goto("close")
  /\ UNCHANGED <<guard_inited, opened, sessionVars, CHALLENGE, RECOVER, ACK,
                 BARRIER, packetVars, hostVars, historyVars>>

TransferReceive ==
  /\ pc = "await_reply" /\ to_guest # 0
  /\ got' = to_guest
  /\ to_guest' = 0
  /\ pc' = "validate"
  /\ UNCHANGED <<token, next, backend_open, guardVars, sessionVars,
                 controlVars, to_host, hostVars, historyVars>>

\* Timeout, or a reply file that cannot be read: FN_PACKET_UNKNOWN.
TransferGiveUp ==
  /\ pc = "await_reply"
  /\ to_host' \in MayDiscard(to_host)
  /\ to_guest' \in MayDiscard(to_guest)
  /\ Goto("close")
  /\ UNCHANGED <<guardVars, sessionVars, controlVars, hostVars, historyVars>>

\* Length, checksum, descriptors and header are checked; a reply that fails
\* leaves the endpoint quarantined.
GuardValidate ==
  /\ pc = "validate"
  /\ \/ quarantined' = 0 /\ Goto("complete")
     \/ UNCHANGED quarantined /\ Goto("close")
  /\ UNCHANGED <<guard_inited, opened, sessionVars, controlVars, packetVars,
                 hostVars, historyVars>>

\* Bug: a marker that cannot be removed is ignored.
BugIgnoreCleanupFailure ==
  /\ pc = "complete"
  /\ \/ AMBIGUOUS' = 0
     \/ UNCHANGED AMBIGUOUS
  /\ Goto("idle")
  /\ UNCHANGED <<guardVars, sessionVars, CHALLENGE, RECOVER, ACK, BARRIER,
                 packetVars, hostVars, historyVars>>

\* The call succeeds even if the marker stays; then later calls are blocked.
ExchangeComplete ==
  /\ pc = "complete"
  /\ \/ AMBIGUOUS' = 0 /\ UNCHANGED <<quarantined, session_ready>>
     \/ quarantined' = 1 /\ session_ready' = 0 /\ UNCHANGED AMBIGUOUS
  /\ Goto("idle")
  /\ UNCHANGED <<guard_inited, opened, session_challenge, CHALLENGE, RECOVER,
                 ACK, BARRIER, packetVars, hostVars, historyVars>>

\* backend_close(): after a failed exchange, a SET command or an expunge.
BackendClose ==
  /\ pc = "close" \/ (pc = "idle" /\ backend_open = 1)
  /\ opened' = 0
  /\ to_host' \in MayDiscard(to_host) /\ to_guest' \in MayDiscard(to_guest)
  /\ backend_open' = 0 /\ pc' = "idle"
  /\ UNCHANGED <<token, next, got, guard_inited, quarantined, sessionVars,
                 controlVars, hostVars, historyVars>>

\* The device is reloaded, or the machine reset: only the files survive.
GuestRestart ==
  /\ pc' = "idle" /\ backend_open' = 0
  /\ guard_inited' = 0 /\ opened' = 0 /\ quarantined' = 0
  /\ session_ready' = 0 /\ session_challenge' = 0
  /\ UNCHANGED <<token, next, got, controlVars, packetVars, hostVars,
                 historyVars>>

-----------------------------------------------------------------------------
(* The host peer and the operator.                                         *)

\* A fresh CHALLENGE; the controls of the peer before are removed, AMBIGUOUS
\* and the packet records are not.
HostStart ==
  /\ host_up = 0 /\ CHALLENGE < MaxChallenge
  /\ host_up' = 1
  /\ CHALLENGE' = CHALLENGE + 1
  /\ ACK' = 0 /\ BARRIER' = {} /\ RECOVER' = 0
  /\ UNCHANGED <<callVars, guardVars, sessionVars, AMBIGUOUS, packetVars,
                 working, held, barrier_pc, barrier_token, historyVars>>

HostCrash ==
  /\ host_up = 1
  /\ host_up' = 0 /\ working' = 0 /\ held' = 0 /\ barrier_pc' = "none"
  /\ UNCHANGED <<callVars, guardVars, sessionVars, controlVars, packetVars,
                 barrier_token, historyVars>>

HostTake ==
  /\ host_up = 1 /\ barrier_pc = "none" /\ working = 0 /\ to_host # 0
  /\ working' = to_host /\ to_host' = 0
  /\ UNCHANGED <<callVars, guardVars, sessionVars, controlVars, to_guest,
                 host_up, held, barrier_pc, barrier_token, historyVars>>

\* The service is done: the reply is published, held back or dropped.
HostReply ==
  /\ working # 0
  /\ working' = 0
  /\ \/ to_guest' = working /\ UNCHANGED held
     \/ held' = working /\ UNCHANGED to_guest
     \/ UNCHANGED <<held, to_guest>>
  /\ UNCHANGED <<callVars, guardVars, sessionVars, controlVars, to_host,
                 host_up, barrier_pc, barrier_token, historyVars>>

HostRelease ==
  /\ held # 0 /\ barrier_pc = "none"
  /\ to_guest' = held /\ held' = 0
  /\ UNCHANGED <<callVars, guardVars, sessionVars, controlVars, to_host,
                 host_up, working, barrier_pc, barrier_token, historyVars>>

\* Between two services: a barrier that names the current challenge empties
\* the delivery, ...
HostBarrier ==
  /\ host_up = 1 /\ barrier_pc = "none" /\ working = 0
  /\ CHALLENGE \in BARRIER /\ CHALLENGE < MaxChallenge
  /\ BARRIER' = BARRIER \ {CHALLENGE}
  /\ to_host' = 0 /\ to_guest' = 0 /\ held' = 0
  /\ barrier_pc' = "rotate" /\ barrier_token' = CHALLENGE
  /\ UNCHANGED <<callVars, guardVars, sessionVars, CHALLENGE, AMBIGUOUS,
                 RECOVER, ACK, host_up, working, historyVars>>

\* ... changes the challenge, ...
HostRotate ==
  /\ barrier_pc = "rotate"
  /\ CHALLENGE' = CHALLENGE + 1
  /\ barrier_pc' = "ack"
  /\ UNCHANGED <<callVars, guardVars, sessionVars, AMBIGUOUS, RECOVER, ACK,
                 BARRIER, packetVars, host_up, working, held, barrier_token,
                 historyVars>>

\* ... and then says so.
HostAck ==
  /\ barrier_pc = "ack"
  /\ ACK' = barrier_token
  /\ barrier_pc' = "none"
  /\ UNCHANGED <<callVars, guardVars, sessionVars, CHALLENGE, AMBIGUOUS,
                 RECOVER, BARRIER, packetVars, host_up, working, held,
                 barrier_token, historyVars>>

\* Copy NATIVE:CHALLENGE NATIVE:RECOVER, when no call is in progress.
OperatorConsents ==
  /\ pc = "idle" /\ CHALLENGE # 0
  /\ RECOVER' = CHALLENGE
  /\ consent' = 1
  /\ UNCHANGED <<callVars, guardVars, sessionVars, CHALLENGE, AMBIGUOUS, ACK,
                 BARRIER, packetVars, hostVars, sent>>

-----------------------------------------------------------------------------
Quiesce  == \/ QuiesceBegin \/ QuiescePermit \/ QuiesceDiscardAck
            \/ QuiesceBarrier \/ QuiesceAck \/ QuiesceChallenge
            \/ QuiesceForget
Transfer == \/ TransferCheck \/ TransferRetirePermit \/ TransferMark
            \/ TransferSend \/ TransferUnmark \/ TransferReceive
            \/ TransferGiveUp
Guest    == \/ BackendOpen \/ Quiesce \/ OpenFailed
            \/ BackendExchange \/ Transfer \/ GuardValidate
            \/ ExchangeComplete \/ BackendClose
Host     == \/ HostStart \/ HostCrash \/ HostTake \/ HostReply \/ HostRelease
            \/ HostBarrier \/ HostRotate \/ HostAck

Next == Guest \/ GuestRestart \/ Host \/ OperatorConsents

Spec == Init /\ [][Next]_vars

-----------------------------------------------------------------------------
\* Where a call of directory_quiesce() works with the challenge it read.
Recovering == {"permit", "discard_ack", "barrier", "await_ack",
               "await_challenge", "forget"}

\* Type correctness; a recovery always has a challenge to ask about.
TypeOK ==
  /\ pc \in PCs /\ backend_open \in Flag
  /\ pc \in Recovering => token # 0
  /\ token \in Nat /\ next \in Nat /\ got \in Nat
  /\ guard_inited \in Flag /\ opened \in Flag /\ quarantined \in Flag
  /\ session_ready \in Flag /\ session_challenge \in Nat
  /\ CHALLENGE \in Nat /\ AMBIGUOUS \in Nat /\ RECOVER \in Nat /\ ACK \in Nat
  /\ BARRIER \subseteq Nat
  /\ to_host \in Nat /\ to_guest \in Nat
  /\ host_up \in Flag /\ working \in Nat /\ held \in Nat
  /\ barrier_pc \in {"none", "rotate", "ack"} /\ barrier_token \in Nat
  /\ sent \in Nat /\ consent \in Flag

\* Some packet may still be executed, or answered.
Outstanding == to_host # 0 \/ working # 0 \/ held # 0 \/ to_guest # 0

\* Whoever may still act on a packet, the guest has it on disk: the
\* uncertainty of an exchange that failed survives close, reopen, a reset of
\* the guest and a restart of the peer, until it is resolved.
UncertaintyOnDisk == Outstanding => AMBIGUOUS # 0

\* Containment: when the guest is about to publish a request, no earlier one
\* can execute any more and no old reply can arrive.
NothingOldWhenSending == pc = "send" => ~Outstanding

\* The reply a call is completed with answers that call's request, although
\* the guard compares only the device and command bytes.
ReplyAnswersRequest ==
  pc \in {"validate", "complete"} => got = sent

\* Between calls the guard lets packets pass only with no uncertainty on
\* disk: a marker that could not be removed blocks the endpoint.
GuardAgreesWithDisk ==
  pc = "idle" /\ guard_inited = 1 /\ quarantined = 0 => AMBIGUOUS = 0

\* Recovery from an unknown outcome goes ahead only on an authorisation the
\* operator gave after the last packet was sent, and that no earlier attempt
\* has used.
RecoveryNeedsFreshConsent ==
  [][pc = "permit" /\ pc' = "discard_ack" /\ AMBIGUOUS # 0 => consent = 1]_vars

-----------------------------------------------------------------------------
(* What the properties rest on (strengthenings for the proofs).            *)

\* At most one packet is anywhere, and it is the latest one sent.
OnePacket ==
  /\ \A p \in {to_host, working, held, to_guest} : p # 0 => p = sent
  /\ to_host # 0 => working = 0 /\ held = 0 /\ to_guest = 0
  /\ working # 0 => held = 0 /\ to_guest = 0
  /\ held # 0 => to_guest = 0

\* No barrier served so far, or being served, covers an outstanding packet:
\* they were for challenges older than the one its AMBIGUOUS names.
ProofsPredatePacket ==
  Outstanding =>
    /\ AMBIGUOUS # 0 /\ ACK < AMBIGUOUS
    /\ barrier_pc # "none" => barrier_token < AMBIGUOUS

\* The order of the generations the guest, the files and the peer hold.
Generations ==
  /\ token <= CHALLENGE /\ AMBIGUOUS <= CHALLENGE
  /\ session_challenge <= CHALLENGE
  /\ ACK <= token /\ \A b \in BARRIER : b <= token
  /\ barrier_pc # "none" => barrier_token <= token
  /\ session_ready = 1 => token < session_challenge
  /\ pc = "forget" => token < next /\ next <= CHALLENGE
  /\ pc \in Recovering => AMBIGUOUS <= token /\ session_ready = 0

\* What each point of a call knows about the packets.
CallKnows ==
  /\ pc \in {"await_challenge", "forget", "send", "unmark", "validate",
             "complete"} => ~Outstanding
  /\ pc \in {"validate", "complete"} => got = sent
  /\ pc \in {"retire", "mark"} => AMBIGUOUS = 0 /\ session_ready = 1
  /\ pc = "send" => AMBIGUOUS = session_challenge /\ session_ready = 1

\* The guard's quarantine covers whatever AMBIGUOUS records.
GuardBooks ==
  /\ pc # "idle" \/ backend_open = 1 => guard_inited = 1
  /\ pc \in {"check", "retire", "mark", "send", "unmark", "await_reply",
             "validate"} => quarantined = 1
  /\ guard_inited = 1 /\ quarantined = 0 /\ pc # "complete" => AMBIGUOUS = 0

\* A permission on disk is one the operator gave since the last packet.
ConsentBooks ==
  /\ RECOVER # 0 => consent = 1
  /\ pc \in {"mark", "send"} => RECOVER = 0
=============================================================================
