-------------------------- MODULE RelayProperties --------------------------
(***************************************************************************)
(* What the relay of one account promises: invariants, rules no step may   *)
(* break and what must eventually happen.                                  *)
(***************************************************************************)
EXTENDS Relay

NoteSnapshot ==
  [note : Notifications \cup {NoNotification}, status : NotificationStatus,
   payload : BOOLEAN, expiresAt : Nat]

AccountSnapshot == [status : AccountStatus \cup {"unread"}, locked : BOOLEAN]

Labels == {"idle", "accepted", "freezing", "looping", "claimed", "owned", "rejecting",
           "authorized", "sending", "sent", "maintaining", "sweeping", "expiring"}

\* Labels at which a worker may send the delivery it has in hand
Sending == {"authorized", "sending", "sent"}

CallSteps ==
  {"idle", "marking", "disabling", "listing", "next", "surveying", "weighing", "facing"}
  \cup Checks

\* A call that is about one message knows which.
CallRecord ==
  [step : CallSteps, goal : {"none", "read", "disable", "sweep"}, person : People,
   note : Notifications \cup {NoNotification}, todo : SUBSET Notifications,
   account : AccountSnapshot, left : SUBSET People, facing : People, active : BOOLEAN,
   at : Nat, barred : SUBSET People]
AboutNoNote(call) ==
  \/ call.step \in {"idle", "row", "disabling", "listing", "next"}
  \/ call.step = "account" /\ call.goal = "disable"
Call == {call \in CallRecord : AboutNoNote(call) \/ call.note \in Notifications}

AccountTypes ==
  /\ accountStatus \in AccountStatus /\ adminLocked \in BOOLEAN
  /\ partners \subseteq Partners /\ activePartners \subseteq Partners
  /\ enrolledPartners \subseteq Partners
  /\ contacts \subseteq Contacts /\ verified \subseteq Contacts

NoteTypes ==
  /\ nstatus \in [Notifications -> NotificationStatus]
  /\ payload \in [Notifications -> BOOLEAN]
  /\ releaseAt \in [Notifications -> Nat] /\ expiresAt \in [Notifications -> Nat]
  /\ cancelledAt \in [Notifications -> Nat] /\ frozenAt \in [Notifications -> Nat]
  /\ recipients \in [Notifications -> SUBSET People]
  /\ readBy \in [Notifications -> SUBSET People]

DeliveryTypes ==
  /\ dstatus \in [Deliveries -> DeliveryStatus]
  /\ startedAt \in [Deliveries -> Nat] /\ until \in [Deliveries -> Nat]
  /\ retryAt \in [Deliveries -> Nat] /\ attempts \in [Deliveries -> Nat]
  /\ tracking \in [Deliveries -> Nat]

WorkerTypes ==
  /\ pc \in [Workers -> Labels]
  /\ started \in [Workers -> Nat]
  /\ toFreeze \in [Workers -> SUBSET Notifications]
  /\ batch \in [Workers -> SUBSET Deliveries]
  /\ current \in [Workers -> Deliveries \cup {NoDelivery}]
  /\ seenAttempts \in [Workers -> Nat]
  /\ noteSeen \in [Workers -> NoteSnapshot]
  /\ accountSeen \in [Workers -> AccountSnapshot]
  /\ result \in [Workers -> {"none", "ok", "temporary", "permanent"}]
  /\ eligibleAtClaim \in [Workers -> BOOLEAN]

OtherTypes ==
  /\ clock \in Nat \ {0}
  /\ writer \in Workers \cup {NoWorker}
  /\ calls \in [Callers -> Call]
  /\ accepted \in [Deliveries -> Nat] /\ doubtful \in [Deliveries -> Nat]
  /\ overtaken \in [Deliveries -> Nat]
  /\ edits \in Nat /\ crashes \in Nat

\* Types of the tables and of each worker's locals.
TypeOK == AccountTypes /\ NoteTypes /\ DeliveryTypes /\ WorkerTypes /\ OtherTypes

-----------------------------------------------------------------------------
(* Safety. *)

\* A cancelled message is gone for good: its content is erased, its status stays
\* discarded, none of its notices was or is being sent.  Cancel and Claim race for the
\* same rows from two processes, and the freeze may come before either
\* (notifications.py: cancel, process_due).
CancelledNeverSent ==
  \A n \in Notifications : Exists(n) /\ cancelledAt[n] # 0 =>
    /\ ~payload[n] /\ nstatus[n] = "discarded"
    /\ \A c \in Contacts : /\ dstatus[<<n, c>>] \in {"none", "cancelled"}
                           /\ accepted[<<n, c>>] = 0
    /\ \A w \in Workers : pc[w] \in Sending => Note(current[w]) # n

\* No notice leaves before the message's release time, and each goes to a contact of a
\* recipient fixed at the release (process_due, _freeze_recipients).
SentOnlyAfterRelease ==
  \A d \in Deliveries : accepted[d] > 0 /\ Exists(Note(d)) =>
    /\ releaseAt[Note(d)] <= clock
    /\ frozenAt[Note(d)] >= releaseAt[Note(d)]
    /\ OwnerOf[Contact(d)] \in recipients[Note(d)]

\* SMTP accepts a notice once more than once only for an acceptance that was lost, by a
\* crash before the commit or by a reply that never came, or for a claim taken over from
\* a worker that had outlived its lease with the delivery still in hand (process_due;
\* ADR 0013 as cited by DEVELOPMENT.md knows the lost ones only).
DuplicatesExplained ==
  \A d \in Deliveries : accepted[d] <= 1 + doubtful[d] + overtaken[d]

\* The attempt counter stays within delivery_max_attempts, an open delivery has an
\* attempt left, and a worker about to send counts within the limit too.
AttemptsBounded ==
  \A d \in Deliveries :
    /\ attempts[d] <= MaxAttempts
    /\ dstatus[d] \in OpenStatus => attempts[d] < MaxAttempts
    /\ \A w \in Workers : pc[w] \in Sending /\ current[w] = d => seenAttempts[w] < MaxAttempts

\* A claimed delivery has the lease of its claim, so that it can be taken over when the
\* lease runs out; one that waits for an attempt or was delivered has none.  A late
\* delivery report or an expiry ends a delivery and leaves its lease (process_due,
\* record_permanent_delivery_failure, LifecycleService.run).
LeaseOnlyWhileClaimed ==
  \A d \in Deliveries :
    /\ dstatus[d] = "processing" => startedAt[d] # 0 /\ until[d] = startedAt[d] + Lease
    /\ dstatus[d] \in {"pending", "retry_scheduled", "delivered"} =>
         startedAt[d] = 0 /\ until[d] = 0

-----------------------------------------------------------------------------
(* What a step may never do. *)

\* Content is erased only by cancellation, at the end of its retention, or by a request or
\* pass for which every recipient had confirmed or was barred (account without access,
\* partner disabled or gone) at some moment since it began; the rows it goes by may be
\* older than the erasure (InboxService.erase_if_complete, set_partner_active,
\* LifecycleService.run, cancel).
Acts(e) == calls'[e] # calls[e] \/ (e = Scheduler /\ pc'[Scheduler] # pc[Scheduler])
KeepsContent ==
  \A n \in Notifications : Exists(n) /\ Exists(n)' /\ payload[n] /\ ~payload'[n] =>
    \/ cancelledAt'[n] # 0
    \/ expiresAt[n] <= clock
    \/ /\ recipients[n] # {}
       /\ \E e \in Callers : /\ Acts(e)
                             /\ recipients[n] \ readBy[n]
                                \subseteq calls[e].barred \cup Barred(AccountNow)'
ContentKeptForReaders == [][KeepsContent]_vars

\* Once released, a message keeps its release time and its recipients, erased content
\* does not come back, and no delivery is added.
KeepsRelease ==
  \A n \in Notifications : Exists(n)' /\ frozenAt[n] # 0 =>
    /\ frozenAt'[n] = frozenAt[n] /\ releaseAt'[n] = releaseAt[n]
    /\ recipients'[n] = recipients[n]
    /\ payload'[n] => payload[n]
    /\ \A c \in Contacts : dstatus[<<n, c>>] = "none" => dstatus'[<<n, c>>] = "none"
ReleaseIsFinal == [][KeepsRelease]_vars

\* A live lease excludes other claims: a processing delivery changes hands only after
\* its lease has run out, whatever the worker that held it does.
KeepsLeases ==
  \A d \in Deliveries :
    dstatus[d] = "processing" /\ dstatus'[d] = "processing"
    /\ startedAt'[d] # startedAt[d] => until[d] <= clock
LiveLeaseKept == [][KeepsLeases]_vars

-----------------------------------------------------------------------------
(* What must eventually happen. *)

\* Every notice reaches a final status, whichever process crashes after claiming it.
EventuallySettled ==
  \A d \in Deliveries : (dstatus[d] \in OpenStatus) ~> (dstatus[d] \notin OpenStatus)

\* No message content outlives its retention for ever, read or not, delivered or not;
\* a retention that ends after the last tick is outside the bound.
EventuallyErased ==
  \A n \in Notifications : (payload[n] /\ expiresAt[n] <= MaxClock) ~> ~payload[n]

\* A message all of whose recipients have confirmed is erased before its retention ends,
\* also when the process that took the last confirmation died before it erased
\* (InboxService.confirm_read, LifecycleService.run).  Shows something where the
\* retention does not end within the bound.
ReadThenErased ==
  \A n \in Notifications :
    (payload[n] /\ recipients[n] # {} /\ recipients[n] \subseteq readBy[n]) ~> ~payload[n]

-----------------------------------------------------------------------------
(* What the proofs need besides the types (RelayProofs). *)

\* A worker past its claim has a delivery in hand.
CurrentKnown == \A w \in Workers : pc[w] \in InHand => current[w] \in Deliveries

InNobodysHand(d) == \A w \in Workers : pc[w] \in InHand => current[w] # d

\* Rows go together: a delivery exists only with its message, and while a worker sends,
\* holding the write lock, nobody can delete what it sends.
RowsTogether == \A d \in Deliveries : dstatus[d] # "none" => Exists(Note(d))
LockHeld ==
  \A w \in Workers : pc[w] \in {"sending", "sent"} =>
    writer = w /\ dstatus[current[w]] # "none"

StartedKnown == \A w \in Workers : pc[w] = "freezing" => started[w] # 0

\* A message that does not exist yet has no history; one without fixed recipients has no
\* deliveries; an existing delivery that was never claimed is in nobody's hand; what the
\* maintenance pass cancels belongs to released messages; a cancelled message has no
\* content and only cancelled deliveries, none in hand; a delivery report may still come
\* for a claimed delivery of a released message only.
FreshNotes ==
  accountStatus # "deleted" =>
    \A n \in Notifications : ~Exists(n) => cancelledAt[n] = 0 /\ frozenAt[n] = 0
UnreleasedUnsent ==
  \A d \in Deliveries : frozenAt[Note(d)] = 0 =>
    dstatus[d] = "none" /\ accepted[d] = 0 /\ InNobodysHand(d)
UnclaimedUnsent ==
  \A d \in Deliveries : Exists(Note(d)) /\ dstatus[d] \in {"none", "pending"} =>
    accepted[d] = 0 /\ InNobodysHand(d)
SweepReleased ==
  pc[Scheduler] = "expiring" =>
    \A d \in batch[Scheduler] : frozenAt[Note(d)] # 0 /\ Note(d) \in toFreeze[Scheduler]
CancelledErased ==
  \A n \in Notifications : Exists(n) /\ cancelledAt[n] # 0 =>
    ~payload[n] /\ nstatus[n] = "discarded"
CancelledUnsent ==
  \A d \in Deliveries : Exists(Note(d)) /\ cancelledAt[Note(d)] # 0 =>
    dstatus[d] \in {"none", "cancelled"} /\ accepted[d] = 0 /\ InNobodysHand(d)

TrackedReleased ==
  \A d \in Deliveries : tracking[d] > 0 =>
    /\ Exists(Note(d)) /\ cancelledAt[Note(d)] = 0 /\ frozenAt[Note(d)] # 0
    /\ dstatus[d] \notin {"none", "pending"}

CancelInv == /\ RowsTogether /\ LockHeld /\ StartedKnown
             /\ FreshNotes /\ UnreleasedUnsent /\ UnclaimedUnsent
             /\ SweepReleased /\ CancelledErased /\ CancelledUnsent /\ TrackedReleased

-----------------------------------------------------------------------------
(* What the proofs about releases, leases and attempts need (DeliveryProofs). *)

\* The clock of a cycle was read at its start, not later than now.
StartedPast  == \A w \in Workers : started[w] <= clock
CycleStarted ==
  \A w \in Workers : pc[w] \in {"freezing", "looping"} \cup InHand => started[w] # 0

\* Rows: nothing is left of a deleted account; content belongs to a message and is kept
\* until its retention ends, which follows the release; before the release a message has
\* neither recipients nor leases nor attempts, afterwards it keeps those of the release.
DeletedGone  == accountStatus = "deleted" => \A n \in Notifications : ~Exists(n)
ContentKnown ==
  \A n \in Notifications : payload[n] => Exists(n) /\ releaseAt[n] <= expiresAt[n]
UnreleasedFree ==
  \A n \in Notifications : frozenAt[n] = 0 =>
    /\ recipients[n] = {}
    /\ \A c \in Contacts : /\ startedAt[<<n, c>>] = 0 /\ until[<<n, c>>] = 0
                           /\ attempts[<<n, c>>] = 0
ReleasedDue ==
  \A n \in Notifications : frozenAt[n] # 0 /\ Exists(n) =>
    releaseAt[n] <= frozenAt[n] /\ frozenAt[n] <= clock
ToRecipients ==
  \A d \in Deliveries : dstatus[d] # "none" => OwnerOf[Contact(d)] \in recipients[Note(d)]

\* A worker that has read the attempt counter may make one more attempt.
SeenBounded ==
  \A w \in Workers : pc[w] \in InHand \ {"claimed"} => seenAttempts[w] < MaxAttempts

\* What the maintenance pass has read is past its retention, and goes only with the account.
SweepDue ==
  pc[Scheduler] = "expiring" =>
    /\ \A n \in toFreeze[Scheduler] :
         /\ releaseAt[n] <= clock /\ expiresAt[n] <= clock
         /\ accountStatus # "deleted" => Exists(n)
    /\ \A d \in batch[Scheduler] : Exists(Note(d)) => dstatus[d] # "none"

RowInv  == /\ DeletedGone /\ ContentKnown /\ UnreleasedFree /\ ReleasedDue /\ ToRecipients
           /\ LeaseOnlyWhileClaimed /\ AttemptsBounded
HandInv == StartedPast /\ CycleStarted /\ SeenBounded /\ SweepDue

\* Workers that may still bring an acceptance of the delivery, and the acceptances that
\* losses and takeovers of its claim account for
Trying(d) ==
  {w \in Workers : /\ pc[w] \in InHand /\ current[w] = d
                   /\ ~(pc[w] = "sent" /\ result[w] = "ok")}
Excess(d) == doubtful[d] + overtaken[d]

\* Each worker that tries is accounted for.  A delivery that waits for an attempt leaves
\* room for one more, and so does a claimed one unless the worker that claimed it is still
\* at it: only then is a claim a takeover.
TriesExplained == \A d \in Deliveries : accepted[d] + Cardinality(Trying(d)) <= 1 + Excess(d)
RoomForTry(d)  == accepted[d] + Cardinality(Trying(d)) <= Excess(d)
ClaimAtWork(d) ==
  \E w \in Workers : pc[w] \in InHand /\ current[w] = d /\ started[w] = startedAt[d]
RoomWhileOpen ==
  \A d \in Deliveries :
    /\ dstatus[d] \in {"pending", "retry_scheduled"} => RoomForTry(d)
    /\ dstatus[d] = "processing" => RoomForTry(d) \/ ClaimAtWork(d)

SendInv == TriesExplained /\ RoomWhileOpen

-----------------------------------------------------------------------------
(* What the proofs about content need: whatever a call goes by was so while it ran. *)

\* The maintenance pass only erases.
SweepCalls ==
  /\ calls[Scheduler].step \in {"idle", "next", "surveying", "weighing", "facing"}
  /\ calls[Scheduler].step # "idle" => pc[Scheduler] = "sweeping"

\* Barred during a call are those barred now, everybody when the account row at hand has
\* no access, the partner a request has disabled, and whoever was found inactive.
BarredWitnessed(e) == calls[e].step # "idle" => Barred(AccountNow) \subseteq calls[e].barred
RowsWitnessed(e) ==
  \A account \in {calls[e].account, Kept(e)} \ {NoAccountSeen} :
    calls[e].step # "idle" /\ ~Allows(account) => People \subseteq calls[e].barred
DisabledWitnessed(e) ==
  calls[e].goal = "disable" =>
    \/ calls[e].step \in {"idle", "account", "row"}
    \/ calls[e].step = "disabling" /\ calls[e].active
    \/ calls[e].person \in calls[e].barred
FacedWitnessed(e) ==
  calls[e].step = "facing" => calls[e].active \/ calls[e].facing \in calls[e].barred

\* Who has not confirmed the message being weighed is still to be looked up or was barred.
UnreadWitnessed(e) ==
  LET n == calls[e].note IN
  calls[e].step \in {"weighing", "facing"} =>
    /\ frozenAt[n] # 0
    /\ Exists(n) => recipients[n] # {}
    /\ recipients[n] \ readBy[n] \subseteq calls[e].left \cup calls[e].barred

CallExplained(e) ==
  /\ calls[e].at <= clock
  /\ BarredWitnessed(e) /\ RowsWitnessed(e) /\ DisabledWitnessed(e) /\ FacedWitnessed(e)
  /\ UnreadWitnessed(e)

CallInv == SweepCalls /\ \A e \in Callers : CallExplained(e)

-----------------------------------------------------------------------------
(* Statements of the documentation and the tests that the code breaks. *)

\* OPERATIONS.md:211-213: content is erased before its retention ends only when no
\* still-active recipient is left who has not confirmed.  A partner enabled again between
\* the disabling and the erasure that follows it loses the message unread.
KeepsContentOfActive ==
  \A n \in Notifications : Exists(n) /\ Exists(n)' /\ payload[n] /\ ~payload'[n] =>
    \/ cancelledAt'[n] # 0
    \/ expiresAt[n] <= clock
    \/ recipients[n] \ readBy[n] \subseteq Barred(AccountNow)'
ErasedOnlyWhenActiveHaveRead == [][KeepsContentOfActive]_vars

\* A recipient confirms only what can still be read (InboxService.recipient asks for
\* content and an unexpired message).
ConfirmsContent ==
  \A n \in Notifications : readBy'[n] # readBy[n] => payload[n]
ReadOnlyWithContent == [][ConfirmsContent]_vars

\* THREAT_MODEL.md:157-160: a lock, a withdrawal or a deletion cannot commit between
\* the send-time check and the SMTP attempt.
AuthorizedWhileSending ==
  \A w \in Workers : pc[w] = "sending" =>
    /\ Allows(AccountNow)
    /\ Contact(current[w]) \in contacts \cap verified
    /\ payload[Note(current[w])]

\* THREAT_MODEL.md:82: every SMTP attempt rechecks the account, so a lock that was
\* committed before the delivery was even claimed stops it.
LockedBeforeClaimNotSent ==
  \A w \in Workers : pc[w] = "sending" => eligibleAtClaim[w]

\* tests/test_services.py:473, 838, 952, 1032: after processing, the notification's
\* status says what became of its deliveries.
StatusReflectsDeliveries ==
  \A n \in Notifications :
    /\ frozenAt[n] # 0 /\ payload[n]
    /\ \E c \in Contacts : dstatus[<<n, c>>] # "none"
    /\ \A c \in Contacts : dstatus[<<n, c>>] \notin OpenStatus
    /\ \A w \in Workers : pc[w] = "idle"
    => nstatus[n] = Aggregate(n)
=============================================================================
