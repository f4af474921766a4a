------------------------------- MODULE Relay -------------------------------
(***************************************************************************)
(* One account of a SilentRelay installation: messages of trusted persons  *)
(* wait for their release time, are released to a fixed set of recipients, *)
(* announced by neutral e-mails and erased.  The web processes and the one *)
(* scheduler process share a SQLite database.                              *)
(*                                                                         *)
(* A step is what the database makes atomic: one autocommit read, or one   *)
(* committed transaction.  A transaction that calls SMTP holds the         *)
(* database's single write lock (writer) from its first flush to its       *)
(* commit; every other write waits for it.  Rows of the ORM session that a *)
(* worker reuses without reading them again are part of its state          *)
(* (noteSeen, accountSeen).                                                *)
(*                                                                         *)
(* Times are ticks of one clock that starts at 1; 0 stands for SQL NULL.   *)
(*                                                                         *)
(* An operator Mut... is a faulty variant of the definition that follows   *)
(* it.  Nothing uses it: it stands in for that definition to show that a   *)
(* property notices the fault.                                             *)
(***************************************************************************)
EXTENDS Naturals, FiniteSets

CONSTANTS
  Notifications,   \* identities of messages (one per consumed submission)
  Contacts,        \* identities of e-mail contact methods
  Partners,        \* identities of partners
  Owner,           \* the account holder
  OwnerOf,         \* whose contact method it is
  Scheduler,       \* the scheduler process
  WebWorkers,      \* request threads that confirm a submission
  Visitors,        \* request threads that confirm a reading or disable a partner
  Delays,          \* values the waiting period takes (system setting)
  Retentions,      \* values its retention after the release takes (system setting)
  Lease,           \* PROCESSING_LEASE
  RetryDelay,      \* BACKOFF_MINUTES: delay after the k-th attempt
  MaxAttempts,     \* settings.delivery_max_attempts
  BatchLimit,      \* deliveries one cycle takes
  Staleness,       \* bound: age of the clock reading a request acts on
  MaxClock,        \* bound: last tick
  Settling,        \* bound: ticks left after the release of an accepted message
  MaxCycle,        \* bound: ticks one cycle of process_due lasts
  MaxEdits,        \* bound: administrative changes and bounces
  MaxCrashes,      \* bound: process failures
  NoWorker, NoDelivery, NoNotification

People     == {Owner} \cup Partners
Workers    == {Scheduler} \cup WebWorkers
Callers    == {Scheduler} \cup Visitors
Deliveries == Notifications \X Contacts

Note(d)    == d[1]
Contact(d) == d[2]

OpenStatus     == {"pending", "processing", "retry_scheduled"}
TerminalStatus == {"delivered", "permanent_failure", "cancelled"}
DeliveryStatus == {"none"} \cup OpenStatus \cup TerminalStatus
NotificationStatus ==
  {"none", "queued", "delivered", "partially_delivered", "failed", "discarded"}
AccountStatus == {"active", "overdue", "disabled", "deleted"}

ASSUME IdentityAssumption ==
  /\ Owner \notin Partners
  /\ OwnerOf \in [Contacts -> People]
  /\ IsFiniteSet(WebWorkers)
  /\ Scheduler \notin WebWorkers \cup Visitors
  /\ NoWorker \notin Workers
  /\ NoDelivery \notin Deliveries
  /\ NoNotification \notin Notifications

ASSUME NumberAssumption ==
  /\ Delays \subseteq Nat
  /\ Retentions \subseteq Nat \ {0}
  /\ {Lease, MaxAttempts, BatchLimit} \subseteq Nat \ {0}
  /\ RetryDelay \in [1..MaxAttempts -> Nat \ {0}]
  /\ {Staleness, MaxClock, Settling, MaxCycle, MaxEdits, MaxCrashes} \subseteq Nat

VARIABLES
  clock,
  writer,            \* holder of the database's write lock, or NoWorker
  \* accounts, partners, contact_methods
  accountStatus,
  adminLocked,
  partners,          \* partner rows that exist
  activePartners,    \* is_active
  enrolledPartners,  \* credential with enrolled_at and password_hash
  contacts,          \* contact rows that exist
  verified,          \* is_verified
  \* notifications, notification_recipients
  nstatus, payload, releaseAt, expiresAt, cancelledAt, frozenAt,
  recipients, readBy,
  \* deliveries, and the open rows of email_delivery_tracking that name one
  dstatus, startedAt, until, retryAt, attempts, tracking,
  \* locals of process_due and LifecycleService.run in each worker
  pc, started, toFreeze, batch, current, seenAttempts, noteSeen, accountSeen,
  result,
  \* locals of confirm_read, set_partner_active and erase_if_complete
  calls,
  \* history: SMTP acceptances, those whose reply or commit was lost, claims taken
  \* over from a worker that still had the delivery in hand, and whether the account
  \* could be contacted when the worker claimed
  accepted, doubtful, overtaken, eligibleAtClaim,
  \* counters of the bounds
  edits, crashes

accountVars  == <<accountStatus, adminLocked, partners, activePartners,
                  enrolledPartners, contacts, verified>>
noteVars     == <<nstatus, payload, releaseAt, expiresAt, cancelledAt, frozenAt,
                  recipients, readBy>>
leaseVars    == <<startedAt, until, retryAt, attempts, tracking>>
deliveryVars == <<dstatus, leaseVars>>
localVars    == <<started, toFreeze, batch, current, seenAttempts, noteSeen,
                  accountSeen, result, eligibleAtClaim>>
workerVars   == <<pc, localVars>>
historyVars  == <<accepted, doubtful, overtaken>>
boundVars    == <<edits, crashes>>
vars == <<clock, writer, accountVars, noteVars, deliveryVars, workerVars,
          calls, historyVars, boundVars>>

-----------------------------------------------------------------------------
(* What the code reads. *)

\* Account.allows_access
Allows(account) == account.status \in {"active", "overdue"} /\ ~account.locked
AccountNow      == [status |-> accountStatus, locked |-> adminLocked]
NoAccountSeen   == [status |-> "unread", locked |-> FALSE]

NoteNow(n) == [note |-> n, status |-> nstatus[n], payload |-> payload[n],
               expiresAt |-> expiresAt[n]]
NoNoteSeen == [note |-> NoNotification, status |-> "none", payload |-> FALSE,
               expiresAt |-> 0]

\* Partners that are recipients of what is released now
EntitledPartners == partners \cap activePartners \cap enrolledPartners

\* db.get: a row of the session's identity map is not read again
NoteRead(w, n) == IF noteSeen[w].note = n THEN noteSeen[w] ELSE NoteNow(n)
AccountRead(w) == IF accountSeen[w] # NoAccountSeen THEN accountSeen[w] ELSE AccountNow

Exists(n) == nstatus[n] # "none"

MutReleasedEarly(n, t) == Exists(n) /\ cancelledAt[n] = 0
Released(n, t) == Exists(n) /\ releaseAt[n] <= t /\ cancelledAt[n] = 0

MutClaimableStarted(d, t) ==
  \/ dstatus[d] \in {"pending", "retry_scheduled"} /\ retryAt[d] <= t
  \/ dstatus[d] = "processing" /\ startedAt[d] < t
Claimable(d, t) ==
  \/ dstatus[d] \in {"pending", "retry_scheduled"} /\ retryAt[d] <= t
  \/ dstatus[d] = "processing" /\ until[d] <= t

MutDueWithContent(d, t) == Released(Note(d), t) /\ Claimable(d, t) /\ payload[Note(d)]
Due(d, t) == Released(Note(d), t) /\ Claimable(d, t)

Freezable(t) == {n \in Notifications : /\ Released(n, t) /\ payload[n]
                                       /\ expiresAt[n] > t /\ frozenAt[n] = 0}

\* update_notification_status, over the rows the database holds
Aggregate(n) ==
  LET statuses == {dstatus[<<n, c>>] : c \in Contacts} \ {"none"}
  IN  IF statuses \subseteq {"cancelled"} THEN "discarded"
      ELSE IF statuses = {"delivered"} THEN "delivered"
      ELSE IF "delivered" \in statuses THEN "partially_delivered"
      ELSE IF statuses \subseteq TerminalStatus THEN "failed"
      ELSE "queued"

\* The session writes the column only if it differs from the row it has loaded
StatusWritten(w, n) ==
  IF Aggregate(n) # noteSeen[w].status THEN Aggregate(n) ELSE nstatus[n]

\* People whose confirmation erase_if_complete does not wait for
Barred(account) ==
  {p \in People : ~Allows(account) \/ p \in Partners \ (partners \cap activePartners)}

Erasable(n, account) ==
  /\ payload[n] /\ recipients[n] # {}
  /\ recipients[n] \ readBy[n] \subseteq Barred(account)

\* Messages LifecycleService.run finds complete, and past their retention
MutCompleteAtExpiry(account, now) ==
  {n \in Notifications : Erasable(n, account) /\ expiresAt[n] <= now}
Complete(account, now) ==
  {n \in Notifications : Erasable(n, account) /\ releaseAt[n] <= now}

MutExpiredUndelivered(now) ==
  {n \in Notifications : payload[n] /\ expiresAt[n] <= now /\ nstatus[n] # "delivered"}
Expired(now) == {n \in Notifications : payload[n] /\ expiresAt[n] <= now}

\* No delivery of the message was ever claimed
MutNothingDelivered(n) == \A c \in Contacts : dstatus[<<n, c>>] # "delivered"
NothingStarted(n) == \A c \in Contacts : dstatus[<<n, c>>] \in {"none", "pending"}

\* Labels at which a worker has a delivery in hand
InHand == {"claimed", "owned", "rejecting", "authorized", "sending", "sent"}

\* A call of confirm_read, of set_partner_active or of the maintenance pass: what it
\* reads or does next, for whom and which message, the rows its session keeps, and
\* (history) who was barred at some moment since it began.
NoCall ==
  [step |-> "idle", goal |-> "none", person |-> Owner, note |-> NoNotification,
   todo |-> {},                        \* messages it erases afterwards, if complete
   account |-> NoAccountSeen,          \* account row the session keeps
   left |-> {},                        \* unread recipients not looked up yet
   facing |-> Owner, active |-> FALSE, \* the one looked up, and the row's is_active
   at |-> 0, barred |-> {}]

\* Every call under way has seen what a step has just brought about
Witnessed ==
  [e \in Callers |-> IF calls[e] = NoCall THEN NoCall
                     ELSE [calls[e] EXCEPT !.barred = @ \cup Barred(AccountNow)']]

-----------------------------------------------------------------------------
Init ==
  /\ clock = 1
  /\ writer = NoWorker
  /\ accountStatus = "active" /\ adminLocked = FALSE
  /\ partners = Partners /\ activePartners = Partners
  /\ enrolledPartners \in SUBSET Partners
  /\ contacts = Contacts
  /\ verified \in SUBSET Contacts
  /\ nstatus = [n \in Notifications |-> "none"]
  /\ payload = [n \in Notifications |-> FALSE]
  /\ releaseAt = [n \in Notifications |-> 0]
  /\ expiresAt = [n \in Notifications |-> 0]
  /\ cancelledAt = [n \in Notifications |-> 0]
  /\ frozenAt = [n \in Notifications |-> 0]
  /\ recipients = [n \in Notifications |-> {}]
  /\ readBy = [n \in Notifications |-> {}]
  /\ dstatus = [d \in Deliveries |-> "none"]
  /\ startedAt = [d \in Deliveries |-> 0]
  /\ until = [d \in Deliveries |-> 0]
  /\ retryAt = [d \in Deliveries |-> 0]
  /\ attempts = [d \in Deliveries |-> 0]
  /\ tracking = [d \in Deliveries |-> 0]
  /\ pc = [w \in Workers |-> "idle"]
  /\ started = [w \in Workers |-> 0]
  /\ toFreeze = [w \in Workers |-> {}]
  /\ batch = [w \in Workers |-> {}]
  /\ current = [w \in Workers |-> NoDelivery]
  /\ seenAttempts = [w \in Workers |-> 0]
  /\ noteSeen = [w \in Workers |-> NoNoteSeen]
  /\ accountSeen = [w \in Workers |-> NoAccountSeen]
  /\ result = [w \in Workers |-> "none"]
  /\ eligibleAtClaim = [w \in Workers |-> FALSE]
  /\ calls = [e \in Callers |-> NoCall]
  /\ accepted = [d \in Deliveries |-> 0]
  /\ doubtful = [d \in Deliveries |-> 0]
  /\ overtaken = [d \in Deliveries |-> 0]
  /\ edits = 0 /\ crashes = 0

Unlocked == writer = NoWorker

Goto(w, label) == pc' = [pc EXCEPT ![w] = label]

\* The process is gone and with it the session; its transaction is rolled back.
Abandon(w) ==
  /\ Goto(w, "idle")
  /\ started' = [started EXCEPT ![w] = 0]
  /\ toFreeze' = [toFreeze EXCEPT ![w] = {}]
  /\ batch' = [batch EXCEPT ![w] = {}]
  /\ current' = [current EXCEPT ![w] = NoDelivery]
  /\ seenAttempts' = [seenAttempts EXCEPT ![w] = 0]
  /\ noteSeen' = [noteSeen EXCEPT ![w] = NoNoteSeen]
  /\ accountSeen' = [accountSeen EXCEPT ![w] = NoAccountSeen]
  /\ result' = [result EXCEPT ![w] = "none"]
  /\ eligibleAtClaim' = [eligibleAtClaim EXCEPT ![w] = FALSE]
  /\ writer' = IF writer = w THEN NoWorker ELSE writer
  /\ calls' = [e \in Callers |-> IF e = w THEN NoCall ELSE calls[e]]

\* Leave a delivery for the next one of the batch
NextDelivery(w) ==
  /\ Goto(w, "looping")
  /\ current' = [current EXCEPT ![w] = NoDelivery]
  /\ seenAttempts' = [seenAttempts EXCEPT ![w] = 0]
  /\ result' = [result EXCEPT ![w] = "none"]
  /\ eligibleAtClaim' = [eligibleAtClaim EXCEPT ![w] = FALSE]
  /\ UNCHANGED <<started, toFreeze, batch, accountSeen>>

-----------------------------------------------------------------------------
(* A trusted person confirms or cancels a message. *)

\* The handler goes on to process_due; the freeze pass accept makes for an
\* elapsed waiting period is the first pass of that cycle.
Accept(w, n) ==
  /\ pc[w] = "idle" /\ w \in WebWorkers
  /\ Unlocked
  /\ Allows(AccountNow)
  /\ ~Exists(n)
  /\ \E delay \in Delays, retention \in Retentions :
       /\ clock + delay + Settling <= MaxClock
       /\ releaseAt' = [releaseAt EXCEPT ![n] = clock + delay]
       /\ expiresAt' = [expiresAt EXCEPT ![n] = clock + delay + retention]
  /\ nstatus' = [nstatus EXCEPT ![n] = "queued"]
  /\ payload' = [payload EXCEPT ![n] = TRUE]
  /\ Goto(w, "accepted")
  /\ UNCHANGED <<clock, writer, accountVars, cancelledAt, frozenAt, recipients,
                 readBy, deliveryVars, localVars, calls, historyVars, boundVars>>

\* The handler reads its clock before its UPDATE gets the write lock.
Cancel(n) ==
  /\ Unlocked
  /\ nstatus[n] = "queued" /\ cancelledAt[n] = 0
  /\ \E now \in 1..clock : /\ clock - now <= Staleness
                           /\ releaseAt[n] > now
                           /\ cancelledAt' = [cancelledAt EXCEPT ![n] = now]
  /\ NothingStarted(n)
  /\ nstatus' = [nstatus EXCEPT ![n] = "discarded"]
  /\ payload' = [payload EXCEPT ![n] = FALSE]
  /\ dstatus' = [d \in Deliveries |->
                   IF Note(d) = n /\ dstatus[d] = "pending" THEN "cancelled"
                   ELSE dstatus[d]]
  /\ UNCHANGED <<clock, writer, accountVars, releaseAt, expiresAt, frozenAt,
                 recipients, readBy, leaseVars, workerVars, calls, historyVars,
                 boundVars>>

-----------------------------------------------------------------------------
(* DeliveryService.process_due: freeze the recipients of released messages. *)

StartCycle(w) ==
  /\ pc[w] = IF w = Scheduler THEN "idle" ELSE "accepted"
  /\ Goto(w, "freezing")
  /\ started' = [started EXCEPT ![w] = clock]
  /\ toFreeze' = [toFreeze EXCEPT ![w] = Freezable(clock)]
  /\ UNCHANGED <<clock, writer, accountVars, noteVars, deliveryVars, batch, current,
                 seenAttempts, noteSeen, accountSeen, result, eligibleAtClaim,
                 calls, historyVars, boundVars>>

\* The conditional UPDATE that claims the release
MutStillReleased(n, t) == Released(n, t) /\ payload[n]
StillFreezable(n, t) == Released(n, t) /\ payload[n] /\ frozenAt[n] = 0

Freeze(w, n) ==
  /\ pc[w] = "freezing" /\ n \in toFreeze[w]
  /\ Unlocked
  /\ StillFreezable(n, started[w])
  /\ toFreeze' = [toFreeze EXCEPT ![w] = @ \ {n}]
  /\ nstatus' = [nstatus EXCEPT ![n] = "queued"]
  /\ frozenAt' = [frozenAt EXCEPT ![n] = started[w]]
  /\ recipients' = [recipients EXCEPT ![n] = {Owner} \cup EntitledPartners]
  /\ dstatus' = [d \in Deliveries |->
                   IF /\ Note(d) = n /\ Contact(d) \in contacts \cap verified
                      /\ OwnerOf[Contact(d)] \in {Owner} \cup EntitledPartners
                   THEN "pending" ELSE dstatus[d]]
  /\ UNCHANGED <<clock, writer, accountVars, payload, releaseAt, expiresAt,
                 cancelledAt, readBy, leaseVars, pc, started, batch, current,
                 seenAttempts, noteSeen, accountSeen, result, eligibleAtClaim,
                 calls, historyVars, boundVars>>

SkipFreeze(w, n) ==
  /\ pc[w] = "freezing" /\ n \in toFreeze[w]
  /\ ~StillFreezable(n, started[w])
  /\ toFreeze' = [toFreeze EXCEPT ![w] = @ \ {n}]
  /\ UNCHANGED <<clock, writer, accountVars, noteVars, deliveryVars, pc, started,
                 batch, current, seenAttempts, noteSeen, accountSeen, result,
                 eligibleAtClaim, calls, historyVars, boundVars>>

-----------------------------------------------------------------------------
(* process_due: list what is due, claim it, check it again, send it. *)

\* The oldest BatchLimit of what is due; the model does not order rows by age.
Batches(due) == {b \in SUBSET due : b = due \/ Cardinality(b) = BatchLimit}

ListDue(w) ==
  /\ pc[w] = "freezing" /\ toFreeze[w] = {}
  /\ \E b \in Batches({d \in Deliveries : Due(d, started[w])}) :
       /\ Cardinality(b) <= BatchLimit
       /\ batch' = [batch EXCEPT ![w] = b]
  /\ Goto(w, "looping")
  /\ UNCHANGED <<clock, writer, accountVars, noteVars, deliveryVars, started,
                 toFreeze, current, seenAttempts, noteSeen, accountSeen, result,
                 eligibleAtClaim, calls, historyVars, boundVars>>

\* A worker still has the delivery in hand although its cycle has outlived the lease
OutlivedInHand(d) ==
  \E v \in Workers : /\ pc[v] \in InHand /\ current[v] = d
                     /\ started[v] + Lease <= clock

Claim(w, d) ==
  /\ pc[w] = "looping" /\ d \in batch[w]
  /\ Unlocked
  /\ Due(d, started[w])
  /\ dstatus' = [dstatus EXCEPT ![d] = "processing"]
  /\ startedAt' = [startedAt EXCEPT ![d] = started[w]]
  /\ until' = [until EXCEPT ![d] = started[w] + Lease]
  /\ batch' = [batch EXCEPT ![w] = @ \ {d}]
  /\ current' = [current EXCEPT ![w] = d]
  /\ eligibleAtClaim' = [eligibleAtClaim EXCEPT ![w] = Allows(AccountNow)]
  /\ overtaken' = [overtaken EXCEPT ![d] = IF OutlivedInHand(d) THEN @ + 1 ELSE @]
  /\ Goto(w, "claimed")
  /\ UNCHANGED <<clock, writer, accountVars, noteVars, retryAt, attempts, tracking,
                 started, toFreeze, seenAttempts, noteSeen, accountSeen, result, calls,
                 accepted, doubtful, boundVars>>

SkipClaim(w, d) ==
  /\ pc[w] = "looping" /\ d \in batch[w]
  /\ ~Due(d, started[w])
  /\ batch' = [batch EXCEPT ![w] = @ \ {d}]
  /\ UNCHANGED <<clock, writer, accountVars, noteVars, deliveryVars, pc, started,
                 toFreeze, current, seenAttempts, noteSeen, accountSeen, result,
                 eligibleAtClaim, calls, historyVars, boundVars>>

HoldsClaim(w) ==
  /\ dstatus[current[w]] = "processing"
  /\ startedAt[current[w]] = started[w]

ReadClaim(w) ==
  /\ pc[w] = "claimed"
  /\ HoldsClaim(w)
  /\ Goto(w, "owned")
  /\ seenAttempts' = [seenAttempts EXCEPT ![w] = attempts[current[w]]]
  /\ UNCHANGED <<clock, writer, accountVars, noteVars, deliveryVars, started,
                 toFreeze, batch, current, noteSeen, accountSeen, result,
                 eligibleAtClaim, calls, historyVars, boundVars>>

LoseClaim(w) ==
  /\ pc[w] = "claimed"
  /\ ~HoldsClaim(w)
  /\ NextDelivery(w)
  /\ UNCHANGED <<clock, writer, accountVars, noteVars, deliveryVars, noteSeen,
                 calls, historyVars, boundVars>>

\* _authorized_delivery, on rows as the session sees them
Authorized(w) ==
  LET n == Note(current[w])
      c == Contact(current[w])
  IN  /\ Exists(n)
      /\ NoteRead(w, n).expiresAt > started[w]
      /\ NoteRead(w, n).payload
      /\ Allows(AccountRead(w))
      /\ c \in contacts \cap verified
      /\ OwnerOf[c] \in Partners => OwnerOf[c] \in partners \cap activePartners
      /\ OwnerOf[c] \in recipients[n]

Authorize(w) ==
  /\ pc[w] = "owned"
  /\ Goto(w, IF Authorized(w) THEN "authorized" ELSE "rejecting")
  /\ noteSeen' = [noteSeen EXCEPT ![w] =
                    IF Exists(Note(current[w])) THEN NoteRead(w, Note(current[w]))
                    ELSE NoNoteSeen]
  /\ UNCHANGED <<clock, writer, accountVars, noteVars, deliveryVars, started,
                 toFreeze, batch, current, seenAttempts, accountSeen, result,
                 eligibleAtClaim, calls, historyVars, boundVars>>

\* What update_notification_status leaves in nstatus and in the session's row.
\* It reads the other rows before this delivery's new status is flushed.
Restate(w, n) ==
  /\ nstatus' = [nstatus EXCEPT ![n] = StatusWritten(w, n)]
  /\ noteSeen' = [noteSeen EXCEPT ![w] = [@ EXCEPT !.status = Aggregate(n)]]

MutClearStart(d) ==
  startedAt' = [startedAt EXCEPT ![d] = 0] /\ UNCHANGED until
ClearLease(d) ==
  /\ startedAt' = [startedAt EXCEPT ![d] = 0]
  /\ until' = [until EXCEPT ![d] = 0]

Reject(w) ==
  LET d == current[w] IN
  /\ pc[w] = "rejecting"
  /\ Unlocked
  /\ dstatus[d] # "none"
  /\ dstatus' = [dstatus EXCEPT ![d] = "cancelled"]
  /\ retryAt' = [retryAt EXCEPT ![d] = 0]
  /\ ClearLease(d)
  /\ Restate(w, Note(d))
  /\ NextDelivery(w)
  /\ UNCHANGED <<clock, writer, accountVars, payload, releaseAt, expiresAt,
                 cancelledAt, frozenAt, recipients, readBy, attempts, tracking, calls,
                 historyVars, boundVars>>

\* The flush of attempt_count takes the write lock; nothing is visible to others
\* before the commit.
BeginSend(w) ==
  /\ pc[w] = "authorized"
  /\ Unlocked
  /\ dstatus[current[w]] # "none"
  /\ writer' = w
  /\ accountSeen' = [accountSeen EXCEPT ![w] = AccountRead(w)]
  /\ Goto(w, "sending")
  /\ UNCHANGED <<clock, accountVars, noteVars, deliveryVars, started, toFreeze,
                 batch, current, seenAttempts, noteSeen, result, eligibleAtClaim,
                 calls, historyVars, boundVars>>

\* provider.send: a temporary error may be reported for a message the server took.
Send(w) ==
  LET d == current[w] IN
  /\ pc[w] = "sending"
  /\ \E outcome \in {"ok", "temporary", "permanent"} :
       /\ result' = [result EXCEPT ![w] = outcome]
       /\ \/ outcome = "ok" /\ accepted' = [accepted EXCEPT ![d] = @ + 1]
                            /\ UNCHANGED <<doubtful, overtaken>>
          \/ outcome = "temporary" /\ accepted' = [accepted EXCEPT ![d] = @ + 1]
                                   /\ doubtful' = [doubtful EXCEPT ![d] = @ + 1]
                                   /\ UNCHANGED overtaken
          \/ outcome # "ok" /\ UNCHANGED historyVars
  /\ Goto(w, "sent")
  /\ UNCHANGED <<clock, writer, accountVars, noteVars, deliveryVars, started,
                 toFreeze, batch, current, seenAttempts, noteSeen, accountSeen,
                 eligibleAtClaim, calls, boundVars>>

MutOutcomeUnmapped(w) == result[w]
MutOutcomeLate(w) ==
  IF result[w] = "ok" THEN "delivered"
  ELSE IF result[w] = "permanent" \/ seenAttempts[w] >= MaxAttempts
       THEN "permanent_failure"
       ELSE "retry_scheduled"
Outcome(w) ==
  IF result[w] = "ok" THEN "delivered"
  ELSE IF result[w] = "permanent" \/ seenAttempts[w] + 1 >= MaxAttempts
       THEN "permanent_failure"
       ELSE "retry_scheduled"

\* A bounced contact whose row was deleted makes the flush fail (see Fail).
Commit(w) ==
  LET d == current[w] IN
  /\ pc[w] = "sent"
  /\ result[w] = "permanent" => Contact(d) \in contacts
  /\ attempts' = [attempts EXCEPT ![d] = seenAttempts[w] + 1]
  /\ dstatus' = [dstatus EXCEPT ![d] = Outcome(w)]
  /\ retryAt' = [retryAt EXCEPT ![d] =
                   CASE Outcome(w) = "delivered" -> 0
                     [] Outcome(w) = "retry_scheduled" ->
                          started[w] + RetryDelay[seenAttempts[w] + 1]
                     [] OTHER -> @]
  /\ ClearLease(d)
  /\ tracking' = [tracking EXCEPT ![d] = IF result[w] = "ok" THEN @ + 1 ELSE @]
  /\ verified' = IF result[w] = "permanent" THEN verified \ {Contact(d)} ELSE verified
  /\ Restate(w, Note(d))
  /\ writer' = NoWorker
  /\ NextDelivery(w)
  /\ UNCHANGED <<clock, accountStatus, adminLocked, partners, activePartners,
                 enrolledPartners, contacts, payload, releaseAt, expiresAt,
                 cancelledAt, frozenAt, recipients, readBy, calls, historyVars,
                 boundVars>>

\* A request ends here; the scheduler goes on to its other jobs.
FinishCycle(w) ==
  /\ pc[w] = "looping" /\ batch[w] = {}
  /\ Goto(w, IF w = Scheduler THEN "maintaining" ELSE "idle")
  /\ started' = [started EXCEPT ![w] = IF w = Scheduler THEN clock ELSE 0]
  /\ noteSeen' = [noteSeen EXCEPT ![w] = NoNoteSeen]
  /\ accountSeen' = [accountSeen EXCEPT ![w] = NoAccountSeen]
  /\ UNCHANGED <<clock, writer, accountVars, noteVars, deliveryVars, toFreeze,
                 batch, current, seenAttempts, result, eligibleAtClaim, calls,
                 historyVars, boundVars>>

-----------------------------------------------------------------------------
(* Failures. *)

Crash(w) ==
  /\ pc[w] # "idle"
  /\ crashes < MaxCrashes /\ clock + Lease <= MaxClock
  /\ crashes' = crashes + 1
  /\ doubtful' = IF pc[w] = "sent" /\ result[w] = "ok"
                 THEN [doubtful EXCEPT ![current[w]] = @ + 1] ELSE doubtful
  /\ Abandon(w)
  /\ UNCHANGED <<clock, accountVars, noteVars, deliveryVars, accepted, overtaken, edits>>

\* The flush finds a row it must update gone (StaleDataError): the exception ends
\* the request or the scheduler process.
RowGone(w) ==
  \/ pc[w] \in {"rejecting", "authorized"} /\ dstatus[current[w]] = "none"
  \/ pc[w] = "sent" /\ result[w] = "permanent" /\ Contact(current[w]) \notin contacts
  \/ pc[w] = "expiring" /\ \E n \in toFreeze[w] : ~Exists(n)

Fail(w) ==
  /\ RowGone(w)
  /\ Abandon(w)
  /\ UNCHANGED <<clock, accountVars, noteVars, deliveryVars, historyVars, boundVars>>

-----------------------------------------------------------------------------
(* The inbox: recipients confirm that they have read a message, and a partner who is    *)
(* disabled is not waited for any longer.  Each request reads row after row, then       *)
(* commits its change, then erases what is complete, again reading row after row.       *)

Stop(e) == calls' = [calls EXCEPT ![e] = NoCall]
Proceed(e, call) == calls' = [calls EXCEPT ![e] = call]

\* A request about a message without content or already confirmed changes nothing.
ArriveToRead(v, p, n) ==
  /\ calls[v] = NoCall
  /\ payload[n] /\ p \in recipients[n] \ readBy[n]
  /\ Proceed(v, [NoCall EXCEPT !.step = IF p = Owner THEN "account" ELSE "partner",
                               !.goal = "read", !.person = p, !.note = n,
                               !.barred = Barred(AccountNow)])
  /\ UNCHANGED <<clock, writer, accountVars, noteVars, deliveryVars, workerVars,
                 historyVars, boundVars>>

\* The owner disables a partner, as often as he likes.
ArriveToDisable(v, p) ==
  /\ calls[v] = NoCall
  /\ Proceed(v, [NoCall EXCEPT !.step = "account", !.goal = "disable", !.person = p,
                               !.barred = Barred(AccountNow)])
  /\ UNCHANGED <<clock, writer, accountVars, noteVars, deliveryVars, workerVars,
                 historyVars, boundVars>>

MutMayReadErased(p, n) == p \in recipients[n] /\ expiresAt[n] > clock
MayRead(p, n) == p \in recipients[n] /\ payload[n] /\ expiresAt[n] > clock

\* The session of the request (partner_session, account_owner_account), the confirmation
\* so far, InboxService.recipient; a partner's credential and account are read again.
Checks == {"partner", "account", "credential", "unread", "message", "recredential",
           "reaccount", "row"}
Passes(call) ==
  LET p == call.person IN
  CASE call.step = "partner" -> p \in partners \cap activePartners
    [] call.step \in {"account", "reaccount"} -> Allows(AccountNow)
    [] call.step \in {"credential", "recredential"} -> p \in partners \cap enrolledPartners
    [] call.step = "unread" -> p \in recipients[call.note] \ readBy[call.note]
    [] call.step = "message" -> MayRead(p, call.note)
    [] call.step = "row" -> p \in partners
Following(call) ==
  CASE call.step = "partner" -> "account"
    [] call.step = "account" -> IF call.goal = "disable" THEN "row"
                                ELSE IF call.person = Owner THEN "unread" ELSE "credential"
    [] call.step = "credential" -> "unread"
    [] call.step = "unread" -> "message"
    [] call.step = "message" -> IF call.person = Owner THEN "marking" ELSE "recredential"
    [] call.step = "recredential" -> "reaccount"
    [] call.step = "reaccount" -> "marking"
    [] call.step = "row" -> "disabling"

\* An owner's request keeps the account's row.  The clock is read before the UPDATE waits
\* for the write lock.
Check(v) ==
  LET call == calls[v] IN
  /\ call.step \in Checks
  /\ Passes(call)
  /\ Proceed(v, [call EXCEPT
       !.step = Following(call),
       !.account = IF call.step = "account" /\ (call.goal = "disable" \/ call.person = Owner)
                   THEN AccountNow ELSE @,
       !.active = call.step = "row" /\ call.person \in activePartners,
       !.at = IF Following(call) = "marking" THEN clock ELSE @])
  /\ UNCHANGED <<clock, writer, accountVars, noteVars, deliveryVars, workerVars,
                 historyVars, boundVars>>

\* The last disjunct: the flush finds the partner's row gone.
Refuse(v) ==
  LET call == calls[v] IN
  /\ \/ call.step \in Checks /\ ~Passes(call)
     \/ call.step = "disabling" /\ call.active /\ call.person \notin partners
  /\ Stop(v)
  /\ UNCHANGED <<clock, writer, accountVars, noteVars, deliveryVars, workerVars,
                 historyVars, boundVars>>

\* The UPDATE asks for nothing but a row without a read mark.
ConfirmRead(v) ==
  LET call == calls[v] IN
  /\ call.step = "marking"
  /\ Unlocked
  /\ readBy' = [readBy EXCEPT ![call.note] = @ \cup ({call.person} \cap recipients[call.note])]
  /\ Proceed(v, [call EXCEPT !.step = "surveying"])
  /\ UNCHANGED <<clock, writer, accountVars, nstatus, payload, releaseAt, expiresAt,
                 cancelledAt, frozenAt, recipients, deliveryVars, workerVars,
                 historyVars, boundVars>>

\* A row that was read inactive is not written; the session keeps it as inactive either way.
DisablePartner(v) ==
  LET call == calls[v] IN
  /\ call.step = "disabling"
  /\ Unlocked
  /\ call.active => call.person \in partners
  /\ activePartners' = IF call.active THEN activePartners \ {call.person} ELSE activePartners
  /\ UNCHANGED <<clock, writer, accountStatus, adminLocked, partners, enrolledPartners,
                 contacts, verified, noteVars, deliveryVars, workerVars, historyVars,
                 boundVars>>
  /\ calls' = [Witnessed EXCEPT ![v].step = "listing", ![v].active = FALSE]

EnablePartner(p) ==
  /\ Unlocked
  /\ p \in partners
  /\ activePartners' = activePartners \cup {p}
  /\ UNCHANGED <<clock, writer, accountStatus, adminLocked, partners, enrolledPartners,
                 contacts, verified, noteVars, deliveryVars, workerVars, calls,
                 historyVars, boundVars>>

-----------------------------------------------------------------------------
(* erase_if_complete, for a request or the maintenance pass e. *)

\* On to the next message with the account row the session keeps in any case
AfterErasure(call, kept) ==
  IF call.todo = {} THEN NoCall
  ELSE [call EXCEPT !.step = "next", !.note = NoNotification, !.account = kept,
                    !.left = {}, !.facing = Owner, !.active = FALSE, !.at = 0]
Kept(e) ==
  IF e = Scheduler THEN accountSeen[Scheduler]
  ELSE IF calls[e].goal = "read" /\ calls[e].person # Owner THEN NoAccountSeen
  ELSE calls[e].account

ListMessages(v) ==
  LET call == calls[v] IN
  /\ call.step = "listing"
  /\ Proceed(v, AfterErasure([call EXCEPT
       !.todo = {n \in Notifications : call.person \in recipients[n]}], call.account))
  /\ UNCHANGED <<clock, writer, accountVars, noteVars, deliveryVars, workerVars,
                 historyVars, boundVars>>

NextMessage(e, n) ==
  /\ calls[e].step = "next" /\ n \in calls[e].todo
  /\ Proceed(e, [calls[e] EXCEPT
       !.step = "surveying", !.note = n, !.todo = @ \ {n},
       !.at = IF e = Scheduler THEN started[Scheduler] ELSE clock])
  /\ UNCHANGED <<clock, writer, accountVars, noteVars, deliveryVars, workerVars,
                 historyVars, boundVars>>

Survey(e) ==
  LET call == calls[e] IN
  /\ call.step = "surveying"
  /\ Proceed(e, IF payload[call.note] /\ recipients[call.note] # {}
                THEN [call EXCEPT !.step = "weighing",
                                  !.left = recipients[call.note] \ readBy[call.note]]
                ELSE AfterErasure(call, Kept(e)))
  /\ UNCHANGED <<clock, writer, accountVars, noteVars, deliveryVars, workerVars,
                 historyVars, boundVars>>

\* The row of the partner that a request has disabled is not read again.
RowKept(call, p) == call.goal = "disable" /\ p = call.person

LookUp(e, p) ==
  LET call == calls[e] IN
  /\ call.step = "weighing" /\ p \in call.left
  /\ Proceed(e,
       IF p = Owner \/ p \in partners \/ RowKept(call, p)
       THEN [call EXCEPT !.step = "facing", !.facing = p,
               !.active = p = Owner \/ (p \in activePartners /\ ~RowKept(call, p))]
       ELSE [call EXCEPT !.left = @ \ {p}, !.account = Kept(e)])
  /\ UNCHANGED <<clock, writer, accountVars, noteVars, deliveryVars, workerVars,
                 historyVars, boundVars>>

MutBlocksActive(call, account) == call.active /\ account.status = "active" /\ ~account.locked
Blocks(call, account) == call.active /\ Allows(account)

Weigh(e) ==
  LET call    == calls[e]
      account == IF call.account = NoAccountSeen THEN AccountNow ELSE call.account
  IN
  /\ call.step = "facing"
  /\ Proceed(e, IF Blocks(call, account) THEN AfterErasure(call, Kept(e))
                ELSE [call EXCEPT !.step = "weighing", !.left = @ \ {call.facing},
                                  !.facing = Owner, !.active = FALSE, !.account = account])
  /\ UNCHANGED <<clock, writer, accountVars, noteVars, deliveryVars, workerVars,
                 historyVars, boundVars>>

\* The UPDATE asks for nothing but content.
EraseIfComplete(e) ==
  LET call == calls[e] IN
  /\ call.step = "weighing" /\ call.left = {}
  /\ Unlocked
  /\ payload' = [payload EXCEPT ![call.note] = FALSE]
  /\ expiresAt' = [expiresAt EXCEPT ![call.note] = IF payload[call.note] THEN call.at ELSE @]
  /\ Proceed(e, AfterErasure(call, Kept(e)))
  /\ UNCHANGED <<clock, writer, accountVars, nstatus, releaseAt, cancelledAt,
                 frozenAt, recipients, readBy, deliveryVars, workerVars,
                 historyVars, boundVars>>

\* What a call that has begun does next
CallStep(e) ==
  \/ Check(e) \/ Refuse(e) \/ ConfirmRead(e) \/ DisablePartner(e) \/ ListMessages(e)
  \/ Survey(e) \/ Weigh(e) \/ EraseIfComplete(e)
  \/ \E n \in Notifications : NextMessage(e, n)
  \/ \E p \in People : LookUp(e, p)

\* The web process stops, between two reads or between two commits.
WebCrash ==
  /\ \E v \in Visitors : calls[v] # NoCall
  /\ crashes < MaxCrashes
  /\ crashes' = crashes + 1
  /\ calls' = [e \in Callers |-> IF e = Scheduler THEN calls[e] ELSE NoCall]
  /\ UNCHANGED <<clock, writer, accountVars, noteVars, deliveryVars, workerVars,
                 historyVars, edits>>

-----------------------------------------------------------------------------
(* LifecycleService.run, after the scheduler's deliveries. *)

\* Reviews that are due move the account and its unconfirmed contacts one stage on.
LifecycleStages ==
  \/ UNCHANGED <<accountStatus, verified, edits>>
  \/ /\ edits < MaxEdits /\ edits' = edits + 1
     /\ \/ accountStatus = "active" /\ accountStatus' = "overdue"
        \/ accountStatus = "overdue" /\ accountStatus' = "disabled"
     /\ UNCHANGED verified
  \/ /\ edits < MaxEdits /\ edits' = edits + 1
     /\ \E c \in verified : verified' = verified \ {c}
     /\ UNCHANGED accountStatus

\* The first statement of the pass takes the write lock, so the first message it erases
\* (n) is complete; the commit gives the lock up, and the messages listed after n (those
\* that are complete now, any of the others) are looked up one by one.  The session may
\* still keep the account's row.  Without an erasure the pass keeps the lock to its end.
LifecycleErase ==
  LET now      == started[Scheduler]
      account  == [status |-> accountStatus', locked |-> adminLocked]
      complete == Complete(account, now)
      listed   == {n \in Notifications : payload[n] /\ releaseAt[n] <= now}
  IN
  /\ pc[Scheduler] = "maintaining"
  /\ Unlocked
  /\ LifecycleStages
  /\ Goto(Scheduler, "sweeping")
  /\ UNCHANGED <<clock, adminLocked, partners, activePartners, enrolledPartners,
                 contacts, nstatus, releaseAt, cancelledAt, frozenAt, recipients,
                 readBy, deliveryVars, started, toFreeze, batch, current, seenAttempts,
                 noteSeen, result, eligibleAtClaim, historyVars, crashes>>
  /\ \/ /\ complete = {}
        /\ writer' = Scheduler
        /\ calls' = Witnessed
        /\ UNCHANGED <<payload, expiresAt, accountSeen>>
     \/ \E n \in complete, others \in SUBSET (listed \ complete),
           kept \in {NoAccountSeen, account} :
          /\ payload' = [payload EXCEPT ![n] = FALSE]
          /\ expiresAt' = [expiresAt EXCEPT ![n] = now]
          /\ UNCHANGED writer
          /\ accountSeen' = [accountSeen EXCEPT ![Scheduler] = kept]
          /\ calls' = [Witnessed EXCEPT ![Scheduler] =
                         AfterErasure([NoCall EXCEPT
                           !.goal = "sweep", !.todo = (complete \ {n}) \cup others,
                           !.account = kept, !.barred = Barred(account)], kept)]

\* Reads the messages past their retention and their open deliveries.
LifecycleRead ==
  /\ pc[Scheduler] = "sweeping" /\ calls[Scheduler] = NoCall
  /\ LET expired == Expired(started[Scheduler])
     IN  /\ toFreeze' = [toFreeze EXCEPT ![Scheduler] = expired]
         /\ batch' = [batch EXCEPT ![Scheduler] =
                        {d \in Deliveries : Note(d) \in expired /\ dstatus[d] \in OpenStatus}]
  /\ Goto(Scheduler, "expiring")
  /\ UNCHANGED <<clock, writer, accountVars, noteVars, deliveryVars, started, current,
                 seenAttempts, noteSeen, accountSeen, result, eligibleAtClaim,
                 calls, historyVars, boundVars>>

\* Writes what it has read, whatever happened to the rows since.
LifecycleExpire ==
  /\ pc[Scheduler] = "expiring"
  /\ writer \in {NoWorker, Scheduler}
  /\ \A n \in toFreeze[Scheduler] : Exists(n)
  /\ payload' = [n \in Notifications |-> payload[n] /\ n \notin toFreeze[Scheduler]]
  /\ nstatus' = [n \in Notifications |->
                   IF n \in toFreeze[Scheduler] THEN "discarded" ELSE nstatus[n]]
  /\ dstatus' = [d \in Deliveries |->
                   IF d \in batch[Scheduler] THEN "cancelled" ELSE dstatus[d]]
  /\ retryAt' = [d \in Deliveries |-> IF d \in batch[Scheduler] THEN 0 ELSE retryAt[d]]
  /\ writer' = NoWorker
  /\ Goto(Scheduler, "idle")
  /\ started' = [started EXCEPT ![Scheduler] = 0]
  /\ toFreeze' = [toFreeze EXCEPT ![Scheduler] = {}]
  /\ batch' = [batch EXCEPT ![Scheduler] = {}]
  /\ accountSeen' = [accountSeen EXCEPT ![Scheduler] = NoAccountSeen]
  /\ UNCHANGED <<clock, accountVars, releaseAt, expiresAt, cancelledAt, frozenAt,
                 recipients, readBy, startedAt, until, attempts, tracking, current,
                 seenAttempts, noteSeen, result, eligibleAtClaim, calls,
                 historyVars, boundVars>>

-----------------------------------------------------------------------------
(* Bounces and administration, each one committed transaction. *)

\* A delivery report of a message SMTP had accepted, whatever became of the delivery
\* since: its lease stays.  The scheduler reads the mailbox before its deliveries.
Bounce(d) ==
  /\ pc[Scheduler] = "idle"
  /\ tracking[d] > 0
  /\ tracking' = [tracking EXCEPT ![d] = @ - 1]
  /\ dstatus' = [dstatus EXCEPT ![d] = "permanent_failure"]
  /\ nstatus' = [nstatus EXCEPT ![Note(d)] = Aggregate(Note(d))]
  /\ verified' = verified \ {Contact(d)}
  /\ UNCHANGED <<accountStatus, adminLocked, partners, activePartners,
                 enrolledPartners, contacts, payload, releaseAt, expiresAt,
                 cancelledAt, frozenAt, recipients, readBy, startedAt, until, retryAt,
                 attempts>>

ChangeAccount(status, locked) ==
  /\ accountStatus' = status /\ adminLocked' = locked
  /\ UNCHANGED <<partners, activePartners, enrolledPartners, contacts, verified,
                 noteVars, deliveryVars>>

DisableAdministratively ==
  accountStatus # "deleted" /\ ChangeAccount("disabled", TRUE)

\* The last confirmation of an overdue review, which may overlap the end of its grace
\* period or a lock
FinishReview ==
  accountStatus \in {"overdue", "disabled"} /\ ChangeAccount("active", adminLocked)

\* Every row of the account goes with it (ON DELETE CASCADE).
DeleteAccount ==
  /\ accountStatus # "deleted"
  /\ accountStatus' = "deleted"
  /\ partners' = {} /\ contacts' = {} /\ verified' = {}
  /\ nstatus' = [n \in Notifications |-> "none"]
  /\ payload' = [n \in Notifications |-> FALSE]
  /\ recipients' = [n \in Notifications |-> {}]
  /\ dstatus' = [d \in Deliveries |-> "none"]
  /\ tracking' = [d \in Deliveries |-> 0]
  /\ UNCHANGED <<adminLocked, activePartners, enrolledPartners, releaseAt, expiresAt,
                 cancelledAt, frozenAt, readBy, startedAt, until, retryAt, attempts>>

SetVerified(c) ==
  /\ c \in contacts
  /\ verified' = IF c \in verified THEN verified \ {c} ELSE verified \cup {c}
  /\ UNCHANGED <<accountStatus, adminLocked, partners, activePartners,
                 enrolledPartners, contacts, noteVars, deliveryVars>>

DeleteContact(c) ==
  /\ c \in contacts
  /\ contacts' = contacts \ {c} /\ verified' = verified \ {c}
  /\ UNCHANGED <<accountStatus, adminLocked, partners, activePartners,
                 enrolledPartners, noteVars, deliveryVars>>

DeletePartner(p) ==
  /\ p \in partners
  /\ partners' = partners \ {p}
  /\ contacts' = {c \in contacts : OwnerOf[c] # p}
  /\ verified' = {c \in verified : OwnerOf[c] # p}
  /\ UNCHANGED <<accountStatus, adminLocked, activePartners, enrolledPartners,
                 noteVars, deliveryVars>>

\* enroll, and rotate_partner_access, which takes the enrolment back
SetPartnerEnrolled(p) ==
  /\ p \in partners
  /\ enrolledPartners' = IF p \in enrolledPartners THEN enrolledPartners \ {p}
                         ELSE enrolledPartners \cup {p}
  /\ UNCHANGED <<accountStatus, adminLocked, partners, activePartners, contacts,
                 verified, noteVars, deliveryVars>>

Edit ==
  /\ edits < MaxEdits /\ edits' = edits + 1
  /\ Unlocked
  /\ \/ \E d \in Deliveries : Bounce(d)
     \/ DisableAdministratively \/ FinishReview \/ DeleteAccount
     \/ \E c \in Contacts : SetVerified(c) \/ DeleteContact(c)
     \/ \E p \in Partners : DeletePartner(p) \/ SetPartnerEnrolled(p)
  /\ calls' = Witnessed
  /\ UNCHANGED <<clock, writer, workerVars, historyVars, crashes>>

-----------------------------------------------------------------------------
InCycle(w) == pc[w] \notin {"idle", "accepted", "maintaining", "sweeping", "expiring"}

Tick ==
  /\ clock < MaxClock
  /\ \A w \in Workers : InCycle(w) => clock - started[w] < MaxCycle
  /\ clock' = clock + 1
  /\ UNCHANGED <<writer, accountVars, noteVars, deliveryVars, workerVars, calls,
                 historyVars, boundVars>>

\* What a running worker does next
WorkerStep(w) ==
  \/ StartCycle(w) \/ ListDue(w) \/ ReadClaim(w) \/ LoseClaim(w) \/ Authorize(w)
  \/ Reject(w) \/ BeginSend(w) \/ Send(w) \/ Commit(w) \/ FinishCycle(w) \/ Fail(w)
  \/ \E n \in Notifications : Freeze(w, n) \/ SkipFreeze(w, n)
  \/ \E d \in Deliveries : Claim(w, d) \/ SkipClaim(w, d)

LifecycleStep == LifecycleErase \/ LifecycleRead \/ LifecycleExpire

Next ==
  \/ \E w \in Workers : WorkerStep(w) \/ Crash(w)
  \/ LifecycleStep
  \/ \E w \in WebWorkers, n \in Notifications : Accept(w, n)
  \/ \E n \in Notifications : Cancel(n)
  \/ \E v \in Visitors, p \in People, n \in Notifications : ArriveToRead(v, p, n)
  \/ \E v \in Visitors, p \in Partners : ArriveToDisable(v, p)
  \/ \E p \in Partners : EnablePartner(p)
  \/ \E e \in Callers : CallStep(e)
  \/ WebCrash \/ Edit \/ Tick

Spec == Init /\ [][Next]_vars

\* What the scheduler process does next
SchedulerStep == WorkerStep(Scheduler) \/ LifecycleStep \/ CallStep(Scheduler)

\* The scheduler is restarted whenever it stops and runs its jobs for ever; a request
\* that has begun runs to its end; time passes.  Strong fairness where a step may have to
\* wait for the write lock: the scheduler sleeps between its passes, and a writer that
\* has not got the lock by then has failed (Crash).
Fairness ==
  /\ SF_vars(SchedulerStep)
  /\ \A w \in WebWorkers : SF_vars(WorkerStep(w))
  /\ \A v \in Visitors : SF_vars(CallStep(v))
  /\ WF_vars(Tick)

FairSpec == Spec /\ Fairness
=============================================================================
