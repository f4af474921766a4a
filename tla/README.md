# SilentRelay: verification project

SilentRelay keeps messages of *trusted persons* for the holder of an account and
for partners. A message waits for its release time, can be cancelled until then,
is announced by neutral e-mails to the recipients fixed at the release, and is
erased when all of them have read it or when its retention ends. An account whose
holder no longer confirms its periodic review is disabled and deleted.

The program runs as several request threads (FastAPI) and one scheduler process on
one SQLite database (WAL, foreign keys on, sessions with `autoflush=False` and
`expire_on_commit=False`). Most of what can go wrong lies between two transactions
of different processes, or between what a session has loaded, what it has assigned
and what the database holds.

## 1. Inventory

| part | state | operations | modelled in |
|---|---|---|---|
| Messages and delivery (`services/notifications.py`) | notifications, recipients, deliveries with lease, attempts and retry time | accept, cancel, freeze the recipients, claim, authorize, send, commit the outcome | `Relay`; its promise in `MessagePromise` |
| Inbox (`services/inbox.py`) | read marks, content | confirm_read, erase_if_complete: each a row of reads and a transaction | `Relay` |
| Lifecycle (`services/lifecycle.py`) | account stage and dates, lapsed contacts, content | run, disable_administratively | `Relay` (content), `AccountReview` (account), `Admission` (pending accounts) |
| Accounts and reviews (`services/accounts.py`) | accounts, reviews, contacts, contact reviews, links, credentials | create, setup, verify_contact, confirm_review; login, links and passwords | `Admission`, `AccountReview`, `Access` |
| Scheduler (`scheduler/`) | its pass, review reminders, access notices, problem reminders | run_jobs | order of a pass and reviews in `Relay`, `AccountReview`; access notices in `Access`; problem reminders in `Mailbox` |
| Delivery tracking (`email_tracking.py`, `providers/email.py`) | tracking rows, technical mailbox, failures of a contact | send_tracked_email, the pass over the mailbox, aggregate status | `Mailbox`; the aggregate and a bounce of a notice in `Relay` |
| Partners, trusted persons (`services/management.py`) | partners, credentials, personal links | activate, add, rotate, delete | `Access`; effects on deliveries in `Relay` |
| Sessions, submissions (`security/core.py`, routers) | sessions, submissions, lock-out counters | set up, log in, change a secret, stage, confirm, revoke | `Access` |
| Rate limiter (`rate_limit.py`, `main.py`) | buckets per action, scope and window | check, purge | `Admission` |
| Entitlements, registration (`entitlements.py`, `routers/web/public.py`) | pending account, the provider's decision | ask the provider, create, tell the provider, set up, confirm | `Admission` |
| Backup, restore, update (`backup_restore.py`, shell scripts) | marker, lock, archives, `.env`, data volume, services | back up, restore, update, hide and show the site | `Maintenance` |
| Mail and system configuration | sender, acknowledged mailbox, registration open or closed | save, acknowledge, disable | `Mailbox`, `Admission`; the other settings are constants |
| Texts, public site, first set-up, migrations | static content | render, read, validate | not modelled (section 7) |

How they interact: everything meets in the database. SQLite gives the write lock
to one transaction; a SELECT before the first flush runs in autocommit and sees
each commit at once, so a handler is a row of reads followed by one write
transaction. The scheduler calls SMTP inside a transaction and so holds the write lock
while it sends. A cancelled message, a locked account or a removed contact reaches
the delivery only through rows, which the delivery may have read earlier.

Hard behaviours, each a hazard in `PROJECT.json` at its line:

* two processes claim, freeze, cancel or erase the same rows; two requests use one
  link, submission or counter; two scripts share marker and lock;
* a process stops after SMTP has accepted and before the commit, or between the commit
  of a report and the removal of its message; leases run out under a slow worker; a
  restore stops half way;
* a session uses a row it loaded long ago, counts rows before its own assignments are
  flushed, or writes only the columns that differ from a row that has changed since;
* read mark and erasure, claim and send, check and send, login and session are
  different transactions;
* the provider answers late or never, reports arrive repeatedly and in any order;
* tables and archives have a limit;
* messages, deliveries, accounts, notices and requests must settle although passes fail.

## 2. Modules

| module | content |
|---|---|
| `Relay` | one account's messages: delivery, inbox, content lifecycle, administrative changes, crashes |
| `RelayProperties` | its invariants, action properties, liveness, statements of the documentation, and the parts of the inductive invariant |
| `MessagePromise` | the abstract life of a message: waiting, released, cancelled, erased, without processes |
| `RelayRefinement` | the mapping under which `Relay` implements `MessagePromise` |
| `RelayProofs`, `DeliveryProofs`, `RefinementProofs` | proofs about `Relay`: types and cancellation; release, leases, attempts, content; the refinement of `MessagePromise` |
| `AccountReview`, `AccountReviewProperties` | one account's contacts, reviews, reminders, stages |
| `Access`, `AccessProperties` | links, secrets, sessions, submissions, access notices of one account |
| `Admission`, `AdmissionProperties` | rate limiter, registration, set-up, confirmation, pending accounts |
| `Mailbox`, `MailboxProperties` | sending with tracking, delivery reports, contact problems, mail settings |
| `Maintenance`, `MaintenanceProperties` | backup, restore, update, maintenance marker |
| `ReviewProofs`, `AccessProofs`, `AdmissionProofs`, `MailboxProofs`, `MaintenanceProofs` | proofs about `AccountReview`, `Access`, `Admission`, `Mailbox`, `Maintenance` |
| `MCRelay`, `MCAccountReview`, `MCAccess`, `MCAdmission`, `MCMailbox`, `MCMaintenance` | instances for TLC |

The six state machines share rows only through small interfaces: what one of them
changes in another's state is there a nondeterministic change. `Relay` takes
stages of the account, enrolments, bounces and submissions as free changes;
`AccountReview`, `Access`, `Mailbox` and `Admission` say when they happen.

### Relay and the code

A worker (`Scheduler` or a request thread) runs `DeliveryService.process_due`, one
label of `pc` for each transaction or autocommit read:

| label | step | code |
|---|---|---|
| idle / accepted | `StartCycle`: the cycle's `now`, the messages to freeze | 230-232, 400-406 |
| freezing | `Freeze`, `SkipFreeze`: conditional UPDATE, recipients, deliveries | 407-453 |
| looping | `ListDue`, `Claim` (conditional UPDATE and commit), `SkipClaim` | 237-277 |
| claimed | `ReadClaim`, `LoseClaim`: is the claim still mine | 278-285 |
| owned | `Authorize` | 351-396 |
| rejecting | `Reject`: cancel, aggregate, commit | 290-297 |
| authorized | `BeginSend`: the flush that takes the write lock | 307-313 |
| sending | `Send`: SMTP, four outcomes | `send_tracked_email` |
| sent | `Commit`: outcome, aggregate, lease cleared | 328-342 |

`writer` is the holder of the write lock between the flush and the commit; every
writing step of another process needs it free. `noteSeen` and `accountSeen` are the rows the
session does not read again. `Accept` and `Cancel` are request handlers of one transaction,
`LifecycleErase`, `LifecycleRead`, `LifecycleExpire` the scheduler's maintenance,
`EnablePartner` and `Edit` the changes of account, partners and contacts with
`Bounce`, a delivery report, which may come for an e-mail whose delivery another worker has
claimed since. `Crash` ends the scheduler or a request in any step, rolls back its open transaction
and keeps what SMTP has accepted (`accepted`, `doubtful`); `WebCrash` ends the requests
of the table below.

A request that confirms a reading, one that disables a partner, and the maintenance pass
when it erases are calls (`calls`), one `step` for each read or transaction:

| step | action | code |
|---|---|---|
| idle | `ArriveToRead`, `ArriveToDisable` | handlers in `partner.py:158`, `account.py:471`, `account.py:498` |
| partner, account, credential | `Check`, `Refuse`: the session of the request | `shared.py:135-146`, `dependencies.py:23-27` |
| unread, message, recredential, reaccount | `Check`, `Refuse`: not confirmed yet, `recipient` | `inbox.py:87-102`, 36-58 |
| marking | `ConfirmRead`: the UPDATE, which asks only for a missing mark | `inbox.py:104-110` |
| row, disabling | `Check`, `DisablePartner` | `management.py:123-132` |
| listing, next | `ListMessages`, `NextMessage`: the messages it then looks at | `management.py:134-138`, `lifecycle.py:115-119` |
| surveying | `Survey`: content and recipients | `inbox.py:118-126` |
| weighing, facing | `LookUp` a recipient's row, `Weigh` it with the account | `inbox.py:127-136` |
| weighing, nobody left | `EraseIfComplete`: the UPDATE, which asks only for content | `inbox.py:137-143` |

A row that a local variable of the request holds is not read again: the owner's account,
the partner row a request has loaded (`RowKept`: one that has disabled a partner goes by
its own inactive row, whatever was committed since). `account` and `active` of a call are
these rows. The maintenance pass holds the write lock at its first erasure, which is
therefore part of `LifecycleErase`; its commit gives the lock up, and the other messages
are looked at step by step like those of a request. Whether its session still has the account's
row depends on what its loops have left, so `LifecycleErase` allows both.

Abstractions: one account; the reads of one send-time authorization are one
step; a worker keeps the message row
of the last delivery only; a cached contact is not modelled;
trusted persons and submissions are the identities of `Notifications`; a writer
that waits longer than SQLite's timeout fails like a crash; account stages change
without their reasons (`LifecycleStages`), which `AccountReview` supplies; the
order within a batch is any order, as is that of the recipients of a message; a session
that has ended is a request that does not arrive.

### AccountReview and the code

A request loads the account (`Enter`, `OpenCode`, `OpenLink`) and later commits.
`seen` is what its session holds: a column is written only if the new value differs
from the loaded one, so a stale row decides which columns of the account are written
(`Finish`). `ConfirmRead`/`ConfirmCommit` are the reads and the write transaction of
`confirm_review`; `VerifyLink` and `VerifyCode` the two branches of `verify_contact`;
`Remove` is `delete_contact` and `delete_partner`; `SendCode` is `add_contact` and
the new link for an existing contact. The scheduler's pass is `StartPass`, then per
reminder `ClaimReminder`, `AskContacts` (reads) and `CommitReminder` (rows, links,
outcomes of the e-mails), then `Lifecycle`. `FailPass` ends it early.

Abstractions: the two commits of a reminder that is only marked as sent are one
step; the holder's own reminder e-mails are one answer (`holderTold`); rows of
contacts the session keeps are read again by the lifecycle; a second link of one
contact replaces the first (as in the code) and the links of a contact review are
numbered. An account scheduled for deletion whose date was cleared (`Forgotten`) is selected
by no statement of the lifecycle, since SQL compares NULL with nothing: `Expired` says so.

### Relay and MessagePromise

`MessagePromise` has one variable `life` per message, its release time, its audience,
who has opened it, its readers and the addresses an announcement was handed over for. `RelayRefinement`
reads them from the rows: a deleted account is "gone", a row with `cancelled_at`
"cancelled", one without content "erased", one with frozen recipients "released";
`told` are the contacts whose notice SMTP has taken; `reading` are the people whose
confirmation has passed the check of the content and not reached its UPDATE. Every step of `Relay` (a claim, a
lost lease, a crash, a retry) is then a step of the promise or a stutter. The mapping
showed how far a stale cancellation reaches: it may follow the release and even the
reading and erasure of a message, as long as no delivery was claimed, so `Cancel` of
the promise is enabled there. It also showed that a confirmation may follow the erasure
(`Read`): who has opened a message may still confirm it, nobody else can.

### Access and the code

`cred` holds the three credential tables in one shape: `link` numbers the token hash,
`secret` the password or PIN hash, then enrolment, deadline, failures, lock and the two
marks of the scheduler. A request is `Read` (the handler's lookups and checks) and one
commit, since hashing lies between them:

| action | code |
|---|---|
| `SetUp` | `trusted_setup`, `partner_setup` with `enroll` |
| `LogIn`, `LogInFails`, `OpenSession` | `AuthenticationService.login`, `PartnerAuthenticationService.login`, `trusted_login`; the session of holder and partner is a second transaction |
| `ChangeSecret`, `Rotate`, `AddPerson` | `change_password`, `change_pin`, `rotate_*`, `add_trusted_person` |
| `Stage`, `Confirm` | `notify_stage`, `notify_confirm` with `accept` up to the consumption of the submission |
| `Remove`, `SetPartnerActive`, `Bar`, `DeleteAccount`, `LogOut` | the handlers of holder and administration that change a row at once |
| `ListNotices` ... `EndNotices` | `_send_trusted_access_notices`, then `_send_partner_access_notices`, then the purges |

`Written` is what an ORM flush does: it writes the columns whose new value differs from
the loaded one, over whatever the row holds by then; `LosesMark` is its effect on a mark: a
rotation that overlaps a set-up may clear the mark of the notice and keep the set-up.
Abstractions: the lock has one
length; cookies and CSRF tokens belong to the session; several sessions of one person
that end together are one; a contact of the holder is `reachable` or not; adding a
partner is an initial state.

### Admission and the code

`Arrive` reads the clock, `Check` is the transaction of
`PersistentRateLimiter.check`: `Unexpired` (the DELETE), `Keys` (the scopes), `Stored`
(the bound of the table), `Counted` (the UPSERT), `Over` and `Considered` (the early
end at the global scope). A registration goes on with `AskPolicy`, the provider's
`ProviderEnds` (external), `TakeDecision` or `Refuse` after `TimedOut`, `ReadSetting`,
`Create`, `EndHook`; set-up is `ReadLink` and `SetUp` (a hash between them),
confirmation `Verify`. `Abort` is a client that goes away, a database that cannot be
used or a process that ends. `Lifecycle` is one step: its first statement takes the write
lock. Abstractions: the posts are those of the registration (the others differ in
limits only); a confirmation code of a second contact is one more element of `codes`.

### Mailbox and the code

`job` holds what each sender executes. The scheduler's pass is `StartPass` (expired rows),
`LoadMailbox` (settings and listing), per message `ReadMessage`, `ApplyReport` and
`FlagMessage`, then `Expunge`, then the reminders: `StartReminder`, per address
`BeginSend`, `Accepted`, `Unclear` or `Refused`, and `CommitSend`. The web's
`StartResend` goes through the same sending steps. `lock` is SQLite's write lock, which a
tracked send holds from the flush of its row to the commit. `Verify` and `ConfirmReview`
are the branches of `verify_contact`; both begin with an UPDATE that takes the lock, so
they read the contact fresh. `OpenSettings` reads, `SaveSettings` writes the columns that
differ. Abstractions: a message in the mailbox is its token and the set of its reports;
test e-mails, saves that keep the sender and `add_contact` (which sends like a resend) are
left out; e-mails beyond `MaxTokens` are sent, but not followed (`FreshToken` is 0).

### Maintenance and the code

`script` says which command each shell executes; `TakeLock` to `BackupEnd` are
`backup.sh`, alone or within `restore.sh` and `update.sh`; `Inspect` to `CopyEnv` the two
passes of `restore_archive`; `StartServices`, `Ready`, `Show` the ends of restore and
update. `Fail` is a command that fails or a check that refuses (`set -e`, with the trap of
`backup.sh`); `HostFails` stops everything and leaves the lock. Data is where it came
from and a version the services advance (`Work`). `ByHand` is the operator between
scripts. `exposed` remembers that a backup under way may still take away the marker of a
restore (`WillShow`). Abstractions: web and scheduler start and stop together; one archive from
elsewhere and a damaged one stand for all others; the off-site transfer, disk space and
the ancestry of the backup's commit are failures of a command.

## 3. Runs

Relay, in `MCRelay`:

| run | instance | what it shows |
|---|---|---|
| `Relay_delivery` | a partner's notice, a waiting period of none or one tick, two attempts, two workers, cycles that last as long as leases, a request that acts on a clock one tick old, a crash and one change or late bounce | types; a cancelled message is never sent; nothing leaves before the release or to others than the fixed recipients; the attempt counter is bounded; SMTP accepts twice only after a lost acceptance or a takeover; a waiting or delivered delivery has no lease, a claimed one that of its claim; a live lease excludes other claims; the release is final |
| `Relay_inbox` | a message to holder and partner, a request that confirms or disables, as often as it likes, partners enabled again at any time, one change, the scheduler | the relay implements the promise; content goes only when every recipient had confirmed or was barred at some moment of the call that erases it |
| `Relay_recovers` | one attempt, a request that confirms and a crash of any process, a retention that ends within the bound and one that does not, fairness | each delivery settles; no content stays for ever; a message read by all is erased although its retention has not ended |

AccountReview, in `MCAccountReview`:

| run | instance | what it shows |
|---|---|---|
| `Review_races` | two requests, one contact, periods of one tick, five ticks | an account that grants access always has an open review due at its date; a contact review is confirmed once by its links; the whole retention precedes a deletion |
| `Review_ends` | one request, two contacts, one disturbance (removal, new contact, bounce, failed send, lock, deletion, crash), fairness | types; a disabled account is deleted or becomes active again, unless it is `Forgotten` |

Access (`MCAccess`), Admission (`MCAdmission`), Mailbox (`MCMailbox`), Maintenance
(`MCMaintenance`):

| run | instance | what it shows |
|---|---|---|
| `Access` | holder, a partner, the partner's trusted person, two requests, one failure, fairness of the scheduler | types; one message per submission; nothing of a deleted row remains or comes back; no lock without the failures it requires; no more notices than set-ups unless a mark was lost; no notice that is due stays unmarked for ever |
| `Admission` | two requests of two clients, one account, four buckets, one change of the setting, fairness | types; limits hold but for late checks; the table is bounded; an account exists only by an answer in time and an open registration; every request ends; pending accounts end |
| `Mailbox` | an owner's and a partner's contact, two sender addresses, one message in the mailbox at a time, one failure, fairness | types; a failure counts once; a report of a known e-mail is not lost; only the acknowledged mailbox of the sender in force is emptied; the owner is told |
| `Maintenance` | three scripts in two shells, two failures | types; what is broken is hidden; keys belong to the data; a marker set by hand stays; a backup exists before anything is deleted |

`KeepsPromise` of `Relay_inbox` is the refinement: the whole `MessagePromise!Spec`
under the mapping of `RelayRefinement`.

Runs that must fail, each with one statement of the documentation or the tests:

| run | statement | what the code does |
|---|---|---|
| `Relay_send_check` | THREAT_MODEL.md:157-160 | the check only reads; a lock commits before the flush that takes the write lock |
| `Review_unfinished` | DEVELOPMENT.md:244, tests/test_services.py:1196-1240 | the last contact's answer is counted as missing, the review stays open |
| `Review_forgotten` | adminretention_en.html:5, tests/test_services.py:1192-1193 | a confirmation that overlaps a lock and the next pass clears the date of an account already scheduled for deletion; nothing deletes it or gives it a date |

### Divergences from the documentation

More statements that the code does not keep are written as definitions in the properties
modules. They are in no run; adding one to the configuration named here (as an INVARIANT, or
a PROPERTY where noted) shows the behaviour.

| definition | where to add it | statement | what the code does |
|---|---|---|---|
| `StatusReflectsDeliveries` | `Relay_delivery` | tests/test_services.py:473, 838, 952, 1032 | the aggregate is computed before the last outcome is flushed (email_tracking.py:278), so a message keeps the status of before; the tests' sessions autoflush, the program's do not |
| `LockedBeforeClaimNotSent` | `Relay_delivery` with two contacts: `Contacts = {ownerMail, partnerMail}`, `OwnerOf <- OwnerOfBoth` | THREAT_MODEL.md:82 | the second delivery of a batch uses the account row of the first (notifications.py:361) |
| `ErasedOnlyWhenActiveHaveRead` | `Relay_inbox`, PROPERTY | OPERATIONS.md:211-213 | a partner who is enabled again between the disabling (management.py:132) and the erasure that follows it is not looked up again (inbox.py:134-136) and loses the message unread |
| `ReadOnlyWithContent` | `Relay_inbox`, PROPERTY | OPERATIONS.md:210-213: a recipient confirms what the inbox shows | the UPDATE of a confirmation asks only for a missing mark (inbox.py:104-109): it may follow the erasure, the end of the access or a cancellation |
| `FinishedOnlyIfConfirmed` | `Review_unfinished`, PROPERTY | OPERATIONS.md:326-327 | a holder who confirms before the day's reminder finishes the review without the contacts (accounts.py:231) |
| `MarkedMeansAnnounced` | `Access` | OPERATIONS.md:387-388 | two set-ups get one notice: two requests use one link, or a link is replaced and set up again after the pass has read the first set-up and before it sends, so that the mark of that notice lands on the second set-up |
| `FailedIsUnverified` | `Mailbox` | OPERATIONS.md:327-328 | a failure that read the contact as unconfirmed before a confirmation commits writes only the columns that differ (email_tracking.py:89-92): the contact stays verified with a recorded failure |
| `CanRunAgain` | `Maintenance` | OPERATIONS.md:1104-1108, restore.sh:54-55 | after an interruption between the removal of `.env` and its copy `--replace` refuses (restore.sh:52) and so does a plain restore (backup_restore.py:247) |

Met on the way and contained in the models, without a definition of their own:

* `Access`: a set-up that overlaps a replacement of its link leaves the old secret beside
  the new link (OPERATIONS.md:396-398 says the replacement invalidates it); two set-ups
  with one link both succeed and the second secret stays; concurrent failed logins count
  once; a login in flight opens its session after a revocation; a trusted person added
  while its partner is deleted stays without a sponsor and without access.
* `Admission`: a check that waited past the end of its window may let one more request
  through; two set-ups with one link leave two owner contacts.
* `Mailbox`: a final report that arrives before the row of its e-mail is committed is
  deleted unread, as is one about an e-mail whose acceptance was doubtful; the scheduler
  sends with the settings of the pass's beginning, so reports may go to the mailbox of the
  former sender; a successful reminder overwrites the reset that a failure in the same
  pass has made. Overlapping saves can leave an acknowledgement of another sender, which
  the comparison of fingerprints in `load_ndr_config` makes harmless.
* `Maintenance`: `restore.sh` and `update.sh` take no lock, although backup.sh:96 speaks
  of "another backup or restore operation". A backup that read the marker as absent before
  a restore set it removes it at its end (`exposed`; OPERATIONS.md:1101-1102), and one that
  starts between the safety backup and the stop starts the services again while files are
  replaced; a restore that reads the marker while a backup has set it leaves it; a failure
  between mkdir (line 96) and trap (122) and a host failure leave the lock; what the services
  write between the safety backup and their stop is in no backup; with `KEEP_BACKUPS=1` a
  second attempt removes the safety backup of the first.

In `Relay` and `AccountReview`: a cancellation that waited for
the write lock may commit after the release time, since `cancel` reads its clock before
(THREAT_MODEL.md:84); and the expiry pass cancels a claimed delivery without clearing
its lease (THREAT_MODEL.md:165-167), as does a late bounce of a delivery another worker has
claimed. Leases count from the start of the cycle (notifications.py:272), so a slow cycle claims with
leases already over: SMTP may then accept a notice twice without any loss (`overtaken` in
`DuplicatesExplained`), which THREAT_MODEL.md:83 and 167-170 do not mention. With the
administration, a confirmation that overlaps the disabling of an account leaves
`deletion_due_at` set on an active account, and `disable_administratively` later keeps
that old date; `RetentionBeforeDeletion` therefore speaks of accounts without a lock.
Two confirmations at once leave a second open review that no confirmation reaches
(`NextReviewExists` still holds).

### Bounds

* `MaxClock` is the last tick, large enough for a lease to run out and the next
  cycle to act (`Relay_delivery`: 5), or for review, grace period, retention and deletion
  (`Review_ends`: 4, `Review_races`: 5). `Settling` keeps an acceptance early enough
  for its consequences to fall before `MaxClock`.
* `MaxCycle` bounds the ticks one cycle lasts. In `Relay_delivery` it equals `Lease`, so that
  a cycle outlives the leases it takes. `Staleness` is the age of the clock a request acts on.
* `MaxEdits`, `MaxCrashes` bound disturbances: one each where a run has any, which
  suffices for an interleaving of a change with each step; disabling and enabling a partner
  are bounded by nothing but the number of requests at once (`Visitors`). `MaxReviews` = 3 allows two
  reviews to follow one, as two confirmations at once create them.
* `BatchLimit` is 2 (100 in the code); no instance has more deliveries.
* `Relay`: one message, one contact and at most one partner. Messages meet only in the batch of
  a worker, whose rows are separate, and in the maintenance pass, where the erasures after the
  first are looked at one by one. No run has that; `ContentIsKept` proves it for any number, and
  `Relay_inbox` with two messages, no contact and no partner was checked as well
  (`Notifications = {n1, n2}`, `OwnerOf <- OwnerOfNobody`, `Lease = 1`, `MaxClock = 3`,
  `MaxCrashes = 1`, `ContentKeptForReaders` alone: 2.3 million states). One request of
  `Visitors` besides the scheduler; an acceptance, its cycle and a cancellation are
  requests as well.
* `Access`: two requests at once and one failure; `MaxLink` = 2 is one replacement of
  each link; two failures lock (five or three in the code), so a lost update of the
  counter matters; `MaxRequests` = 2 operations and two ticks, in which sessions,
  submissions and set-up links run out.
* `Admission`: two requests, limits of one and two, windows of one and two ticks, so a
  window ends under a request; four buckets hold no second request's three. Time goes
  on past `MaxClock` for as long as a request or a pending account waits for it.
* `Mailbox`: one followed e-mail with one message at a time, which may arrive again after
  each pass; two edits of the settings overlap; `Interval` and `Retention` of one tick
  run out within the two ticks.
* `Maintenance`: three runs let a backup by cron overlap a restore and another follow;
  two failures hit a restore and its repetition; one archive is kept.

Deadlock is checked in every run but `Maintenance`, whose scripts, failures and writes
are bounded and whose operator may stop; elsewhere the scheduler, a purge or a pass always
has a next step.

### Fairness

`scheduler/main.py` runs the jobs in an endless loop and is restarted by its
container: `SF` of a worker's and of the maintenance steps in `Relay`, `WF` of
`PassStep` in `AccountReview`. Strong fairness is needed where a step waits for the
write lock, which the holder releases again and again; a writer that does not get it
within SQLite's timeout is a `Crash`. `WF` of `Tick`: time passes. Requests,
administrative changes, crashes and the users are never assumed to act, but
a request that has begun to deliver, to confirm or to erase goes on unless it crashes (`SF` of
its steps: it waits for the write lock, and may be one of many).

In the other modules weak fairness is written with the change it implies, which is what
the loop of the scheduler and the event loop of the web server guarantee: `Access` lets
the pass over the notices move for ever; `Mailbox` lets the scheduler's job move for ever
and a request of the web go on or end; `Admission` lets each request that does not wait
for the provider go on, with `WF` of `Tick` and of `Lifecycle`. The provider, who may never
answer, is assumed nothing of. `Maintenance` has no liveness: nobody need run a script.

### Mutants

Each property has a faulty variant (`Mut...`) of a definition it depends on: a
missing check of the start of a claim, a deletion date that is kept, a link that is not
consumed, a submission that is not, a timeout that is not noticed, a report flagged after an
error, `.env` left beside new data. With the variant in place of the definition TLC finds the property violated,
so none of them holds by the shape of the model.

## 4. Proofs

Every invariant and every action property that a passing run checks is proved, for every
number of messages, contacts, people, requests and scripts, every value of settings and
bounds, and so is the refinement of `MessagePromise`. The only hypotheses are the
assumptions on constants in the modules, which TLC evaluates in the runs. Before each proof TLC checked the strengthened invariant on an instance.

| module | theorems (property) |
|---|---|
| `RelayProofs` | `TypeInvariant` (`TypeOK`), `CancelledIsNeverSent` (`CancelledNeverSent`) |
| `DeliveryProofs` | `SendingFollowsRelease` (`SentOnlyAfterRelease`), `LeasesMatchClaims` (`LeaseOnlyWhileClaimed`), `AttemptsStayBounded` (`AttemptsBounded`), `LiveLeaseIsKept`, `ReleaseIsMadeOnce` (`ReleaseIsFinal`), `ContentIsKept` (`ContentKeptForReaders`), `OneNoticePerLoss` (`DuplicatesExplained`) |
| `RefinementProofs` | `RelayKeepsPromise` (`KeepsPromise`) |
| `ReviewProofs` | `ReviewTypes` (`TypeOK`), `ReviewFollows` (`NextReviewExists`), `LinksConfirmOnce` (`ConfirmedOnce`), `RetentionIsKept` (`RetentionBeforeDeletion`) |
| `AccessProofs` | `AccessTypes` (`TypeOK`), `SubmittedOnce` (`OneMessagePerSubmission`), `DeletedStaysDeleted` (`GoneIsGone`), `LocksAreEarned` (`LockedOnlyAfterFailures`), `SetUpToldOnce` (`AnnouncedOnce`) |
| `AdmissionProofs` | `AdmissionTypes` (`TypeOK`), `LimitsHold` (`WithinLimits`), `TableStaysBounded` (`BucketsBounded`), `RegistrationsAllowed` (`RegisteredOnlyIfAllowed`) |
| `MailboxProofs` | `MailboxTypes` (`TypeOK`), `FailuresCountOnce` (`CountedOnce`), `KnownReportsAreCounted` (`KnownReportsCount`), `OnlyAcknowledgedIsEmptied` (`EmptiesOnlyAcknowledged`) |
| `MaintenanceProofs` | `MaintenanceTypes` (`TypeOK`), `BrokenStaysHidden` (`BrokenIsHidden`), `KeysFollowData` (`KeysMatchData`), `MarkerByHandStays` (`HeldMarkerStays`), `BackupComesFirst` (`SafetyBackupFirst`) |

Each proof has the same layout: the conjuncts of the inductive invariant, one lemma per
action (or per kind of change) that says what the step does, one case per action for each
conjunct it can disturb, and the theorems.

### The arguments

*Cancellation* (`CancelInv`). `Cancel` looks at rows, a sending worker at its locals.
`UnreleasedUnsent` and `UnclaimedUnsent`: a delivery never claimed is in nobody's hand and
was never accepted by SMTP, so `NothingStarted`, which `Cancel` checks under the write lock,
implies that nobody sends. `CancelledErased` and `CancelledUnsent`: after a cancellation no
delivery can be claimed, since claims need an open delivery and a freeze needs a message
that is not cancelled. `RowsTogether` and `LockHeld`: what a worker commits concerns rows that
still exist, since a row cannot be deleted while the worker holds the lock. `SweepReleased`:
the expiry pass, which writes from earlier reads, concerns released messages only.
`FreshNotes`: identities not yet used have no history, unless the account is gone.
`TrackedReleased`: a delivery report can only concern a claimed delivery of a released message
that was not cancelled, so a bounce, which asks for no status, revives nothing.

*Release, leases, attempts* (`RowInv`, `HandInv`). `ReleasedDue` and `ToRecipients` tie each
delivery to the freeze of its message, `SeenBounded` the attempts a worker has read to the
limit (its own commit may be the last one), `SweepDue` the messages the expiry pass holds to
their retention. With these each action property is a statement about single steps.

*Duplicates* (`SendInv`). `Trying` are the workers that have a delivery in hand and may still bring
an acceptance. `TriesExplained` counts them with the acceptances there are: together they never
exceed one more than the losses and takeovers. Each action is one of three kinds, each with a
lemma: no worker begins to try (`NoNewTry`), one tries (`SendTry`), one claims (`ClaimTry`).
A claim is the hard one: `RoomForTry` says that a delivery waiting for an attempt leaves room for
another, and `ClaimAtWork` that a claimed delivery without room is still in the hand of the
worker that claimed it, so that whoever claims it takes it over and is counted in `overtaken`.

*Content* (`CallInv`). `barred` of a call is the history of who was barred since it began. What the
call goes by was so at some moment: an account row without access (`RowsWitnessed`), the
partner it has disabled (`DisabledWitnessed`), the recipient it has just looked up
(`FacedWitnessed`). Hence `UnreadWitnessed`: whoever has not confirmed the message is still to be
looked up or was barred, and when nobody is left the erasure is justified. It needs that
recipients of a released message do not change (`ReleaseIsFinal`) and that the clock of a call
is not ahead.

*The refinement*. Initial states map to initial states. `RefinementProofs` shows for each
action which step of `MessagePromise` it is, per message (accept, cancel, freeze, open, read, erase, tell,
delete), or that no `life` changes; a call that ends or gives up is `Drop`, since fewer people are reading; the release time and the audience of a message come from
`ReleaseIsFinal`, the addresses from `SentOnlyAfterRelease`.

*Reviews* (`ReviewInv`). `LifeInv`: nothing is left of a deleted account, and nothing refers
to a review not made yet; it makes the number of a new review fresh, so that it is open after
any request that creates it (`NextInv`). `AskInv`: a contact is asked exactly as long as it
and the review exist, and every link asks. `PassInv`: the pass is about to ask whom it will
have asked, although contacts vanish and answer meanwhile. `ConfirmInv`: no request holds a
usable link of an answered contact review, since links are numbered and an answer removes all
of them. `RetentionInv`: a late confirmation writes a loaded value or nothing, so the dates of
an account that was not locked are those of its last disabling, or cleared.

*Access* (`AccessInv`). `OwnersKnown` says to whom sessions, submissions and requests belong;
`MessageInv` that an unused submission has no message; `LockInv` bounds the counters a request
has read, and those of the row, by the attempts made; `NoticeInv`: as long as the row, or what
the pass has read of it, still calls for a notice, fewer were given than there were set-ups
and lost marks, unless the pass has just given it and is about to mark the row.

*Admission* (`AdmissionInv`). `OpenCounted`: a bucket whose window runs holds at least what
was admitted in it, so a request that still fits the limit by the bucket fits it by what was
admitted; `FiniteTable`: the table is finite, so the few buckets a request adds can be
counted against the room that is left; `RequestInv`: what a request has read of provider and setting
when it creates an account.

*Mailbox* (`MailboxInv`). `TokenInv`: no two senders hold one token, and a token in hand has
neither a row nor a count; `TrackInv`: a counted failure has closed its row, so it is not
counted again; `MailInv`: a token that had a row when its report came is held by no sender
again; `PassInv`: what the pass holds is still in the mailbox, the row of the report in hand
stays open until it is applied, and a message is flagged only when its row is settled.

*Maintenance* (`MaintenanceInv`). `Course` is the order of the commands per script, and that
the lock is exclusive; `ReplaceInv`: there is no `.env` while data are replaced; `HeldInv`: a
script that would remove a marker set by hand found it; `HiddenInv`: who may take the marker
away, and what is then true; `BackupInv`: the safety backup of a replacement is kept as long
as it deletes, and holds what the restore began with.

### What the proofs changed

Five attempts failed for a reason that lay in the model:

* `BrokenIsHidden` was false with four runs and two failures, beyond the instance: a
  backup that had found the marker removed outlives a failed restore and meets the next one.
  `exposed` now lasts as long as such a backup (`Hide`). The corrected model was also checked
  with four runs.
* `AnnouncedOnce` was false with three requests: a rotation that overlaps a set-up clears the
  mark and keeps the set-up. `unmarked` now counts this, as the code does not prevent it.
* `Expired` deleted an account without a date. With SQL's comparison instead, the account is
  never deleted: `Review_forgotten`.
* The absence of duplicates held only for cycles shorter than leases, which nothing enforces.
  `overtaken` now counts the takeovers, and `DuplicatesExplained` holds for every length.
* In `Mailbox` a sender without a free token took one that was in use; it now follows none.

### Only model-checked

Liveness (fairness and ENABLED are out of the prover's reach): `EventuallySettled`,
`EventuallyErased`, `ReadThenErased`, `DisabledIsDeleted`, `NoticeEventually`, `RequestsEnd`,
`PendingEnds`, `OwnerToldEventually`. The violations are runs of TLC too.

## 5. What the modules do not say

The composition of `Access`, `Mailbox` and `AccountReview` with `Relay` is not a module:
together they have too many states for TLC, and their interfaces are free choices in
each. SMTP and IMAP servers, the entitlement provider, Docker and the operating system
are external and may do what their protocols allow.

## 6. Plan

* The web routers of the administration that change what the modules are about (system
  configuration while a pass runs) as actions instead of constants.
* An abstract specification of the account's life that `AccountReview` implements, with the
  step simulation as for `Relay`.
* The safety half of the liveness properties as theorems: which steps can undo the progress
  of a delivery, a review, a notice.

## 7. Not modelled

* Texts and languages (`i18n.py`), the public site and its Markdown, QR codes, pages and
  forms: rendering without state.
* First set-up (`setup.py`, the writer of `.env`), migrations, `check_version`: one-time
  scripts that run alone.
* Settings and their validation (`config.py`, most of `system_config.py`): the periods and
  limits are constants of the modules.
* Logging, audit rows and their purge, the administrator's own login and session, cookies
  and CSRF tokens: nothing in the modelled behaviour depends on them.
* Cryptography, MIME and archive formats: an archive is readable or not, a report has its
  actions, a link is a number.
