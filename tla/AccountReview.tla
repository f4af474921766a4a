--------------------------- MODULE AccountReview ---------------------------
(***************************************************************************)
(* The periodic review of one account.  When a review is due the scheduler *)
(* asks every confirmed contact for a confirmation by a one-time link, and *)
(* the account holder confirms people and assignments.  Both together      *)
(* finish the review and create the next one; an unattended account is     *)
(* disabled and in the end deleted.                                        *)
(*                                                                         *)
(* A step is one committed transaction or one read before it.  A request   *)
(* writes a column of the account only if the new value differs from the   *)
(* row it has loaded, possibly long before (seen).  Counting statements    *)
(* read the database, not the request's own assignments that are not       *)
(* flushed yet (autoflush=False).                                          *)
(*                                                                         *)
(* Times are ticks from 1; 0 stands for NULL.  Mut... are faulty variants  *)
(* that stand in for the definition they precede; nothing uses them.       *)
(***************************************************************************)
EXTENDS Integers, FiniteSets

CONSTANTS
  Contacts,      \* identities of contact methods
  First,         \* the contact the account is registered with
  Requests,      \* request threads
  Days,          \* account_review_reminder_days, relative to the due date
  Interval,      \* account_review_interval_days
  Grace,         \* account_review_grace_days
  Retention,     \* account_retention_after_disable_days
  PendingLife,   \* account_pending_retention_days
  CodeLife,      \* life of a first confirmation link
  Lease,         \* REVIEW_REMINDER_PROCESSING_LEASE
  MaxReviews,    \* bound: reviews of the account
  MaxEdits,      \* bound: changes of contacts, locks, bounces and crashes
  MaxClock,      \* bound: last tick
  NoContact

Reviews   == 1..MaxReviews
Asks      == Reviews \X Contacts
Reminders == Reviews \X Days

Stages == {"pending", "active", "overdue", "disabled", "scheduled", "deleted"}

ASSUME ConstantsAssumption ==
  /\ First \in Contacts /\ NoContact \notin Contacts \cup Days
  /\ Days \subseteq Int
  /\ {Interval, PendingLife, CodeLife, Lease, MaxClock} \subseteq Nat \ {0}
  /\ {Grace, Retention, MaxReviews, MaxEdits} \subseteq Nat

VARIABLES
  clock,
  \* accounts
  status, locked, disabledAt, deletionDue, nextDue, graceDue,
  \* account_reviews: when each is due, and which are confirmed
  due, details, done,
  \* contact_methods: ever created, existing, is_verified, verification_expires_at
  created, contacts, verified, codeUntil,
  \* contact_reviews, with the number of links issued; contact_review_tokens
  askedUntil, lastDay, answered, issued, links,
  \* review_reminders: sent_at, processing_until
  sent, leased,
  \* requests: what each does and what its session has loaded
  doing, seen,
  \* the scheduler's pass
  step, passAt, todo, known, seenGrace, asking,
  \* history: last tick the account allowed access, links that confirmed a contact
  accessAt, confirmations,
  edits

accountVars == <<status, locked, disabledAt, deletionDue, nextDue, graceDue>>
reviewVars  == <<due, details, done>>
contactVars == <<created, contacts, verified, codeUntil>>
askVars     == <<askedUntil, lastDay, answered, issued, links>>
reminderVars == <<sent, leased>>
requestVars == <<doing, seen>>
passVars    == <<step, passAt, todo, known, seenGrace, asking>>
rowVars     == <<accountVars, reviewVars, contactVars, askVars, reminderVars>>
historyVars == <<accessAt, confirmations>>
vars == <<clock, rowVars, requestVars, passVars, historyVars, edits>>

-----------------------------------------------------------------------------
(* What the code reads. *)

Allows == status \in {"active", "overdue"} /\ ~locked

Exists(r) == due[r] # 0
Open == {r \in Reviews : Exists(r) /\ r \notin done}
\* The unconfirmed review with the latest due date
Current(r) == r \in Open /\ \A o \in Open : due[o] <= due[r]
Fresh      == {r \in Reviews : ~Exists(r) /\ \A o \in Reviews : ~Exists(o) => r <= o}

Asked(r, c)   == askedUntil[<<r, c>>] # 0
Waiting(r, c) == Asked(r, c) /\ <<r, c>> \notin answered

\* Neither a contact review of this review nor a contact is unconfirmed
Complete(r, existing) ==
  /\ \A c \in existing : ~Waiting(r, c)
  /\ existing \subseteq verified

AccountNow  == [status |-> status, disabledAt |-> disabledAt, deletionDue |-> deletionDue]
NothingSeen == [account |-> [status |-> "pending", disabledAt |-> 0, deletionDue |-> 0],
                contact |-> NoContact, review |-> 0, link |-> 0,
                complete |-> FALSE, at |-> 0]
NothingAsked == [reminder |-> <<0, 0>>, new |-> {}, open |-> {}]

-----------------------------------------------------------------------------
(* Parts of transactions. *)

\* _create_review, at tick now
MutCreateReview(now) ==
  /\ \E r \in Fresh : due' = [due EXCEPT ![r] = nextDue + Interval]
  /\ nextDue' = now + Interval
  /\ graceDue' = now + Interval + Grace

CreateReview(now) ==
  /\ \E r \in Fresh : due' = [due EXCEPT ![r] = now + Interval]
  /\ nextDue' = now + Interval
  /\ graceDue' = now + Interval + Grace

\* _finish_review_if_complete once it has found review r complete
Finish(q, r, now) ==
  /\ done' = done \cup {r}
  /\ status' = IF seen[q].account.status # "active" THEN "active" ELSE status
  /\ disabledAt' = IF seen[q].account.disabledAt # 0 THEN 0 ELSE disabledAt
  /\ deletionDue' = IF seen[q].account.deletionDue # 0 THEN 0 ELSE deletionDue
  /\ CreateReview(now)
  /\ UNCHANGED locked

FinishIf(complete, q, r, now) ==
  \/ complete /\ Finish(q, r, now)
  \/ ~complete /\ UNCHANGED <<accountVars, due, done>>

Return(q) ==
  /\ doing' = [doing EXCEPT ![q] = "idle"]
  /\ seen' = [seen EXCEPT ![q] = NothingSeen]

-----------------------------------------------------------------------------
(* Registration has just committed: one contact, its first link on the way. *)

Init ==
  /\ clock = 1
  /\ status = "pending" /\ locked = FALSE
  /\ disabledAt = 0 /\ deletionDue = 0 /\ nextDue = 0 /\ graceDue = 0
  /\ due = [r \in Reviews |-> 0] /\ details = {} /\ done = {}
  /\ created = {First} /\ contacts = {First} /\ verified = {}
  /\ codeUntil = [c \in Contacts |-> IF c = First THEN 1 + CodeLife ELSE 0]
  /\ askedUntil = [a \in Asks |-> 0] /\ lastDay = [a \in Asks |-> NoContact]
  /\ answered = {} /\ issued = [a \in Asks |-> 0] /\ links = {}
  /\ sent = {} /\ leased = [m \in Reminders |-> 0]
  /\ doing = [q \in Requests |-> "idle"]
  /\ seen = [q \in Requests |-> NothingSeen]
  /\ step = "idle" /\ passAt = 0 /\ todo = {} /\ known = {} /\ seenGrace = 0
  /\ asking = NothingAsked
  /\ accessAt = 0 /\ confirmations = [a \in Asks |-> 0]
  /\ edits = 0

-----------------------------------------------------------------------------
(* The account holder's requests.  Each loads the account first (dependency *)
(* account_owner_account).                                                  *)

Enter(q) ==
  /\ doing[q] = "idle"
  /\ Allows
  /\ doing' = [doing EXCEPT ![q] = "entered"]
  /\ seen' = [seen EXCEPT ![q] = [NothingSeen EXCEPT !.account = AccountNow]]
  /\ UNCHANGED <<clock, rowVars, passVars, historyVars, edits>>

\* confirm_review reads the current review and counts what is open, ...
ConfirmRead(q) ==
  /\ doing[q] = "entered"
  /\ \E r \in Reviews :
       /\ Current(r) /\ due[r] <= clock
       /\ doing' = [doing EXCEPT ![q] = "confirming"]
       /\ seen' = [seen EXCEPT ![q].review = r, ![q].at = clock,
                               ![q].complete = Complete(r, contacts)]
  /\ UNCHANGED <<clock, rowVars, passVars, historyVars, edits>>

\* ... then writes and commits.
ConfirmCommit(q) ==
  LET r == seen[q].review IN
  /\ doing[q] = "confirming" /\ Exists(r)
  /\ details' = details \cup {r}
  /\ FinishIf(seen[q].complete, q, r, seen[q].at)
  /\ Return(q)
  /\ UNCHANGED <<clock, contactVars, askVars, reminderVars, passVars, historyVars, edits>>

\* delete_contact, and delete_partner with the partner's contacts: the DELETE takes
\* the write lock, the counts follow it.
Remove(q, gone) ==
  LET completes(r) == r \in details /\ Complete(r, contacts \ gone)
  IN
  /\ doing[q] = "entered"
  /\ gone # {} /\ gone \subseteq contacts
  /\ edits < MaxEdits /\ edits' = edits + 1
  /\ contacts' = contacts \ gone /\ verified' = verified \ gone
  /\ links' = {l \in links : l[2] \notin gone}
  /\ askedUntil' = [a \in Asks |-> IF a[2] \in gone THEN 0 ELSE askedUntil[a]]
  /\ codeUntil' = [c \in Contacts |-> IF c \in gone THEN 0 ELSE codeUntil[c]]
  /\ \/ \E r \in Reviews : Current(r) /\ FinishIf(completes(r), q, r, clock)
     \/ Open = {} /\ UNCHANGED <<accountVars, due, done>>
  /\ Return(q)
  /\ UNCHANGED <<clock, details, created, lastDay, answered, issued, reminderVars, passVars,
                 historyVars>>

\* add_contact; and resend_contact_verification, which takes the confirmation back
SendCode(q, c) ==
  /\ doing[q] = "entered"
  /\ status # "deleted" /\ (c \in contacts \/ c \notin created)
  /\ edits < MaxEdits /\ edits' = edits + 1
  /\ created' = created \cup {c} /\ contacts' = contacts \cup {c}
  /\ verified' = verified \ {c}
  /\ codeUntil' = [codeUntil EXCEPT ![c] = clock + CodeLife]
  /\ Return(q)
  /\ UNCHANGED <<clock, accountVars, reviewVars, askVars, reminderVars, passVars, historyVars>>

-----------------------------------------------------------------------------
(* confirm_contact: a link from an e-mail.  The request first loads the     *)
(* contact and the account to check them (contact_confirmation_account).    *)

OpenCode(q, c) ==
  /\ doing[q] = "idle"
  /\ c \in contacts /\ codeUntil[c] > clock
  /\ doing' = [doing EXCEPT ![q] = "code"]
  /\ seen' = [seen EXCEPT ![q] = [NothingSeen EXCEPT !.account = AccountNow, !.contact = c]]
  /\ UNCHANGED <<clock, rowVars, passVars, historyVars, edits>>

OpenLink(q, r, c, n) ==
  /\ doing[q] = "idle"
  /\ <<r, c, n>> \in links /\ askedUntil[<<r, c>>] > clock /\ <<r, c>> \notin answered
  /\ doing' = [doing EXCEPT ![q] = "link"]
  /\ seen' = [seen EXCEPT ![q] = [NothingSeen EXCEPT !.account = AccountNow, !.contact = c,
                                    !.review = r, !.link = n]]
  /\ UNCHANGED <<clock, rowVars, passVars, historyVars, edits>>

\* Contact c answers its contact review of r, which uses up every link to it.
Answer(c, r) ==
  /\ answered' = answered \cup {<<r, c>>}
  /\ links' = {l \in links : <<l[1], l[2]>> # <<r, c>>}

\* The counts do not see the confirmation just made.
FinishAfterAnswer(q, r) ==
  FinishIf(r \in details \ done /\ Complete(r, contacts), q, r, clock)

\* verify_contact with the link of a contact review: the DELETE consumes it.
MutLinkValid(l) == askedUntil[<<l[1], l[2]>>] > clock
LinkValid(l) == l \in links /\ askedUntil[<<l[1], l[2]>>] > clock

VerifyLink(q) ==
  LET r == seen[q].review
      c == seen[q].contact
  IN
  /\ doing[q] = "link"
  /\ LinkValid(<<r, c, seen[q].link>>)
  /\ verified' = verified \cup {c}
  /\ Answer(c, r)
  /\ FinishAfterAnswer(q, r)
  /\ confirmations' = [confirmations EXCEPT ![<<r, c>>] = @ + 1]
  /\ Return(q)
  /\ UNCHANGED <<clock, details, created, contacts, codeUntil, askedUntil, lastDay, issued,
                 reminderVars, passVars, accessAt, edits>>

\* verify_contact with a first link: the UPDATE consumes it.  It answers the newest
\* contact review that waits; the first one of a pending account activates it.
VerifyCode(q) ==
  LET c == seen[q].contact IN
  /\ doing[q] = "code"
  /\ c \in contacts /\ codeUntil[c] > clock
  /\ codeUntil' = [codeUntil EXCEPT ![c] = 0] /\ verified' = verified \cup {c}
  /\ \/ /\ seen[q].account.status = "pending"
        /\ status' = "active" /\ CreateReview(clock)
        /\ UNCHANGED <<locked, disabledAt, deletionDue, done, answered, links>>
     \/ /\ seen[q].account.status # "pending"
        /\ \E r \in Reviews : /\ Waiting(r, c) /\ \A o \in Reviews : Waiting(o, c) => o <= r
                             /\ Answer(c, r) /\ FinishAfterAnswer(q, r)
     \/ /\ seen[q].account.status # "pending"
        /\ \A r \in Reviews : ~Waiting(r, c)
        /\ UNCHANGED <<accountVars, due, done, answered, links>>
  /\ Return(q)
  /\ UNCHANGED <<clock, details, created, contacts, askedUntil, lastDay, issued, reminderVars,
                 passVars, historyVars, edits>>

\* A request that ends without a change: nothing to do, a link already used, the
\* account gone.
Refuse(q) ==
  /\ \/ doing[q] = "entered"
     \/ doing[q] = "confirming" /\ ~Exists(seen[q].review)
     \/ doing[q] = "link" /\ ~LinkValid(<<seen[q].review, seen[q].contact, seen[q].link>>)
     \/ doing[q] = "code" /\ ~(seen[q].contact \in contacts /\ codeUntil[seen[q].contact] > clock)
  /\ Return(q)
  /\ UNCHANGED <<clock, rowVars, passVars, historyVars, edits>>

-----------------------------------------------------------------------------
(* One pass of the scheduler: the reminders that are due, then the         *)
(* lifecycle, all with the clock read at its start.                        *)

DueReminder(m, now) ==
  /\ Exists(m[1]) /\ due[m[1]] + m[2] <= now
  /\ m \notin sent /\ leased[m] <= now

StartPass ==
  /\ step = "idle"
  /\ step' = "reminders" /\ passAt' = clock
  /\ todo' = {m \in Reminders : DueReminder(m, clock)}
  /\ UNCHANGED <<clock, rowVars, requestVars, known, seenGrace, asking, historyVars, edits>>

\* A reminder already sent, or gone with its account
DropReminder(m) ==
  /\ step = "reminders" /\ m \in todo /\ ~DueReminder(m, passAt)
  /\ todo' = todo \ {m}
  /\ UNCHANGED <<clock, rowVars, requestVars, step, passAt, known, seenGrace, asking,
                 historyVars, edits>>

\* The claim; then the review and the account, unless the session still has them
ClaimReminder(m) ==
  /\ step = "reminders" /\ m \in todo /\ DueReminder(m, passAt)
  /\ todo' = todo \ {m}
  /\ \/ /\ m[1] \in done \ known
        /\ sent' = sent \cup {m} /\ known' = {}
        /\ UNCHANGED <<leased, step, seenGrace, asking>>
     \/ /\ m[1] \notin done \ known
        /\ leased' = [leased EXCEPT ![m] = passAt + Lease]
        /\ known' = {m[1]}
        /\ seenGrace' = IF seenGrace = 0 THEN graceDue ELSE seenGrace
        /\ step' = "claimed" /\ asking' = [reminder |-> m, new |-> {}, open |-> {}]
        /\ UNCHANGED sent
  /\ UNCHANGED <<clock, accountVars, reviewVars, contactVars, askVars, requestVars, passAt,
                 historyVars, edits>>

\* The contacts to ask: every confirmed one, from the due date on (_ensure_contact_reviews)
AskContacts ==
  LET r == asking.reminder[1]
      d == asking.reminder[2]
      asked == IF d >= 0 THEN verified ELSE {}
  IN
  /\ step = "claimed"
  /\ step' = "asking"
  /\ asking' = [asking EXCEPT
       !.new  = {c \in asked : ~Asked(r, c)},
       !.open = {c \in asked : <<r, c>> \notin answered /\ lastDay[<<r, c>>] # d}]
  /\ UNCHANGED <<clock, rowVars, requestVars, passAt, todo, known, seenGrace, historyVars,
                 edits>>

\* Rows, links and e-mails, committed together.  Some sends fail for now, some
\* bounce at once; the holder's own e-mails may remain open, without a confirmed
\* contact even for good.
CommitReminder(failed, bounced, holderTold) ==
  LET m == asking.reminder
      asked == {<<m[1], c>> : c \in asking.open}
  IN
  /\ step = "asking"
  /\ Exists(m[1]) /\ asking.open \subseteq contacts
  /\ failed \subseteq asking.open /\ bounced \subseteq contacts \ failed
  /\ \/ failed \cup bounced = {} /\ (holderTold \/ verified = {}) /\ UNCHANGED edits
     \/ edits < MaxEdits /\ edits' = edits + 1
  /\ askedUntil' = [a \in Asks |->
       IF a[1] = m[1] /\ a[2] \in asking.new THEN seenGrace ELSE askedUntil[a]]
  /\ links' = links \cup {<<a[1], a[2], issued[a] + 1>> : a \in asked}
  /\ issued' = [a \in Asks |-> IF a \in asked THEN issued[a] + 1 ELSE issued[a]]
  /\ lastDay' = [a \in Asks |->
       IF a \in asked /\ a[2] \notin failed THEN m[2] ELSE lastDay[a]]
  /\ verified' = verified \ bounced
  /\ sent' = IF failed = {} /\ holderTold THEN sent \cup {m} ELSE sent
  /\ leased' = [leased EXCEPT ![m] = 0]
  /\ step' = "reminders" /\ asking' = NothingAsked
  /\ UNCHANGED <<clock, accountVars, reviewVars, created, contacts, codeUntil, answered,
                 requestVars, passAt, todo, known, seenGrace, historyVars>>

-----------------------------------------------------------------------------
(* LifecycleService.run.  Every selection reads the committed rows, so an  *)
(* account moves one stage in a pass.                                      *)

EndPass ==
  /\ step' = "idle" /\ passAt' = 0 /\ todo' = {} /\ known' = {} /\ seenGrace' = 0
  /\ asking' = NothingAsked

\* Contact reviews that ran out take the confirmation of their contact back.
Lapse(now) ==
  LET lapsed == {a \in Asks : Waiting(a[1], a[2]) /\ askedUntil[a] <= now} IN
  /\ links' = {l \in links : askedUntil[<<l[1], l[2]>>] > now}
  /\ verified' = verified \ {a[2] : a \in lapsed}

Overdue(now) ==
  /\ status = "active" /\ nextDue <= now
  /\ status' = "overdue"
  /\ UNCHANGED <<locked, disabledAt, deletionDue, nextDue, graceDue, accessAt>>

MutDeletionDate(now) == IF deletionDue = 0 THEN now + Retention ELSE deletionDue
DeletionDate(now) == now + Retention

Disable(now) ==
  /\ status = "overdue" /\ graceDue <= now
  /\ status' = "disabled" /\ disabledAt' = now /\ deletionDue' = DeletionDate(now)
  /\ accessAt' = now
  /\ UNCHANGED <<locked, nextDue, graceDue>>

\* A disabled account without a deletion date is given one.
MutUndated == status = "disabled" /\ deletionDue = 0 /\ ~locked
Undated == status = "disabled" /\ deletionDue = 0

Repair(now) ==
  LET since == IF disabledAt = 0 THEN now ELSE disabledAt IN
  /\ Undated
  /\ disabledAt' = since /\ deletionDue' = since + Retention
  /\ UNCHANGED <<status, locked, nextDue, graceDue, accessAt>>

Doomed(now) == status = "disabled" /\ deletionDue # 0 /\ deletionDue <= now

Schedule(now) ==
  /\ Doomed(now)
  /\ status' = "scheduled"
  /\ UNCHANGED <<locked, disabledAt, deletionDue, nextDue, graceDue, accessAt>>

Expired(now) ==
  \/ status = "pending" /\ 1 + PendingLife <= now
  \/ status = "scheduled" /\ deletionDue # 0 /\ deletionDue <= now

MutDeleteRows ==
  /\ status' = "deleted"
  /\ due' = [r \in Reviews |-> 0] /\ contacts' = {} /\ verified' = {}
  /\ codeUntil' = [c \in Contacts |-> 0]
  /\ askedUntil' = [a \in Asks |-> 0]
  /\ leased' = [m \in Reminders |-> 0]
  /\ UNCHANGED <<links, locked, disabledAt, deletionDue, nextDue, graceDue, accessAt>>

\* The account goes with everything that belongs to it.
DeleteRows ==
  /\ status' = "deleted"
  /\ due' = [r \in Reviews |-> 0] /\ contacts' = {} /\ verified' = {}
  /\ codeUntil' = [c \in Contacts |-> 0]
  /\ askedUntil' = [a \in Asks |-> 0] /\ links' = {}
  /\ leased' = [m \in Reminders |-> 0]
  /\ UNCHANGED <<locked, disabledAt, deletionDue, nextDue, graceDue, accessAt>>

NoStage(now) ==
  /\ ~(status = "active" /\ nextDue <= now)
  /\ ~(status = "overdue" /\ graceDue <= now)
  /\ ~Undated /\ ~Doomed(now) /\ ~Expired(now)
  /\ UNCHANGED <<accountVars, accessAt>>

Lifecycle ==
  /\ step = "reminders" /\ todo = {}
  /\ \/ Expired(passAt) /\ DeleteRows
     \/ /\ \/ Overdue(passAt)
           \/ Disable(passAt)
           \/ Repair(passAt)
           \/ Schedule(passAt)
           \/ NoStage(passAt)
        /\ Lapse(passAt)
        /\ UNCHANGED <<due, contacts, codeUntil, askedUntil, leased>>
  /\ EndPass
  /\ UNCHANGED <<clock, details, done, created, answered, issued, lastDay, sent, requestVars,
                 confirmations, edits>>

\* The pass ends early: the process dies, or a row it writes to is gone.
FailPass ==
  /\ step # "idle"
  /\ \/ edits < MaxEdits /\ edits' = edits + 1
     \/ /\ step = "asking"
        /\ ~(Exists(asking.reminder[1]) /\ asking.open \subseteq contacts)
        /\ UNCHANGED edits
  /\ EndPass
  /\ UNCHANGED <<clock, rowVars, requestVars, historyVars>>

-----------------------------------------------------------------------------
(* The surroundings. *)

\* disable_administratively
DisableAdministratively ==
  LET since == IF disabledAt = 0 THEN clock ELSE disabledAt IN
  /\ status # "deleted"
  /\ edits < MaxEdits /\ edits' = edits + 1
  /\ locked' = TRUE /\ status' = "disabled"
  /\ disabledAt' = since
  /\ deletionDue' = IF deletionDue = 0 THEN since + Retention ELSE deletionDue
  /\ UNCHANGED <<clock, nextDue, graceDue, reviewVars, contactVars, askVars, reminderVars,
                 requestVars, passVars, historyVars>>

\* delete_account by the holder, remove by the administration
DeleteAccount ==
  /\ status # "deleted"
  /\ edits < MaxEdits /\ edits' = edits + 1
  /\ DeleteRows
  /\ UNCHANGED <<clock, details, done, created, lastDay, answered, issued, sent, requestVars,
                 passVars, confirmations>>

\* A report that the e-mails to contact c bounce
Bounce(c) ==
  /\ c \in verified
  /\ edits < MaxEdits /\ edits' = edits + 1
  /\ verified' = verified \ {c}
  /\ UNCHANGED <<clock, accountVars, reviewVars, created, contacts, codeUntil, askVars,
                 reminderVars, requestVars, passVars, historyVars>>

Tick ==
  /\ clock < MaxClock
  /\ clock' = clock + 1
  /\ UNCHANGED <<rowVars, requestVars, passVars, historyVars, edits>>

RequestStep(q) ==
  \/ Enter(q) \/ ConfirmRead(q) \/ ConfirmCommit(q)
  \/ \E gone \in SUBSET Contacts : Remove(q, gone)
  \/ \E c \in Contacts : SendCode(q, c) \/ OpenCode(q, c)
  \/ \E l \in links : OpenLink(q, l[1], l[2], l[3])
  \/ VerifyLink(q) \/ VerifyCode(q) \/ Refuse(q)

PassStep ==
  \/ StartPass
  \/ \E m \in todo : DropReminder(m) \/ ClaimReminder(m)
  \/ AskContacts
  \/ \E failed, bounced \in SUBSET Contacts, holderTold \in BOOLEAN :
       CommitReminder(failed, bounced, holderTold)
  \/ Lifecycle \/ FailPass

Next ==
  \/ \E q \in Requests : RequestStep(q)
  \/ PassStep
  \/ DisableAdministratively \/ DeleteAccount
  \/ \E c \in Contacts : Bounce(c)
  \/ Tick

Spec == Init /\ [][Next]_vars

\* The scheduler loops for ever and is restarted; nothing else is bound to happen.
Fairness == WF_vars(PassStep) /\ WF_vars(Tick)
FairSpec == Spec /\ Fairness
=============================================================================
