------------------------------ MODULE Mailbox ------------------------------
(***************************************************************************)
(* What becomes of an e-mail after it was handed over: the tracking row,   *)
(* the delivery reports that arrive in the technical mailbox, the contact  *)
(* that a final failure invalidates, the confirmation that validates it    *)
(* again, and the reminders of the owner about invalid contacts.           *)
(*                                                                         *)
(* The scheduler reads the mailbox and sends reminders, one after the      *)
(* other; a web thread sends a verification e-mail, others confirm a       *)
(* contact and save the mail settings.  A transaction writes only columns  *)
(* that differ from what it has read.  An operator Mut... is a faulty      *)
(* variant of the definition after it.                                     *)
(***************************************************************************)
EXTENDS Naturals, FiniteSets

CONSTANTS
  Owners, Others,     \* contacts of the account owner, and of the partners
  Asked,              \* the contacts with an open link of a review
  Addresses,          \* sender addresses, each with a mailbox of its own
  Contents,           \* the sets of reports that a message may hold
  None,
  Scheduler, Web,     \* senders
  Interval,           \* contact_problem_reminder_days
  Retention,          \* TRACKING_RETENTION_DAYS
  MaxTokens, MaxMail, MaxClock, MaxEdits, MaxResends, MaxFaults   \* bounds

Contacts == Owners \cup Others
Senders  == {Scheduler, Web}
Tokens   == 1..MaxTokens      \* 0: not tracked
Finals   == {"failed", "delivered"}
Actions  == Finals \cup {"delayed"}

ASSUME MailboxAssumption ==
  /\ Owners \cap Others = {} /\ Asked \subseteq Contacts /\ Contents \subseteq SUBSET Actions
  /\ None \notin Addresses \cup Senders \cup Contacts /\ Scheduler # Web /\ Addresses # {}
  /\ {Interval, Retention, MaxTokens, MaxMail, MaxClock, MaxEdits, MaxResends, MaxFaults}
       \subseteq Nat

VARIABLES
  sender, acknowledged,   \* SmtpConfiguration: the sender; the mailbox acknowledged, or None
  contact,                \* ContactMethod: verified, failures, failed (a failure is recorded)
  links,                  \* the confirmation links that are open, by contact
  reminded,               \* Account.last_contact_problem_reminder_at, 0: NULL
  tracks,                 \* EmailDeliveryTracking, by token
  mailbox,                \* external: messages in the mailboxes
  outside,                \* external: tokens handed over, with the address reports go to
  lock,                   \* who holds the write lock
  job,                    \* what each sender executes
  saving,                 \* the administrators' requests: what each saves and what it has read
  counted,                \* history: how often a failure was recorded for a token
  clock, edits, resends, faults

database == <<sender, acknowledged, contact, links, reminded, tracks>>
bounds   == <<edits, resends, faults>>
vars     == <<database, mailbox, outside, lock, job, saving, counted, clock, bounds>>

NoTrack == [contact |-> None, expires |-> 0, result |-> "none", done |-> FALSE]
Idle == [at |-> "idle", now |-> 0, config |-> None, todo |-> {}, mail |-> None, from |-> None,
         to |-> {}, seen |-> <<>>, last |-> 0, token |-> 0, rows |-> {}, refused |-> {},
         success |-> FALSE]

Init ==
  /\ sender = (CHOOSE a \in Addresses : TRUE) /\ acknowledged \in {sender, None}
  /\ contact = [c \in Contacts |-> [verified |-> TRUE, failures |-> 0, failed |-> FALSE]]
  /\ links = [c \in Contacts |-> IF c \in Asked THEN {"review"} ELSE {}] /\ reminded = 0
  /\ tracks = [t \in Tokens |-> NoTrack] /\ mailbox = {} /\ outside = [t \in Tokens |-> None]
  /\ lock = None /\ job = [s \in Senders |-> Idle] /\ saving = {}
  /\ counted = [t \in Tokens |-> 0]
  /\ clock = 1 /\ edits = 0 /\ resends = 0 /\ faults = 0

At(s, step) == job[s].at = step
Free(s) == lock \in {None, s}
Fault == faults < MaxFaults /\ faults' = faults + 1

\* The columns that a flush writes: those whose new value differs from the one read.
Written(seen, new, current) ==
  [f \in DOMAIN current |-> IF new[f] = seen[f] THEN current[f] ELSE new[f]]

\* A failure is recorded: its time is always new.
Failed(seen, current) ==
  [Written(seen, [verified |-> FALSE, failures |-> seen.failures + 1, failed |-> TRUE], current)
     EXCEPT !.failed = TRUE]

Confirmed == [verified |-> TRUE, failures |-> 0, failed |-> FALSE]
Forgets(seen) == IF seen = 0 THEN reminded ELSE 0   \* last_contact_problem_reminder_at = None

\* Reports are read only for the sender whose mailbox was acknowledged.
MutReadFrom == IF acknowledged = None THEN None ELSE sender
ReadFrom == IF acknowledged = sender THEN sender ELSE None

-----------------------------------------------------------------------------
(* The pass over the mailbox. *)

\* The message is done with; the mailbox is done with.
Done == [job[Scheduler] EXCEPT !.at = "read", !.mail = None, !.seen = <<>>, !.last = 0]
ToReminders == [Idle EXCEPT !.at = "remind", !.now = job[Scheduler].now]

\* Expired rows go; then the configuration is read.
StartPass ==
  /\ job[Scheduler] = Idle /\ Free(Scheduler)
  /\ tracks' = [t \in Tokens |-> IF tracks[t].expires <= clock THEN NoTrack ELSE tracks[t]]
  /\ job' = [job EXCEPT ![Scheduler].at = "load", ![Scheduler].now = clock]
  /\ UNCHANGED <<sender, acknowledged, contact, links, reminded, mailbox, outside, lock,
                 saving, counted, clock, bounds>>

\* Without a mailbox, or when it cannot be listed, the pass goes on with its e-mails.
LoadMailbox ==
  /\ At(Scheduler, "load")
  /\ LET listed == {m \in mailbox : m.at = ReadFrom} IN
     \/ /\ ReadFrom # None /\ UNCHANGED faults
        /\ job' = [job EXCEPT ![Scheduler].at = "read", ![Scheduler].config = ReadFrom,
                              ![Scheduler].todo = listed]
     \/ /\ ReadFrom = None \/ faults < MaxFaults
        /\ faults' = IF ReadFrom = None THEN faults ELSE faults + 1
        /\ job' = [job EXCEPT ![Scheduler] = ToReminders]
  /\ UNCHANGED <<database, mailbox, outside, lock, saving, counted, clock, edits, resends>>

\* One report of the message counts: the final ones first.
Report(m) == CHOOSE a \in m.actions :
  \/ a = "failed" \/ (a = "delivered" /\ "failed" \notin m.actions) \/ m.actions = {"delayed"}

MutOpen(m) == tracks[m.token] # NoTrack /\ tracks[m.token].expires > job[Scheduler].now
Open(m) ==
  /\ tracks[m.token] # NoTrack /\ tracks[m.token].expires > job[Scheduler].now
  /\ ~tracks[m.token].done

\* Fetch and parse a message, read the rows it is about.
ReadMessage(m) ==
  LET j == job[Scheduler] IN
  /\ At(Scheduler, "read") /\ m \in j.todo
  /\ job' = [job EXCEPT ![Scheduler] =
       IF m.actions # {} /\ Open(m)
       THEN [j EXCEPT !.at = "apply", !.mail = m, !.todo = @ \ {m}, !.last = reminded,
                      !.seen = contact[tracks[m.token].contact]]
       ELSE [j EXCEPT !.at = "flag", !.mail = m, !.todo = @ \ {m}]]
  /\ UNCHANGED <<database, mailbox, outside, lock, saving, counted, clock, bounds>>

ApplyReport ==
  LET j == job[Scheduler]
      t == j.mail.token
      c == tracks[t].contact
      action == Report(j.mail)
  IN
  /\ At(Scheduler, "apply") /\ Free(Scheduler)
  /\ tracks' = [tracks EXCEPT ![t].result = action, ![t].done = @ \/ action \in Finals]
  /\ IF action = "failed"
     THEN /\ contact' = [contact EXCEPT ![c] = Failed(j.seen, @)]
          /\ reminded' = Forgets(j.last)
          /\ counted' = [counted EXCEPT ![t] = @ + 1]
     ELSE UNCHANGED <<contact, reminded, counted>>
  /\ job' = [job EXCEPT ![Scheduler] = [j EXCEPT !.at = "flag", !.seen = <<>>, !.last = 0]]
  /\ UNCHANGED <<sender, acknowledged, links, mailbox, outside, lock, saving, clock, bounds>>

\* An error while one message is processed rolls back and leaves the message.
MutAfterError == [job[Scheduler] EXCEPT !.at = "flag"]
AfterError == Done
ReportFails ==
  /\ At(Scheduler, "apply") /\ Fault
  /\ job' = [job EXCEPT ![Scheduler] = AfterError]
  /\ UNCHANGED <<database, mailbox, outside, lock, saving, counted, clock, edits, resends>>

FlagMessage ==
  /\ At(Scheduler, "flag")
  /\ mailbox' = {IF m.id = job[Scheduler].mail.id THEN [m EXCEPT !.flagged = TRUE] ELSE m :
                   m \in mailbox}
  /\ job' = [job EXCEPT ![Scheduler] = Done]
  /\ UNCHANGED <<database, outside, lock, saving, counted, clock, bounds>>

Expunge ==
  /\ At(Scheduler, "read") /\ job[Scheduler].todo = {}
  /\ mailbox' = {m \in mailbox : ~(m.flagged /\ m.at = job[Scheduler].config)}
  /\ job' = [job EXCEPT ![Scheduler] = ToReminders]
  /\ UNCHANGED <<database, outside, lock, saving, counted, clock, bounds>>

\* The connection breaks: what is flagged stays until a later pass.
MailboxFails ==
  /\ job[Scheduler].at \in {"read", "flag"} /\ Fault
  /\ job' = [job EXCEPT ![Scheduler] = ToReminders]
  /\ UNCHANGED <<database, mailbox, outside, lock, saving, counted, clock, edits, resends>>

-----------------------------------------------------------------------------
(* Sending: send_tracked_email within a transaction of its caller. *)

MutDue(now) == reminded # 0 /\ reminded + Interval <= now
Due(now) == reminded = 0 \/ reminded + Interval <= now
Problems    == {c \in Contacts : ~contact[c].verified /\ contact[c].failed}
Reachable   == {c \in Owners : contact[c].verified}

\* The reminder about the contacts that have failed; without any, the next one is due at once.
StartReminder ==
  /\ At(Scheduler, "remind")
  /\ IF Due(job[Scheduler].now) /\ Problems # {} /\ Reachable # {}
     THEN /\ job' = [job EXCEPT ![Scheduler] =
               [Idle EXCEPT !.at = "begin", !.now = job[Scheduler].now, !.from = sender,
                            !.to = Reachable, !.seen = contact, !.last = reminded]]
          /\ UNCHANGED reminded
     ELSE /\ job' = [job EXCEPT ![Scheduler] = Idle]
          /\ reminded' = IF Due(job[Scheduler].now) /\ Problems = {} THEN 0 ELSE reminded
  /\ UNCHANGED <<sender, acknowledged, contact, links, tracks, mailbox, outside, lock,
                 saving, counted, clock, bounds>>

\* A new verification link, which makes the contact unconfirmed, and its e-mail
StartResend(c) ==
  /\ job[Web] = Idle /\ Free(Web) /\ resends < MaxResends /\ resends' = resends + 1
  /\ contact' = [contact EXCEPT ![c].verified = FALSE]
  /\ links' = [links EXCEPT ![c] = @ \ {"verify"}]
  /\ job' = [job EXCEPT ![Web] = [Idle EXCEPT !.at = "begin", !.now = clock, !.from = sender,
                                              !.to = {c}, !.seen = contact', !.last = reminded]]
  /\ UNCHANGED <<sender, acknowledged, reminded, tracks, mailbox, outside, lock, saving,
                 counted, clock, edits, faults>>

\* Every e-mail has a token of its own; once MaxTokens are used no report of later ones is
\* followed.
Used == {t \in Tokens : \/ tracks[t] # NoTrack \/ outside[t] # None
                        \/ \E s \in Senders : t = job[s].token}
FreshToken == IF Used = Tokens THEN 0 ELSE CHOOSE t \in Tokens \ Used : TRUE

\* With reports enabled the row is flushed before the e-mail goes out: the lock is taken.
BeginSend(s, c) ==
  /\ At(s, "begin") /\ c \in job[s].to
  /\ IF ReadFrom # None
     THEN /\ Free(s) /\ lock' = s
          /\ job' = [job EXCEPT ![s] = [job[s] EXCEPT !.at = "send", !.to = @ \ {c}, !.mail = c,
                                                    !.token = FreshToken]]
     ELSE /\ job' = [job EXCEPT ![s] = [job[s] EXCEPT !.at = "send", !.to = @ \ {c}, !.mail = c,
                                                    !.token = 0]]
          /\ UNCHANGED lock
  /\ UNCHANGED <<database, mailbox, outside, saving, counted, clock, bounds>>

\* The e-mail of the web brings the link.
HandOver(s) ==
  /\ outside' = [t \in Tokens |-> IF t = job[s].token THEN job[s].from ELSE outside[t]]
  /\ links' = [c \in Contacts |->
       links[c] \cup (IF s = Web /\ c = job[s].mail THEN {"verify"} ELSE {})]
Sent(s) == [job[s] EXCEPT !.at = IF job[s].to = {} THEN "commit" ELSE "begin", !.mail = None,
                          !.token = 0]

Accepted(s) ==
  /\ At(s, "send") /\ HandOver(s)
  /\ job' = [job EXCEPT ![s] = [Sent(s) EXCEPT !.success = TRUE,
               !.rows = @ \cup {[token |-> job[s].token, contact |-> job[s].mail,
                                 expires |-> clock + Retention]}]]
  /\ UNCHANGED <<sender, acknowledged, contact, reminded, tracks, mailbox, lock,
                 saving, counted, clock, bounds>>

\* A temporary error: the row goes, although the server may have accepted the e-mail.
Unclear(s) ==
  /\ At(s, "send") /\ Fault
  /\ HandOver(s) \/ UNCHANGED <<outside, links>>
  /\ job' = [job EXCEPT ![s] = Sent(s)]
  /\ UNCHANGED <<sender, acknowledged, contact, reminded, tracks, mailbox, lock,
                 saving, counted, clock, edits, resends>>

Refused(s) ==
  /\ At(s, "send")
  /\ job' = [job EXCEPT ![s] = [Sent(s) EXCEPT !.refused = @ \cup {job[s].mail}]]
  /\ UNCHANGED <<database, mailbox, outside, lock, saving, counted, clock, bounds>>

MutReleased(s) == lock
Released(s) == IF lock = s THEN None ELSE lock

CommitSend(s) ==
  LET j == job[s]
      row(t) == {r \in j.rows : r.token = t}
  IN
  /\ At(s, "commit") /\ Free(s)
  /\ tracks' = [t \in Tokens |-> IF row(t) = {} THEN tracks[t]
       ELSE LET r == CHOOSE r \in row(t) : TRUE
            IN [NoTrack EXCEPT !.contact = r.contact, !.expires = r.expires]]
  /\ contact' = [c \in Contacts |->
       IF c \in j.refused THEN Failed(j.seen[c], contact[c]) ELSE contact[c]]
  /\ reminded' = IF s = Scheduler /\ j.success THEN j.now
                 ELSE IF j.refused # {} THEN Forgets(j.last) ELSE reminded
  /\ lock' = Released(s) /\ job' = [job EXCEPT ![s] = Idle]
  /\ UNCHANGED <<sender, acknowledged, links, mailbox, outside, saving, counted, clock, bounds>>

Crash(s) ==
  /\ job[s] # Idle /\ Fault
  /\ job' = [job EXCEPT ![s] = Idle] /\ lock' = Released(s)
  /\ UNCHANGED <<database, mailbox, outside, saving, counted, clock, edits, resends>>

-----------------------------------------------------------------------------
(* Confirmations. *)

\* The verification link: its UPDATE takes the lock before the contact is read.
Verify(c) ==
  /\ "verify" \in links[c] /\ Free(None)
  /\ contact' = [contact EXCEPT ![c] = Confirmed]
  /\ links' = [links EXCEPT ![c] = {}]
  /\ UNCHANGED <<sender, acknowledged, reminded, tracks, mailbox, outside, lock, job, saving,
                 counted, clock, bounds>>

\* The review link: the same UPDATE finds no row, and takes the lock too.
ConfirmReview(c) ==
  /\ "review" \in links[c] /\ Free(None)
  /\ contact' = [contact EXCEPT ![c] = Confirmed]
  /\ links' = [links EXCEPT ![c] = @ \ {"review"}]
  /\ UNCHANGED <<sender, acknowledged, reminded, tracks, mailbox, outside, lock, job, saving,
                 counted, clock, bounds>>

-----------------------------------------------------------------------------
(* The mail settings: read, checked, written. *)

\* A save that keeps the sender it has read is left out.
OpenSettings ==
  /\ edits < MaxEdits /\ edits' = edits + 1
  /\ \E what \in (Addresses \ {sender}) \cup {"acknowledge", "disable"} :
       saving' = saving \cup {[what |-> what, sender |-> sender, acknowledged |-> acknowledged]}
  /\ UNCHANGED <<database, mailbox, outside, lock, job, counted, clock, resends, faults>>

\* Only the sender that was read can be acknowledged; disabling withdraws it.
Acknowledgement(r) == IF r.what = "acknowledge" THEN r.sender ELSE None

\* A new sender withdraws the acknowledgement too, if there was one when it was read.
SaveSettings ==
  /\ Free(None)
  /\ \E r \in saving :
       LET new == Acknowledgement(r) IN
       /\ saving' = saving \ {r}
       /\ sender' = IF r.what \in Addresses THEN r.what ELSE sender
       /\ acknowledged' = IF new = r.acknowledged THEN acknowledged ELSE new
  /\ UNCHANGED <<contact, links, reminded, tracks, mailbox, outside, lock, job, counted,
                 clock, bounds>>

-----------------------------------------------------------------------------
(* The surroundings. *)

\* A report about an e-mail that was handed over, in any order and repeatedly
Arrive(t) ==
  /\ outside[t] # None /\ Cardinality(mailbox) < MaxMail
  /\ \E actions \in Contents, id \in 1..MaxMail :
       /\ \A m \in mailbox : m.id # id
       /\ mailbox' = mailbox \cup {[id |-> id, at |-> outside[t], token |-> t, actions |-> actions,
                                    known |-> tracks[t] # NoTrack, flagged |-> FALSE]}
  /\ UNCHANGED <<database, outside, lock, job, saving, counted, clock, bounds>>

Tick ==
  /\ clock < MaxClock /\ clock' = clock + 1
  /\ UNCHANGED <<database, mailbox, outside, lock, job, saving, counted, bounds>>

PassStep ==
  \/ StartPass \/ LoadMailbox \/ (\E m \in job[Scheduler].todo : ReadMessage(m)) \/ ApplyReport
  \/ ReportFails \/ FlagMessage \/ Expunge \/ MailboxFails \/ StartReminder
SendStep(s) ==
  \/ (\E c \in job[s].to : BeginSend(s, c)) \/ Accepted(s) \/ Unclear(s) \/ Refused(s)
  \/ CommitSend(s)

Next ==
  \/ PassStep \/ (\E s \in Senders : SendStep(s) \/ Crash(s))
  \/ \E c \in Contacts : StartResend(c) \/ Verify(c) \/ ConfirmReview(c)
  \/ OpenSettings \/ SaveSettings \/ (\E t \in Tokens : Arrive(t)) \/ Tick

Spec == Init /\ [][Next]_vars

\* The scheduler runs pass after pass, and a request of the web ends.
Moves(s) == job'[s] # job[s]
FairSpec ==
  /\ Spec
  /\ []<><<Moves(Scheduler)>>_vars
  /\ []<>(job[Web] = Idle) \/ []<><<Moves(Web)>>_vars
=============================================================================
