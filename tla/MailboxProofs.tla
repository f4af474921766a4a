--------------------------- MODULE MailboxProofs ---------------------------
(***************************************************************************)
(* Proofs about the tracking of e-mails and the pass over the mailbox, for *)
(* every instance of Mailbox.                                              *)
(***************************************************************************)
EXTENDS MailboxProperties, TLAPS

(***************************************************************************)
(* The inductive invariant.                                                *)
(***************************************************************************)

Steps == {"idle", "load", "read", "apply", "flag", "remind", "begin", "send", "commit"}
Sending == {"begin", "send", "commit"}
ContactRows == [verified : BOOLEAN, failures : Nat, failed : BOOLEAN]
Messages == [id : Nat, at : Addresses, token : Tokens, actions : SUBSET Actions,
             known : BOOLEAN, flagged : BOOLEAN]
Rows == [token : 0..MaxTokens, contact : Contacts, expires : Nat]
Tracks == [contact : Contacts \cup {None}, expires : Nat, result : {"none"} \cup Actions,
           done : BOOLEAN]
JobRows(j) ==
  [at : Steps, now : Nat, config : Addresses \cup {None}, todo : SUBSET Messages, mail : {j.mail},
   from : Addresses \cup {None}, to : SUBSET Contacts, seen : {j.seen}, last : Nat,
   token : 0..MaxTokens, rows : SUBSET Rows, refused : SUBSET Contacts, success : BOOLEAN]

\* A job of a sender, and what it has read
JobTyped(j) ==
  /\ j \in JobRows(j) /\ j.now <= clock
  /\ j.at \in Sending => j.from \in Addresses /\ j.seen \in [Contacts -> ContactRows]
  /\ j.at = "send" => j.mail \in Contacts
  /\ j.token # 0 => j.at = "send"
  /\ j.at = "apply" => j.seen \in ContactRows

Typed ==
  /\ clock \in Nat /\ mailbox \subseteq Messages
  /\ tracks \in [Tokens -> Tracks] /\ outside \in [Tokens -> Addresses \cup {None}]
  /\ counted \in [Tokens -> 0..1]
  /\ job = [s \in Senders |-> job[s]] /\ \A s \in Senders : JobTyped(job[s])
  /\ \A r \in saving : r.sender \in Addresses

\* The tokens of the e-mails that a job has not committed yet
Held(s) == ({job[s].token} \cup {r.token : r \in job[s].rows}) \ {0}

\* A token under way has no row yet, no failure, and no other sender.
TokenInv ==
  /\ \A s \in Senders : \A t \in Held(s) : tracks[t] = NoTrack /\ counted[t] = 0
  /\ \A s \in Senders : \A r \in job[s].rows : r.token # 0 => outside[r.token] # None
  /\ Held(Scheduler) \cap Held(Web) = {}

\* A row belongs to an e-mail that was handed over; a counted failure has closed it.
TrackInv ==
  \A t \in Tokens :
    /\ tracks[t] # NoTrack => outside[t] # None /\ tracks[t].contact \in Contacts
    /\ counted[t] = 1 => outside[t] # None /\ (tracks[t] # NoTrack => tracks[t].done)

Settled(t) == tracks[t].done \/ tracks[t].expires <= clock
MustSettle(m) == m.known /\ "failed" \in m.actions

\* Once a row was there for it, no sender holds a token again: it is used up.
MailInv ==
  /\ \A m, n \in mailbox : m.id = n.id => m = n
  /\ \A m \in mailbox : /\ outside[m.token] # None
                        /\ m.known => \A s \in Senders : m.token \notin Held(s)
                        /\ m.flagged /\ MustSettle(m) => Settled(m.token)

\* The messages of the pass stay in the mailbox; the one in hand has an open row until its
\* report is applied, and is flagged only when it is settled.
InPass(j) ==
  /\ j.todo \subseteq mailbox
  /\ j.at \in {"apply", "flag"} => j.mail \in mailbox \ j.todo
  /\ j.at = "apply" => /\ j.mail.actions # {} /\ tracks[j.mail.token] # NoTrack
                       /\ ~tracks[j.mail.token].done
  /\ j.at = "flag" /\ MustSettle(j.mail) => Settled(j.mail.token)
PassInv == InPass(job[Scheduler])

MailboxInv == TypeOK /\ Typed /\ TokenInv /\ TrackInv /\ MailInv /\ PassInv

-----------------------------------------------------------------------------
(***************************************************************************)
(* The operators of the model.                                             *)
(***************************************************************************)

LEMMA Names ==
  /\ Scheduler # Web /\ Scheduler \in Senders /\ Web \in Senders /\ None \notin Senders
  /\ None \notin Addresses /\ None \notin Contacts /\ Addresses # {}
  /\ {Interval, Retention, MaxTokens, MaxMail, MaxClock} \subseteq Nat
  /\ Contents \subseteq SUBSET Actions /\ Tokens \subseteq Nat \ {0}
  /\ Tokens \subseteq 0..MaxTokens
BY MailboxAssumption DEF MailboxAssumption, Senders, Tokens

\* Recording a failure keeps a contact a contact.
LEMMA FailureTyped ==
  ASSUME NEW seen \in ContactRows, NEW current \in ContactRows
  PROVE  Failed(seen, current) \in ContactRows
<1> DEFINE new == [verified |-> FALSE, failures |-> seen.failures + 1, failed |-> TRUE]
           w == Written(seen, new, current)
<1>1. DOMAIN current = {"verified", "failures", "failed"} /\ new \in ContactRows
  BY DEF ContactRows
<1>2. w = [verified |-> w["verified"], failures |-> w["failures"], failed |-> w["failed"]]
  BY <1>1 DEF Written
<1>3. /\ w["verified"] \in {current["verified"], new["verified"]}
      /\ w["failures"] \in {current["failures"], new["failures"]}
      /\ w["failed"] \in {current["failed"], new["failed"]}
  BY <1>1 DEF Written
<1>4. w["verified"] \in BOOLEAN /\ w["failures"] \in Nat /\ w["failed"] \in BOOLEAN
  BY <1>1, <1>3 DEF ContactRows
<1> HIDE DEF w
<1>5. w \in ContactRows
  BY <1>2, <1>4 DEF ContactRows
<1>6. [w EXCEPT !.failed = TRUE] \in ContactRows
  BY <1>5 DEF ContactRows
<1> QED
  BY <1>6 DEF Failed, w

\* Of the reports in a message the failure counts first.
LEMMA ReportOf ==
  ASSUME NEW m, m.actions \subseteq Actions, m.actions # {}
  PROVE  Report(m) \in m.actions /\ ("failed" \in m.actions => Report(m) = "failed")
<1> DEFINE P(a) == \/ a = "failed" \/ (a = "delivered" /\ "failed" \notin m.actions)
                   \/ m.actions = {"delayed"}
<1>1. \E a \in m.actions : P(a)
  <2>1. m.actions \subseteq {"failed", "delivered", "delayed"}
    BY DEF Actions, Finals
  <2> QED
    BY <2>1
<1>2. Report(m) \in m.actions /\ P(Report(m))
  BY <1>1, Zenon DEF Report
<1> HIDE DEF P
<1>3. "failed" \in m.actions => Report(m) = "failed"
  BY <1>2 DEF P
<1> QED
  BY <1>2, <1>3

LEMMA FreshIsNew == FreshToken \in 0..MaxTokens /\ (FreshToken # 0 => FreshToken \in Tokens \ Used)
<1>1. CASE Used = Tokens
  BY <1>1, Names DEF FreshToken
<1>2. CASE Used # Tokens
  <2>1. \E t \in Tokens \ Used : TRUE
    BY <1>2 DEF Used
  <2>2. FreshToken \in Tokens \ Used
    BY <1>2, <2>1, Zenon DEF FreshToken
  <2> QED
    BY <2>2, Names
<1> QED
  BY <1>1, <1>2

LEMMA IdleTyped == clock \in Nat => JobTyped(Idle)
BY Names DEF JobTyped, JobRows, Idle, Steps, Sending

-----------------------------------------------------------------------------
(***************************************************************************)
(* Steps that keep the rows, the tokens handed over and the mailboxes.     *)
(***************************************************************************)

\* Nothing happens but that a job moves on, drops e-mails or gives up, and contacts change.
LEMMA JobMoves ==
  ASSUME MailboxInv, NEW s \in Senders, NEW j, JobTyped(j), job' = [job EXCEPT ![s] = j],
         UNCHANGED <<sender, acknowledged, tracks, mailbox, outside, saving, counted, clock>>,
         contact' \in [Contacts -> ContactRows], links' \in [Contacts -> SUBSET {"review", "verify"}],
         reminded' \in 0..clock, lock' \in {lock, None} \/ lock' = s, lock' = s => j.at \in Sending,
         j.rows \subseteq job[s].rows, j.token \in {0, job[s].token},
         s = Scheduler => InPass(j)
  PROVE  MailboxInv'
<1>0. TypeOK /\ Typed /\ TokenInv /\ TrackInv /\ MailInv /\ PassInv
  BY DEF MailboxInv
<1>1. /\ job' = [x \in Senders |-> job'[x]] /\ job'[s] = j
      /\ \A x \in Senders : x # s => job'[x] = job[x]
  BY <1>0 DEF Typed
<1>2. Typed'
  <2>1. \A x \in Senders : JobTyped(job'[x])
    BY <1>0, <1>1 DEF Typed
  <2>2. \A x \in Senders : JobTyped(job[x])'
    BY <2>1 DEF JobTyped, JobRows
  <2> QED
    BY <1>0, <1>1, <2>2 DEF Typed
<1>3. TypeOK'
  <2>1. lock' \in Senders => job'[lock'].at \in Sending
    BY <1>0, <1>1, Names DEF TypeOK, Sending
  <2> QED
    BY <1>0, <2>1 DEF TypeOK, Sending, ContactRows
<1>4. \A x \in Senders : Held(x)' \subseteq Held(x) /\ job'[x].rows \subseteq job[x].rows
  <2> SUFFICES ASSUME NEW x \in Senders
               PROVE  Held(x)' \subseteq Held(x) /\ job'[x].rows \subseteq job[x].rows
    OBVIOUS
  <2>1. job'[x].rows \subseteq job[x].rows /\ job'[x].token \in {0, job[x].token}
    BY <1>1
  <2> QED
    BY <2>1 DEF Held
<1>5. TokenInv'
  <2>1. Held(Scheduler)' \cap Held(Web)' = {}
    BY <1>0, <1>4, Names DEF TokenInv
  <2>2. \A x \in Senders : \A t \in Held(x)' : tracks[t] = NoTrack /\ counted[t] = 0
    BY <1>0, <1>4 DEF TokenInv
  <2>3. \A x \in Senders : \A r \in job'[x].rows : r.token # 0 => outside[r.token] # None
    BY <1>0, <1>4 DEF TokenInv
  <2> QED
    BY <2>1, <2>2, <2>3 DEF TokenInv
<1>6. TrackInv'
  BY <1>0 DEF TrackInv
<1>7. MailInv'
  <2>1. \A m \in mailbox : m.known => \A x \in Senders : m.token \notin Held(x)'
    BY <1>0, <1>4 DEF MailInv
  <2> QED
    BY <1>0, <2>1 DEF MailInv, Settled
<1>8. PassInv'
  <2>1. InPass(job'[Scheduler])
    BY <1>0, <1>1, Names DEF PassInv
  <2> QED
    BY <2>1 DEF PassInv, InPass, Settled
<1> QED
  BY <1>2, <1>3, <1>5, <1>6, <1>7, <1>8 DEF MailboxInv

\* No job moves and no row changes; time may pass.
LEMMA JobsStay ==
  ASSUME MailboxInv, UNCHANGED <<tracks, mailbox, outside, job, lock, counted>>,
         clock' \in Nat, clock' >= clock, TypeOK', \A r \in saving' : r.sender \in Addresses
  PROVE  MailboxInv'
<1>0. TypeOK /\ Typed /\ TokenInv /\ TrackInv /\ MailInv /\ PassInv
  BY DEF MailboxInv
<1>1. Typed'
  <2>1. \A s \in Senders : JobTyped(job[s])'
    <3> SUFFICES ASSUME NEW s \in Senders PROVE JobTyped(job[s])'
      OBVIOUS
    <3>1. JobTyped(job[s]) /\ job[s].now \in Nat /\ clock \in Nat
      BY <1>0 DEF Typed, JobTyped, JobRows
    <3> QED
      BY <3>1 DEF JobTyped, JobRows
  <2> QED
    BY <1>0, <2>1 DEF Typed
<1>2. TokenInv' /\ TrackInv'
  BY <1>0 DEF TokenInv, TrackInv, Held
<1>3. \A t \in Tokens : Settled(t) => Settled(t)'
  BY <1>0 DEF Settled, Typed, Tracks
<1>4. MailInv'
  <2>1. \A m \in mailbox : m.token \in Tokens
    BY <1>0 DEF Typed, Messages
  <2> QED
    BY <1>0, <1>3, <2>1 DEF MailInv, Held
<1>5. PassInv'
  <2>1. job[Scheduler].at \in {"apply", "flag"} => job[Scheduler].mail.token \in Tokens
    BY <1>0 DEF PassInv, InPass, Typed, Messages
  <2> QED
    BY <1>0, <1>3, <2>1 DEF PassInv, InPass
<1> QED
  BY <1>1, <1>2, <1>4, <1>5 DEF MailboxInv

\* What a job and the contacts are before a step
LEMMA Before ==
  ASSUME MailboxInv
  PROVE  /\ \A s \in Senders : JobTyped(job[s]) /\ job[s] \in JobRows(job[s])
         /\ job = [s \in Senders |-> job[s]] /\ clock \in Nat /\ mailbox \subseteq Messages
         /\ contact \in [Contacts -> ContactRows] /\ reminded \in 0..clock
         /\ links \in [Contacts -> SUBSET {"review", "verify"}]
         /\ \A s \in Senders : lock = s => job[s].at \in Sending
         /\ PassInv /\ Idle.rows = {} /\ Idle.token = 0 /\ JobTyped(Idle) /\ InPass(Idle)
<1>1. TypeOK /\ Typed /\ PassInv
  BY DEF MailboxInv
<1>2. JobTyped(Idle) /\ Idle.rows = {} /\ Idle.token = 0 /\ InPass(Idle)
  BY <1>1, IdleTyped DEF Idle, InPass, Typed
<1> QED
  BY <1>1, <1>2 DEF TypeOK, Typed, JobTyped, Sending, ContactRows

\* The pass goes on to its e-mails.
LEMMA RemindersTyped ==
  ASSUME MailboxInv
  PROVE  /\ JobTyped(ToReminders) /\ InPass(ToReminders)
         /\ ToReminders.rows = {} /\ ToReminders.token = 0 /\ ToReminders.at = "remind"
<1>1. Idle \in JobRows(Idle) /\ job[Scheduler].now \in Nat /\ job[Scheduler].now <= clock
      /\ clock \in Nat
  BY Before, Names DEF JobTyped, JobRows
<1>2. ToReminders \in JobRows(ToReminders) /\ "remind" \in Steps
  BY <1>1 DEF ToReminders, JobRows, Steps, Idle
<1>3. /\ ToReminders.rows = {} /\ ToReminders.token = 0 /\ ToReminders.at = "remind"
      /\ ToReminders.now = job[Scheduler].now /\ ToReminders.todo = {}
  BY <1>1 DEF ToReminders, JobRows, Idle
<1> QED
  BY <1>1, <1>2, <1>3 DEF JobTyped, InPass, Sending

\* The message is done with.
LEMMA DoneTyped ==
  ASSUME MailboxInv, job[Scheduler].token = 0
  PROVE  /\ JobTyped(Done) /\ InPass(Done) /\ Done.rows = job[Scheduler].rows /\ Done.token = 0
         /\ Done.at = "read" /\ Done.todo = job[Scheduler].todo
         /\ Done.config = job[Scheduler].config
<1> DEFINE j == job[Scheduler]
<1>1. j \in JobRows(j) /\ j.now <= clock /\ InPass(j) /\ clock \in Nat
  BY Before, Names DEF JobTyped, PassInv
<1>2. Done \in JobRows(Done)
  BY <1>1 DEF Done, JobRows, Steps
<1>3. /\ Done.rows = j.rows /\ Done.token = j.token /\ Done.at = "read" /\ Done.now = j.now
      /\ Done.todo = j.todo /\ Done.config = j.config
  BY <1>1 DEF Done, JobRows
<1> QED
  BY <1>1, <1>2, <1>3 DEF JobTyped, InPass, Sending

LEMMA LoadKeeps == ASSUME MailboxInv, LoadMailbox PROVE MailboxInv'
<1> DEFINE j == job[Scheduler]
           listed == {m \in mailbox : m.at = ReadFrom}
           reading == [j EXCEPT !.at = "read", !.config = ReadFrom, !.todo = listed]
<1>1. j \in JobRows(j) /\ j.now <= clock /\ j.at = "load" /\ j.token = 0
      /\ mailbox \subseteq Messages
  BY Before, Names DEF JobTyped, LoadMailbox, At
<1>2. PICK new \in {reading, ToReminders} : job' = [job EXCEPT ![Scheduler] = new]
  BY Zenon DEF LoadMailbox
<1>3. JobTyped(new) /\ InPass(new) /\ new.rows \subseteq j.rows /\ new.token = 0
  <2>1. CASE new = reading
    <3>1. ReadFrom \in Addresses \cup {None}
      BY DEF ReadFrom, MailboxInv, TypeOK
    <3>2. reading \in JobRows(reading)
      BY <1>1, <3>1 DEF JobRows, Steps
    <3>3. /\ reading.at = "read" /\ reading.now = j.now /\ reading.token = 0
          /\ reading.rows = j.rows
          /\ reading.todo \subseteq mailbox
      BY <1>1 DEF JobRows
    <3> HIDE DEF reading
    <3> QED
      BY <1>1, <2>1, <3>2, <3>3 DEF JobTyped, InPass, Sending
  <2>2. CASE new = ToReminders
    BY <2>2, RemindersTyped
  <2> QED
    BY <1>2, <2>1, <2>2
<1> QED
  BY <1>1, <1>2, <1>3, Before, Names, JobMoves DEF LoadMailbox, At, Sending, database

LEMMA ReadKeeps ==
  ASSUME MailboxInv, NEW m \in job[Scheduler].todo, ReadMessage(m) PROVE MailboxInv'
<1> DEFINE j == job[Scheduler]
           applying == [j EXCEPT !.at = "apply", !.mail = m, !.todo = @ \ {m}, !.last = reminded,
                                 !.seen = contact[tracks[m.token].contact]]
           flagging == [j EXCEPT !.at = "flag", !.mail = m, !.todo = @ \ {m}]
<1>1. /\ j \in JobRows(j) /\ j.now <= clock /\ j.at = "read" /\ j.token = 0
      /\ mailbox \subseteq Messages
      /\ j.todo \subseteq mailbox /\ m \in Messages /\ m.token \in Tokens /\ clock \in Nat
      /\ j.now \in Nat /\ reminded \in Nat
  BY Before, Names DEF JobTyped, JobRows, ReadMessage, At, PassInv, InPass, Messages
<1> DEFINE new == IF m.actions # {} /\ Open(m) THEN applying ELSE flagging
<1>2. job' = [job EXCEPT ![Scheduler] = new]
  BY DEF ReadMessage
<1> HIDE DEF new
<1>3. JobTyped(new) /\ InPass(new) /\ new.rows = j.rows /\ new.token = 0
  <2>1. CASE m.actions # {} /\ Open(m)
    <3>1. tracks[m.token] # NoTrack /\ ~tracks[m.token].done /\ tracks[m.token].contact \in Contacts
      BY <1>1, <2>1 DEF Open, MailboxInv, TrackInv
    <3>2. contact[tracks[m.token].contact] \in ContactRows
      BY <3>1, Before
    <3>3. applying \in JobRows(applying)
      BY <1>1 DEF JobRows, Steps
    <3>4. /\ applying.at = "apply" /\ applying.now = j.now /\ applying.token = 0
          /\ applying.rows = j.rows
          /\ applying.todo = j.todo \ {m} /\ applying.mail = m
          /\ applying.seen = contact[tracks[m.token].contact]
      BY <1>1 DEF JobRows
    <3> HIDE DEF applying
    <3>5. new = applying
      BY <2>1 DEF new
    <3> QED
      BY <1>1, <2>1, <3>1, <3>2, <3>3, <3>4, <3>5 DEF JobTyped, InPass, Sending
  <2>2. CASE ~(m.actions # {} /\ Open(m))
    <3>1. MustSettle(m) => Settled(m.token)
      <4>1. tracks[m.token] = NoTrack => tracks[m.token].expires = 0
        BY DEF NoTrack
      <4>2. tracks[m.token].expires \in Nat
        BY <1>1 DEF MailboxInv, Typed, Tracks
      <4> QED
        BY <1>1, <2>2, <4>1, <4>2 DEF Open, MustSettle, Settled
    <3>2. flagging \in JobRows(flagging)
      BY <1>1 DEF JobRows, Steps
    <3>3. /\ flagging.at = "flag" /\ flagging.now = j.now /\ flagging.token = 0
          /\ flagging.rows = j.rows
          /\ flagging.todo = j.todo \ {m} /\ flagging.mail = m
      BY <1>1 DEF JobRows
    <3> HIDE DEF flagging
    <3>4. new = flagging
      BY <2>2 DEF new
    <3> QED
      BY <1>1, <3>1, <3>2, <3>3, <3>4 DEF JobTyped, InPass, Sending
  <2> QED
    BY <2>1, <2>2
<1> QED
  BY <1>1, <1>2, <1>3, Before, Names, JobMoves DEF ReadMessage, At, Sending, database

LEMMA GiveUpKeeps == ASSUME MailboxInv, ReportFails \/ MailboxFails PROVE MailboxInv'
<1> DEFINE j == job[Scheduler]
<1>1. j \in JobRows(j) /\ j.at \in {"apply", "read", "flag"} /\ j.token = 0
  BY Before, Names DEF JobTyped, ReportFails, MailboxFails, At
<1>2. PICK new \in {Done, ToReminders} : job' = [job EXCEPT ![Scheduler] = new]
  BY Zenon DEF ReportFails, MailboxFails, AfterError
<1>3. JobTyped(new) /\ InPass(new) /\ new.rows \subseteq j.rows /\ new.token = 0
  BY <1>1, <1>2, DoneTyped, RemindersTyped
<1> QED
  BY <1>1, <1>2, <1>3, Before, Names, JobMoves DEF ReportFails, MailboxFails, At, Sending, database

LEMMA ReminderKeeps == ASSUME MailboxInv, StartReminder PROVE MailboxInv'
<1> DEFINE j == job[Scheduler]
           telling == [Idle EXCEPT !.at = "begin", !.now = j.now, !.from = sender, !.to = Reachable,
                                   !.seen = contact, !.last = reminded]
<1>1. j \in JobRows(j) /\ j.at = "remind" /\ j.token = 0 /\ j.now \in Nat /\ j.now <= clock
      /\ clock \in Nat
  BY Before, Names DEF JobTyped, JobRows, StartReminder, At
<1>2. PICK new \in {telling, Idle} : job' = [job EXCEPT ![Scheduler] = new]
  BY DEF StartReminder
<1>3. reminded' \in 0..clock
  BY <1>1, Before DEF StartReminder
<1>4. JobTyped(new) /\ InPass(new) /\ new.rows = {} /\ new.token = 0
  <2>1. CASE new = telling
    <3>1. Idle \in JobRows(Idle) /\ reminded \in Nat /\ sender \in Addresses
          /\ contact \in [Contacts -> ContactRows]
      BY <1>1, Before DEF JobTyped, MailboxInv, TypeOK
    <3>2. Reachable \subseteq Contacts
      BY DEF Reachable, Contacts
    <3>3. telling \in JobRows(telling)
      BY <1>1, <3>1, <3>2 DEF JobRows, Steps
    <3>4. /\ telling.at = "begin" /\ telling.now = j.now /\ telling.from = sender
          /\ telling.seen = contact
          /\ telling.token = 0 /\ telling.rows = {} /\ telling.todo = {}
      BY DEF Idle
    <3> HIDE DEF telling
    <3> QED
      BY <1>1, <2>1, <3>1, <3>3, <3>4 DEF JobTyped, InPass, Sending
  <2>2. CASE new = Idle
    BY <2>2, Before
  <2> QED
    BY <1>2, <2>1, <2>2
<1> QED
  BY <1>1, <1>2, <1>3, <1>4, Before, Names, JobMoves DEF StartReminder, At, Sending

LEMMA ResendKeeps == ASSUME MailboxInv, NEW c \in Contacts, StartResend(c) PROVE MailboxInv'
<1> DEFINE sending == [Idle EXCEPT !.at = "begin", !.now = clock, !.from = sender, !.to = {c},
                                   !.seen = contact', !.last = reminded]
<1>1. job' = [job EXCEPT ![Web] = sending] /\ job[Web] = Idle
  BY DEF StartResend
<1>2. contact' \in [Contacts -> ContactRows] /\ links' \in [Contacts -> SUBSET {"review", "verify"}]
  BY Before DEF StartResend, ContactRows
<1>3. JobTyped(sending) /\ sending.rows = {} /\ sending.token = 0 /\ sending.at = "begin"
  <2>1. Idle \in JobRows(Idle) /\ reminded \in Nat /\ clock \in Nat /\ sender \in Addresses
    BY Before DEF JobTyped, MailboxInv, TypeOK
  <2>2. sending \in JobRows(sending)
    BY <2>1 DEF JobRows, Steps
  <2>3. /\ sending.at = "begin" /\ sending.now = clock /\ sending.from = sender
        /\ sending.seen = contact'
        /\ sending.token = 0 /\ sending.rows = {}
    BY DEF Idle
  <2> HIDE DEF sending
  <2> QED
    BY <1>2, <2>1, <2>2, <2>3 DEF JobTyped, Sending
<1> HIDE DEF sending
<1>4. sending.at \in Sending /\ sending.rows \subseteq job[Web].rows /\ reminded' \in 0..clock
  BY <1>3, Before DEF Sending, StartResend
<1> QED
  BY <1>1, <1>2, <1>3, <1>4, Names, JobMoves DEF StartResend

\* An e-mail of a sender is over.
LEMMA SentTyped ==
  ASSUME MailboxInv, NEW s \in Senders, job[s].at = "send"
  PROVE  /\ JobTyped(Sent(s)) /\ Sent(s).token = 0 /\ Sent(s).at \in {"commit", "begin"}
         /\ Sent(s).rows = job[s].rows /\ Sent(s).refused = job[s].refused
         /\ Sent(s) \in JobRows(Sent(s)) /\ Sent(s).todo = job[s].todo
<1> DEFINE j == job[s]
<1>1. j \in JobRows(j) /\ j.now <= clock /\ j.from \in Addresses
      /\ j.seen \in [Contacts -> ContactRows]
  BY Before DEF JobTyped, Sending
<1>2. Sent(s) \in JobRows(Sent(s))
  <2> DEFINE at == IF j.to = {} THEN "commit" ELSE "begin"
             sent == [j EXCEPT !.at = at, !.mail = None, !.token = 0]
  <2>1. at \in Steps /\ 0 \in 0..MaxTokens
    BY Names DEF Steps
  <2> HIDE DEF at, j
  <2>2. sent \in JobRows(sent)
    BY <1>1, <2>1 DEF JobRows
  <2> QED
    BY <2>2 DEF Sent, at, j
<1>3. /\ Sent(s).at \in {"commit", "begin"} /\ Sent(s).now = j.now /\ Sent(s).from = j.from
      /\ Sent(s).seen = j.seen /\ Sent(s).token = 0 /\ Sent(s).rows = j.rows
      /\ Sent(s).refused = j.refused /\ Sent(s).todo = j.todo
  BY <1>1 DEF Sent, JobRows
<1> QED
  BY <1>1, <1>2, <1>3 DEF JobTyped, Sending

LEMMA RefusedKeeps == ASSUME MailboxInv, NEW s \in Senders, Refused(s) PROVE MailboxInv'
<1> DEFINE new == [Sent(s) EXCEPT !.refused = @ \cup {job[s].mail}]
<1>1. job[s].at = "send" /\ job[s].mail \in Contacts /\ JobTyped(job[s])
  BY Before DEF Refused, At, JobTyped
<1>2. JobTyped(new) /\ new.rows = job[s].rows /\ new.token = 0 /\ new.at \in Sending
      /\ new.todo = job[s].todo
  <2>1. new \in JobRows(new)
    BY <1>1, SentTyped DEF JobRows
  <2>2. /\ new.at = Sent(s).at /\ new.now = Sent(s).now /\ new.from = Sent(s).from
        /\ new.seen = Sent(s).seen
        /\ new.token = Sent(s).token /\ new.rows = Sent(s).rows /\ new.todo = Sent(s).todo
    BY <1>1, SentTyped DEF JobRows
  <2> HIDE DEF new
  <2> QED
    BY <1>1, <2>1, <2>2, SentTyped DEF JobTyped, Sending
<1> HIDE DEF new
<1>3. job' = [job EXCEPT ![s] = new]
  BY DEF Refused, new
<1>4. s = Scheduler => InPass(new)
  BY <1>2, Before DEF InPass, PassInv, Sending
<1>5. reminded' \in 0..clock /\ contact' = contact /\ links' = links
  BY Before DEF Refused, database
<1> QED
  BY <1>2, <1>3, <1>4, <1>5, Before, JobMoves DEF Refused, database

LEMMA CrashKeeps == ASSUME MailboxInv, NEW s \in Senders, Crash(s) PROVE MailboxInv'
<1>1. job' = [job EXCEPT ![s] = Idle] /\ lock' \in {lock, None} /\ lock' # s
  BY Names DEF Crash, Released, Senders
<1>2. reminded' \in 0..clock /\ contact' = contact /\ links' = links
  BY Before DEF Crash, database
<1> QED
  BY <1>1, <1>2, Before, JobMoves DEF Crash, database

\* Steps that only write the settings, the contacts, or the clock
LEMMA SurroundingsKeep ==
  ASSUME MailboxInv,
         \/ \E c \in Contacts : Verify(c) \/ ConfirmReview(c)
         \/ OpenSettings \/ SaveSettings \/ Tick \/ UNCHANGED vars
  PROVE  MailboxInv'
<1>1. UNCHANGED <<tracks, mailbox, outside, job, lock, counted>>
      /\ clock' \in Nat /\ clock' >= clock
  BY Before DEF Verify, ConfirmReview, OpenSettings, SaveSettings, Tick, vars, database
<1>2. /\ contact' \in [Contacts -> ContactRows]
      /\ links' \in [Contacts -> SUBSET {"review", "verify"}]
      /\ reminded' = reminded
  <2>1. CASE \E c \in Contacts : Verify(c) \/ ConfirmReview(c)
    <3>1. PICK c \in Contacts : Verify(c) \/ ConfirmReview(c)
      BY <2>1
    <3>2. Confirmed \in ContactRows
      BY DEF Confirmed, ContactRows
    <3> QED
      BY <3>1, <3>2, Before DEF Verify, ConfirmReview
  <2>2. CASE OpenSettings \/ SaveSettings \/ Tick \/ UNCHANGED vars
    BY <2>2, Before DEF OpenSettings, SaveSettings, Tick, vars, database
  <2> QED
    BY <2>1, <2>2
<1>3. /\ sender \in Addresses /\ acknowledged \in Addresses \cup {None}
      /\ \A r \in saving : r.sender \in Addresses
  BY DEF MailboxInv, TypeOK, Typed
<1>4. /\ sender' \in Addresses /\ acknowledged' \in Addresses \cup {None}
      /\ \A r \in saving' : r.sender \in Addresses
  <2>1. CASE SaveSettings
    <3>1. PICK r \in saving :
            /\ saving' = saving \ {r} /\ sender' = IF r.what \in Addresses THEN r.what ELSE sender
            /\ acknowledged' = IF Acknowledgement(r) = r.acknowledged THEN acknowledged ELSE Acknowledgement(r)
      BY <2>1 DEF SaveSettings
    <3>2. Acknowledgement(r) \in Addresses \cup {None}
      BY <1>3 DEF Acknowledgement
    <3> QED
      BY <1>3, <3>1, <3>2
  <2>2. CASE OpenSettings
    BY <1>3, <2>2 DEF OpenSettings, database
  <2>3. CASE ~SaveSettings /\ ~OpenSettings
    BY <1>3, <2>3 DEF Verify, ConfirmReview, Tick, vars, database
  <2> QED
    BY <2>1, <2>2, <2>3
<1>5. TypeOK'
  <2>1. reminded' \in 0..clock'
    BY <1>1, <1>2, Before
  <2> QED
    BY <1>1, <1>2, <1>4, <2>1 DEF MailboxInv, TypeOK, ContactRows
<1> QED
  BY <1>1, <1>4, <1>5, JobsStay

-----------------------------------------------------------------------------
(***************************************************************************)
(* Steps that write the rows, the tokens or the mailboxes.                 *)
(***************************************************************************)

LEMMA JobReplaced ==
  ASSUME MailboxInv, NEW s \in Senders, NEW j, JobTyped(j), job' = [job EXCEPT ![s] = j],
         UNCHANGED <<clock, saving>>, mailbox' \subseteq Messages, tracks' \in [Tokens -> Tracks],
         outside' \in [Tokens -> Addresses \cup {None}], counted' \in [Tokens -> 0..1]
  PROVE  /\ Typed' /\ job'[s] = j
         /\ \A x \in Senders : x # s => job'[x] = job[x] /\ Held(x)' = Held(x)
         /\ Held(s)' = ({j.token} \cup {r.token : r \in j.rows}) \ {0}
<1>1. Typed
  BY DEF MailboxInv
<1>2. /\ job' = [x \in Senders |-> job'[x]] /\ job'[s] = j
      /\ \A x \in Senders : x # s => job'[x] = job[x]
  BY <1>1 DEF Typed
<1>3. \A x \in Senders : JobTyped(job'[x])
  BY <1>1, <1>2 DEF Typed
<1>4. \A x \in Senders : JobTyped(job[x])'
  BY <1>3 DEF JobTyped, JobRows
<1> QED
  BY <1>1, <1>2, <1>4 DEF Typed, Held

\* The write lock and the tables that mails do not touch
LEMMA TypesStay ==
  ASSUME MailboxInv, UNCHANGED <<sender, acknowledged, clock>>,
         contact' \in [Contacts -> ContactRows], links' \in [Contacts -> SUBSET {"review", "verify"}],
         reminded' \in 0..clock, \A s \in Senders : lock' = s => job'[s].at \in Sending,
         \A t \in Tokens : /\ tracks'[t].result \in {"none"} \cup Actions
                           /\ tracks'[t].done <=> tracks'[t].result \in Finals
  PROVE  TypeOK'
BY DEF MailboxInv, TypeOK, ContactRows, Sending

LEMMA RowsNow ==
  ASSUME MailboxInv
  PROVE  /\ TokenInv /\ TrackInv /\ MailInv /\ PassInv /\ Typed
         /\ tracks \in [Tokens -> Tracks] /\ outside \in [Tokens -> Addresses \cup {None}]
         /\ counted \in [Tokens -> 0..1]
         /\ \A t \in Tokens : /\ tracks[t].result \in {"none"} \cup Actions
                              /\ tracks[t].done <=> tracks[t].result \in Finals
         /\ \A s \in Senders : job[s].rows \subseteq Rows /\ job[s].token \in 0..MaxTokens
         /\ NoTrack \in Tracks /\ NoTrack.expires = 0 /\ NoTrack.result = "none" /\ ~NoTrack.done
         /\ NoTrack.contact = None
BY Before DEF MailboxInv, Typed, TypeOK, JobRows, NoTrack, Tracks

LEMMA HeldTokens == ASSUME MailboxInv, NEW s \in Senders PROVE Held(s) \subseteq Tokens
BY RowsNow, Names DEF Held, Rows, Tokens

LEMMA StartPassKeeps == ASSUME MailboxInv, StartPass PROVE MailboxInv'
<1> DEFINE new == [Idle EXCEPT !.at = "load", !.now = clock]
<1>1. job' = [job EXCEPT ![Scheduler] = new]
  BY Before, Names DEF StartPass
<1>2. JobTyped(new) /\ new.rows = {} /\ new.token = 0 /\ new.at = "load" /\ new.todo = {}
  <2>1. Idle \in JobRows(Idle) /\ clock \in Nat
    BY Before DEF JobTyped
  <2>2. new \in JobRows(new)
    BY <2>1 DEF JobRows, Steps
  <2>3. new.at = "load" /\ new.now = clock /\ new.token = 0 /\ new.rows = {} /\ new.todo = {}
    BY DEF Idle
  <2> HIDE DEF new
  <2> QED
    BY <2>1, <2>2, <2>3 DEF JobTyped, Sending
<1> HIDE DEF new
<1>3. \A t \in Tokens : tracks'[t] = tracks[t] \/ tracks'[t] = NoTrack
  BY DEF StartPass
<1>4. tracks' \in [Tokens -> Tracks]
  BY <1>3, RowsNow DEF StartPass
<1>5. UNCHANGED <<sender, acknowledged, contact, links, reminded, mailbox, outside, lock, saving,
                  counted, clock>>
  BY DEF StartPass
<1>6. /\ Typed' /\ job'[Scheduler] = new /\ Held(Scheduler)' = {}
      /\ \A x \in Senders : x # Scheduler => job'[x] = job[x] /\ Held(x)' = Held(x)
  <2>1. /\ Typed' /\ job'[Scheduler] = new
        /\ Held(Scheduler)' = ({new.token} \cup {r.token : r \in new.rows}) \ {0}
        /\ \A x \in Senders : x # Scheduler => job'[x] = job[x] /\ Held(x)' = Held(x)
    BY <1>1, <1>2, <1>4, <1>5, Names, RowsNow, Before, JobReplaced
  <2> QED
    BY <1>2, <2>1
<1>7. TypeOK'
  <2>1. \A t \in Tokens : /\ tracks'[t].result \in {"none"} \cup Actions
                          /\ tracks'[t].done <=> tracks'[t].result \in Finals
    BY <1>3, RowsNow DEF Finals
  <2>2. \A s \in Senders : lock' = s => job'[s].at \in Sending
    BY <1>5, <1>6, Before DEF StartPass, Idle, Sending
  <2> QED
    BY <1>5, <2>1, <2>2, Before, TypesStay
<1>8. TokenInv'
  BY <1>2, <1>3, <1>5, <1>6, RowsNow, Names, HeldTokens DEF TokenInv, Senders
<1>9. TrackInv'
  BY <1>3, <1>5, RowsNow DEF TrackInv
<1>10. MailInv'
  <2>1. \A t \in Tokens : Settled(t) => Settled(t)'
    BY <1>3, <1>5, RowsNow, Before DEF Settled
  <2>2. \A m \in mailbox : m.token \in Tokens
    BY Before DEF Messages
  <2>3. \A x \in Senders : Held(x)' \subseteq Held(x)
    BY <1>6
  <2> QED
    BY <1>5, <2>1, <2>2, <2>3, RowsNow DEF MailInv
<1>11. PassInv'
  BY <1>2, <1>6 DEF PassInv, InPass
<1> QED
  BY <1>6, <1>7, <1>8, <1>9, <1>10, <1>11 DEF MailboxInv

LEMMA ApplyKeeps == ASSUME MailboxInv, ApplyReport PROVE MailboxInv'
<1> DEFINE j == job[Scheduler]
           t == j.mail.token
           c == tracks[t].contact
           action == Report(j.mail)
           new == [j EXCEPT !.at = "flag", !.seen = <<>>, !.last = 0]
<1>1. /\ j \in JobRows(j) /\ j.now <= clock /\ j.at = "apply" /\ j.token = 0
      /\ j.seen \in ContactRows
      /\ j.mail \in mailbox \ j.todo /\ j.mail.actions # {} /\ tracks[t] # NoTrack
      /\ ~tracks[t].done
      /\ j.todo \subseteq mailbox /\ j.mail \in Messages
  BY Before, Names DEF JobTyped, ApplyReport, At, PassInv, InPass
<1>2. t \in Tokens /\ c \in Contacts /\ counted[t] = 0 /\ j.mail.actions \subseteq Actions
  BY <1>1, RowsNow DEF Messages, TrackInv
<1>3. action \in Actions /\ ("failed" \in j.mail.actions => action = "failed")
  BY <1>1, <1>2, ReportOf
<1>4. /\ UNCHANGED <<sender, acknowledged, links, mailbox, outside, lock, saving, clock>>
      /\ tracks' = [tracks EXCEPT ![t].result = action, ![t].done = @ \/ action \in Finals]
      /\ job' = [job EXCEPT ![Scheduler] = new]
      /\ \/ /\ action = "failed" /\ contact' = [contact EXCEPT ![c] = Failed(j.seen, @)]
            /\ reminded' = Forgets(j.last) /\ counted' = [counted EXCEPT ![t] = @ + 1]
         \/ action # "failed" /\ UNCHANGED <<contact, reminded, counted>>
  BY DEF ApplyReport
<1>5. /\ JobTyped(new) /\ new.rows = j.rows /\ new.token = 0 /\ new.at = "flag"
      /\ new.todo = j.todo /\ new.mail = j.mail
  <2>1. new \in JobRows(new)
    BY <1>1 DEF JobRows, Steps
  <2>2. /\ new.at = "flag" /\ new.now = j.now /\ new.token = j.token /\ new.rows = j.rows
        /\ new.todo = j.todo /\ new.mail = j.mail
    BY <1>1 DEF JobRows
  <2> HIDE DEF new
  <2> QED
    BY <1>1, <2>1, <2>2 DEF JobTyped, Sending
<1> HIDE DEF new, action, j
<1>6. /\ \A u \in Tokens : u # t => tracks'[u] = tracks[u]
      /\ tracks'[t].result = action /\ (tracks'[t].done <=> action \in Finals)
      /\ tracks'[t].contact = c /\ tracks'[t].expires = tracks[t].expires
      /\ tracks' \in [Tokens -> Tracks]
  <2>1. tracks[t] \in Tracks
    BY <1>2, RowsNow
  <2>2. tracks' = [tracks EXCEPT ![t] = [tracks[t] EXCEPT !.result = action, !.done = @ \/ action \in Finals]]
    BY <1>2, <1>4, <2>1, RowsNow DEF Tracks
  <2> DEFINE final == tracks[t].done \/ action \in Finals
             row == [tracks[t] EXCEPT !.result = action, !.done = final]
  <2>3. final \in BOOLEAN /\ (final <=> action \in Finals)
    BY <1>1
  <2> HIDE DEF final
  <2>4. row \in Tracks /\ row.result = action /\ row.done = final /\ row.contact = c
        /\ row.expires = tracks[t].expires
    BY <1>3, <2>1, <2>3 DEF Tracks
  <2>5. tracks' = [tracks EXCEPT ![t] = row]
    BY <2>2 DEF final
  <2> HIDE DEF row
  <2> QED
    BY <1>2, <2>3, <2>4, <2>5, RowsNow
<1>7. /\ counted' \in [Tokens -> 0..1] /\ \A u \in Tokens : u # t => counted'[u] = counted[u]
      /\ counted'[t] = 1 => action = "failed"
  BY <1>2, <1>4, RowsNow
<1>8. contact' \in [Contacts -> ContactRows] /\ reminded' \in 0..clock
  <2>1. CASE action = "failed"
    <3>1. Failed(j.seen, contact[c]) \in ContactRows
      BY <1>1, <1>2, Before, FailureTyped
    <3> QED
      BY <1>2, <1>4, <2>1, <3>1, Before DEF Forgets
  <2>2. CASE action # "failed"
    BY <1>4, <2>2, Before
  <2> QED
    BY <2>1, <2>2
<1>9. /\ Typed' /\ job'[Scheduler] = new /\ \A x \in Senders : Held(x)' = Held(x)
      /\ \A x \in Senders : x # Scheduler => job'[x] = job[x]
  <2>1. /\ Typed' /\ job'[Scheduler] = new
        /\ Held(Scheduler)' = ({new.token} \cup {r.token : r \in new.rows}) \ {0}
        /\ \A x \in Senders : x # Scheduler => job'[x] = job[x] /\ Held(x)' = Held(x)
    BY <1>4, <1>5, <1>6, <1>7, Names, RowsNow, Before, JobReplaced
  <2> QED
    BY <1>1, <1>5, <2>1 DEF Held, j
<1>10. t \notin Held(Scheduler) /\ t \notin Held(Web)
  BY <1>1, RowsNow, Names DEF TokenInv
<1>11. TypeOK'
  <2>1. \A u \in Tokens : /\ tracks'[u].result \in {"none"} \cup Actions
                          /\ tracks'[u].done <=> tracks'[u].result \in Finals
    BY <1>3, <1>6, RowsNow
  <2>2. \A s \in Senders : lock' = s => job'[s].at \in Sending
    BY <1>1, <1>4, <1>9, Before DEF Sending, j
  <2> QED
    BY <1>4, <1>8, <2>1, <2>2, Before, TypesStay
<1>12. TokenInv'
  <2>1. \A s \in Senders : \A u \in Held(s) : u \in Tokens /\ u # t
    BY <1>10, HeldTokens, Names DEF Senders
  <2>2. \A s \in Senders : job'[s].rows = job[s].rows
    BY <1>5, <1>9 DEF j
  <2> QED
    BY <1>4, <1>6, <1>7, <1>9, <2>1, <2>2, RowsNow, Names DEF TokenInv
<1>13. TrackInv'
  <2> SUFFICES ASSUME NEW u \in Tokens
               PROVE  /\ tracks'[u] # NoTrack => outside'[u] # None /\ tracks'[u].contact \in Contacts
                      /\ counted'[u] = 1 => outside'[u] # None /\ (tracks'[u] # NoTrack => tracks'[u].done)
    BY DEF TrackInv
  <2>1. CASE u # t
    BY <1>4, <1>6, <1>7, <2>1, RowsNow DEF TrackInv
  <2>2. CASE u = t
    <3>1. outside[t] # None
      BY <1>1, <1>2, RowsNow DEF TrackInv
    <3> QED
      BY <1>2, <1>4, <1>6, <1>7, <2>2, <3>1 DEF Finals
  <2> QED
    BY <2>1, <2>2
<1>14. \A u \in Tokens : Settled(u) => Settled(u)'
  BY <1>1, <1>4, <1>6 DEF Settled
<1>15. MailInv'
  <2>1. \A m \in mailbox : m.token \in Tokens
    BY Before DEF Messages
  <2> QED
    BY <1>4, <1>9, <1>14, <2>1, RowsNow DEF MailInv
<1>16. PassInv'
  <2>1. MustSettle(new.mail) => tracks'[new.mail.token].done
    BY <1>3, <1>5, <1>6 DEF MustSettle, Finals
  <2> QED
    BY <1>1, <1>4, <1>5, <1>9, <2>1 DEF PassInv, InPass, Settled
<1> QED
  BY <1>9, <1>11, <1>12, <1>13, <1>15, <1>16 DEF MailboxInv

\* A message is flagged, or those flagged are removed, when the job's turn is over.
LEMMA FlagKeeps == ASSUME MailboxInv, FlagMessage \/ Expunge PROVE MailboxInv'
<1> DEFINE j == job[Scheduler]
           flag(m) == IF m.id = j.mail.id THEN [m EXCEPT !.flagged = TRUE] ELSE m
<1>1. /\ j.token = 0 /\ j.at \in {"flag", "read"} /\ j.todo \subseteq mailbox
      /\ mailbox \subseteq Messages
      /\ j.at = "flag" => j.mail \in mailbox \ j.todo /\ (MustSettle(j.mail) => Settled(j.mail.token))
      /\ UNCHANGED <<database, outside, lock, saving, counted, clock>>
  BY Before, Names DEF JobTyped, FlagMessage, Expunge, At, PassInv, InPass
<1>2. PICK new \in {Done, ToReminders} : job' = [job EXCEPT ![Scheduler] = new]
  BY DEF FlagMessage, Expunge
<1>3. /\ JobTyped(new) /\ new.rows \subseteq j.rows /\ new.token = 0
      /\ new.at \in {"read", "remind"}
      /\ FlagMessage => new = Done /\ new.todo = j.todo
      /\ Expunge => new = ToReminders
  <2>1. Done.at = "read" /\ ToReminders.at = "remind"
    BY <1>1, DoneTyped, RemindersTyped
  <2>2. FlagMessage => new = Done
    BY <1>2, <2>1, Before, Names DEF FlagMessage
  <2>3. Expunge => new = ToReminders
    BY <1>2, <2>1, Before, Names DEF Expunge
  <2> QED
    BY <1>1, <1>2, <2>2, <2>3, DoneTyped, RemindersTyped
<1>4. ToReminders.todo = {}
  BY DEF ToReminders, Idle
\* What the mailbox holds afterwards
<1>5. \A n \in mailbox' : \E m \in mailbox :
        /\ n.id = m.id /\ n.token = m.token /\ n.known = m.known /\ n.actions = m.actions
        /\ n \in Messages
        /\ n.flagged => m.flagged \/ (m = j.mail /\ j.at = "flag")
        /\ n = m \/ (FlagMessage /\ m = j.mail /\ n = flag(m))
  <2>1. CASE FlagMessage
    <3>0. mailbox' = {flag(m) : m \in mailbox}
      BY <2>1 DEF FlagMessage
    <3> SUFFICES ASSUME NEW m \in mailbox, NEW n, n = flag(m)
                 PROVE  /\ n.id = m.id /\ n.token = m.token /\ n.known = m.known
                        /\ n.actions = m.actions /\ n \in Messages
                        /\ n.flagged => m.flagged \/ (m = j.mail /\ j.at = "flag")
                        /\ n = m \/ (FlagMessage /\ m = j.mail /\ n = flag(m))
      <4> HIDE DEF flag
      <4> QED
        BY <3>0
    <3>1. m \in Messages /\ j.at = "flag" /\ j.mail \in mailbox
      BY <1>1, <2>1 DEF FlagMessage, At
    <3>2. CASE m.id = j.mail.id
      <4>1. m = j.mail
        BY <3>1, <3>2, RowsNow DEF MailInv
      <4>2. [m EXCEPT !.flagged = TRUE] \in Messages
        BY <3>1 DEF Messages
      <4>3. flag(m) = [m EXCEPT !.flagged = TRUE]
        BY <3>2
      <4> QED
        BY <2>1, <3>1, <4>1, <4>2, <4>3 DEF Messages
    <3>3. CASE m.id # j.mail.id
      BY <3>1, <3>3
    <3> QED
      BY <3>2, <3>3
  <2>2. CASE Expunge
    BY <1>1, <2>2 DEF Expunge
  <2> QED
    BY <2>1, <2>2
<1> HIDE DEF flag
<1>6. mailbox' \subseteq Messages
  BY <1>5
<1>7. /\ Typed' /\ job'[Scheduler] = new
      /\ \A x \in Senders : x # Scheduler => job'[x] = job[x] /\ Held(x)' = Held(x)
      /\ Held(Scheduler)' \subseteq Held(Scheduler)
  <2>1. /\ Typed' /\ job'[Scheduler] = new
        /\ Held(Scheduler)' = ({new.token} \cup {r.token : r \in new.rows}) \ {0}
        /\ \A x \in Senders : x # Scheduler => job'[x] = job[x] /\ Held(x)' = Held(x)
    BY <1>1, <1>2, <1>3, <1>6, Names, RowsNow, JobReplaced DEF database
  <2> QED
    BY <1>3, <2>1 DEF Held
<1>8. TypeOK'
  <2>1. \A s \in Senders : lock' = s => job'[s].at \in Sending
    BY <1>1, <1>7, Before DEF Sending
  <2>2. /\ contact' = contact /\ links' = links /\ reminded' = reminded /\ tracks' = tracks
        /\ sender' = sender /\ acknowledged' = acknowledged
    BY <1>1 DEF database
  <2> QED
    BY <1>1, <2>1, <2>2, Before, RowsNow, TypesStay
<1>9. /\ UNCHANGED <<tracks, outside, counted, clock>>
      /\ \A s \in Senders : Held(s)' \subseteq Held(s) /\ job'[s].rows \subseteq job[s].rows
  BY <1>1, <1>3, <1>7 DEF database
<1>10. TokenInv' /\ TrackInv'
  <2>1. Held(Scheduler)' \cap Held(Web)' = {}
    BY <1>9, RowsNow, Names DEF TokenInv
  <2> QED
    BY <1>9, <2>1, RowsNow DEF TokenInv, TrackInv
<1>11. MailInv'
  <2>1. ASSUME NEW m \in mailbox', NEW n \in mailbox', m.id = n.id PROVE m = n
    <3>1. PICK a \in mailbox, b \in mailbox :
            /\ m.id = a.id /\ n.id = b.id
            /\ m = a \/ (FlagMessage /\ a = j.mail /\ m = flag(a))
            /\ n = b \/ (FlagMessage /\ b = j.mail /\ n = flag(b))
      BY <1>5
    <3>2. a = b
      BY <2>1, <3>1, RowsNow DEF MailInv
    <3>3. CASE ~FlagMessage
      BY <3>1, <3>2, <3>3
    <3>4. CASE FlagMessage
      <4>1. PICK x \in mailbox, y \in mailbox : m = flag(x) /\ n = flag(y)
        BY <3>4 DEF FlagMessage, flag
      <4>2. flag(x).id = x.id /\ flag(y).id = y.id
        BY Before DEF Messages, flag
      <4>3. x = y
        BY <2>1, <4>1, <4>2, RowsNow DEF MailInv
      <4> QED
        BY <4>1, <4>3
    <3> QED
      BY <3>3, <3>4
  <2>2. ASSUME NEW n \in mailbox'
        PROVE  /\ outside[n.token] # None
               /\ n.known => \A s \in Senders : n.token \notin Held(s)'
               /\ n.flagged /\ MustSettle(n) => Settled(n.token)
    <3>1. PICK m \in mailbox :
            /\ n.token = m.token /\ n.known = m.known /\ n.actions = m.actions
            /\ n.flagged => m.flagged \/ (m = j.mail /\ j.at = "flag")
      BY <1>5
    <3> QED
      BY <1>1, <1>9, <3>1, RowsNow DEF MailInv, MustSettle
  <2> QED
    BY <1>9, <2>1, <2>2 DEF MailInv, Settled
<1>12. PassInv'
  <2>1. new.todo \subseteq mailbox'
    <3>1. CASE FlagMessage
      <4> SUFFICES ASSUME NEW m \in j.todo PROVE m \in mailbox'
        BY <1>3, <3>1
      <4>1. m \in mailbox /\ j.mail \in mailbox /\ m # j.mail
        BY <1>1, <3>1 DEF FlagMessage, At
      <4>2. m.id # j.mail.id
        BY <4>1, RowsNow DEF MailInv
      <4> QED
        BY <3>1, <4>1, <4>2 DEF FlagMessage
    <3>2. CASE Expunge
      BY <1>3, <1>4, <3>2
    <3> QED
      BY <3>1, <3>2
  <2> QED
    BY <1>3, <1>7, <2>1 DEF PassInv, InPass
<1> QED
  BY <1>7, <1>8, <1>10, <1>11, <1>12 DEF MailboxInv

\* A report arrives.
LEMMA ArriveKeeps == ASSUME MailboxInv, NEW t \in Tokens, Arrive(t) PROVE MailboxInv'
<1>1. PICK actions \in Contents, id \in 1..MaxMail :
        /\ \A m \in mailbox : m.id # id
        /\ mailbox' = mailbox \cup {[id |-> id, at |-> outside[t], token |-> t, actions |-> actions,
                                     known |-> tracks[t] # NoTrack, flagged |-> FALSE]}
  BY DEF Arrive
<1> DEFINE known == tracks[t] # NoTrack
           new == [id |-> id, at |-> outside[t], token |-> t, actions |-> actions,
                   known |-> known, flagged |-> FALSE]
<1>2. outside[t] \in Addresses /\ outside[t] # None
  BY RowsNow DEF Arrive
<1>3. known \in BOOLEAN /\ (known => \A s \in Senders : t \notin Held(s))
  BY RowsNow DEF TokenInv
<1> HIDE DEF known
<1>4. new \in Messages /\ new.token = t /\ new.known = known /\ ~new.flagged /\ new.id = id
  BY <1>2, <1>3, Names DEF Messages
<1> HIDE DEF new
<1>5. mailbox' = mailbox \cup {new}
  BY <1>1 DEF new, known
<1>6. UNCHANGED <<database, outside, lock, job, saving, counted, clock>>
  BY DEF Arrive
<1>7. Typed' /\ TypeOK' /\ TokenInv' /\ TrackInv'
  <2>1. mailbox' \subseteq Messages
    BY <1>4, <1>5, Before
  <2>2. \A s \in Senders : JobTyped(job[s])'
    BY <1>6, Before DEF JobTyped, JobRows
  <2>3. Typed'
    BY <1>6, <2>1, <2>2, RowsNow DEF Typed, database
  <2>4. TypeOK' /\ TokenInv' /\ TrackInv'
    BY <1>6 DEF MailboxInv, TypeOK, TokenInv, TrackInv, Held, database
  <2> QED
    BY <2>3, <2>4
<1>8. MailInv'
  <2>1. \A m, n \in mailbox' : m.id = n.id => m = n
    BY <1>1, <1>4, <1>5, RowsNow DEF MailInv
  <2>2. \A s \in Senders : Held(s)' = Held(s)
    BY <1>6 DEF Held
  <2> QED
    BY <1>2, <1>3, <1>4, <1>5, <1>6, <2>1, <2>2, RowsNow DEF MailInv, Settled, database
<1>9. PassInv'
  <2>1. job[Scheduler].at \in {"apply", "flag"} => job[Scheduler].mail \in mailbox' \ job[Scheduler].todo
    BY <1>5, Before DEF PassInv, InPass
  <2> QED
    BY <1>5, <1>6, <2>1, Before DEF PassInv, InPass, Settled, database
<1> QED
  BY <1>7, <1>8, <1>9 DEF MailboxInv

-----------------------------------------------------------------------------
(* The e-mails of a sender. *)

\* A sender goes on: what it holds, it held before, or nobody has ever used.
LEMMA SendMoves ==
  ASSUME MailboxInv, NEW s \in Senders, NEW j, JobTyped(j), job' = [job EXCEPT ![s] = j],
         UNCHANGED <<sender, acknowledged, contact, reminded, tracks, mailbox, saving, counted,
                     clock>>,
         outside' \in [Tokens -> Addresses \cup {None}], lock' \in {lock, s}, j.at \in Sending,
         \A t \in Tokens : outside[t] # None => outside'[t] # None,
         links' \in [Contacts -> SUBSET {"review", "verify"}],
         s = Scheduler => j.todo = job[s].todo,
         \A t \in Held(s)' : t \in Held(s) \/ t \in Tokens \ Used,
         \A r \in j.rows : r.token # 0 => outside'[r.token] # None
  PROVE  MailboxInv'
<1>1. /\ Typed' /\ job'[s] = j
      /\ \A x \in Senders : x # s => job'[x] = job[x] /\ Held(x)' = Held(x)
  BY Before, RowsNow, JobReplaced
<1>2. TypeOK'
  <2>1. \A x \in Senders : lock' = x => job'[x].at \in Sending
    BY <1>1, Before
  <2> QED
    BY <2>1, Before, RowsNow, TypesStay
\* A token nobody has used has no row, no failure, and no holder.
<1>3. \A t \in Tokens \ Used : /\ tracks[t] = NoTrack /\ outside[t] = None /\ counted[t] = 0
                               /\ \A x \in Senders : t \notin Held(x)
  <2> SUFFICES ASSUME NEW t \in Tokens \ Used
               PROVE  /\ tracks[t] = NoTrack /\ outside[t] = None /\ counted[t] = 0
                      /\ \A x \in Senders : t \notin Held(x)
    OBVIOUS
  <2>1. tracks[t] = NoTrack /\ outside[t] = None /\ \A x \in Senders : t # job[x].token
    BY DEF Used
  <2>2. counted[t] = 0
    BY <2>1, RowsNow DEF TrackInv
  <2>3. \A x \in Senders : t \notin Held(x)
    BY <2>1, RowsNow, Names DEF Held, TokenInv
  <2> QED
    BY <2>1, <2>2, <2>3
<1>4. TokenInv'
  <2>1. Held(Scheduler)' \cap Held(Web)' = {}
    <3>1. ASSUME NEW x \in Senders, x # s PROVE Held(s)' \cap Held(x)' = {}
      <4>1. Held(s) \cap Held(x) = {}
        BY <3>1, RowsNow DEF TokenInv, Senders
      <4> QED
        BY <1>1, <1>3, <3>1, <4>1
    <3> QED
      BY <3>1, Names DEF Senders
  <2>2. \A x \in Senders : \A t \in Held(x)' : tracks'[t] = NoTrack /\ counted'[t] = 0
    <3> SUFFICES ASSUME NEW x \in Senders, NEW t \in Held(x)'
                 PROVE  tracks[t] = NoTrack /\ counted[t] = 0
      OBVIOUS
    <3> QED
      BY <1>1, <1>3, RowsNow DEF TokenInv
  <2>3. \A x \in Senders : \A r \in job'[x].rows : r.token # 0 => outside'[r.token] # None
    <3> SUFFICES ASSUME NEW x \in Senders, NEW r \in job'[x].rows, r.token # 0
                 PROVE  outside'[r.token] # None
      OBVIOUS
    <3>1. CASE x = s
      BY <1>1, <3>1
    <3>2. CASE x # s
      <4>1. r \in job[x].rows /\ r \in Rows
        BY <1>1, <3>2, RowsNow
      <4>2. r.token \in Tokens
        BY <4>1, Names DEF Rows, Tokens
      <4> QED
        BY <4>1, <4>2, RowsNow DEF TokenInv
    <3> QED
      BY <3>1, <3>2
  <2> QED
    BY <2>1, <2>2, <2>3 DEF TokenInv
<1>5. TrackInv'
  BY RowsNow DEF TrackInv
<1>6. MailInv'
  <2>1. \A m \in mailbox : m.token \in Tokens /\ outside[m.token] # None /\ outside'[m.token] # None
    BY Before, RowsNow DEF Messages, MailInv
  <2>2. ASSUME NEW m \in mailbox, m.known, NEW x \in Senders PROVE m.token \notin Held(x)'
    BY <1>1, <1>3, <2>1, <2>2, RowsNow DEF MailInv
  <2> QED
    BY <2>1, <2>2, RowsNow DEF MailInv, Settled
<1>7. PassInv'
  <2>1. CASE s = Scheduler
    BY <1>1, <2>1, Before DEF PassInv, InPass, Sending
  <2>2. CASE s # Scheduler
    <3>1. job'[Scheduler] = job[Scheduler]
      BY <1>1, <2>2, Names
    <3> QED
      BY <3>1, Before DEF PassInv, InPass, Settled
  <2> QED
    BY <2>1, <2>2
<1> QED
  BY <1>1, <1>2, <1>4, <1>5, <1>6, <1>7 DEF MailboxInv

LEMMA BeginKeeps ==
  ASSUME MailboxInv, NEW s \in Senders, NEW c \in job[s].to, BeginSend(s, c) PROVE MailboxInv'
<1>1. PICK t \in 0..MaxTokens :
        /\ job' = [job EXCEPT ![s] = [job[s] EXCEPT !.at = "send", !.to = @ \ {c}, !.mail = c, !.token = t]]
        /\ t # 0 => t \in Tokens \ Used
  <2>1. CASE ReadFrom # None
    BY <2>1, FreshIsNew DEF BeginSend
  <2>2. CASE ReadFrom = None
    <3>1. 0 \in 0..MaxTokens
      BY Names
    <3>2. job' = [job EXCEPT ![s] = [job[s] EXCEPT !.at = "send", !.to = @ \ {c}, !.mail = c, !.token = 0]]
      BY <2>2 DEF BeginSend
    <3> QED
      BY <3>1, <3>2
  <2> QED
    BY <2>1, <2>2
<1> DEFINE new == [job[s] EXCEPT !.at = "send", !.to = @ \ {c}, !.mail = c, !.token = t]
<1>2. /\ JobTyped(new) /\ new.rows = job[s].rows /\ new.token = t /\ new.at = "send"
      /\ new.todo = job[s].todo
  <2> DEFINE j == job[s]
  <2>1. /\ j \in JobRows(j) /\ j.now <= clock /\ j.from \in Addresses
        /\ j.seen \in [Contacts -> ContactRows]
        /\ c \in Contacts
    BY Before DEF JobTyped, JobRows, BeginSend, At, Sending
  <2>2. new \in JobRows(new)
    BY <2>1 DEF JobRows, Steps
  <2>3. /\ new.at = "send" /\ new.now = j.now /\ new.from = j.from /\ new.seen = j.seen
        /\ new.token = t
        /\ new.rows = j.rows /\ new.todo = j.todo /\ new.mail = c
    BY <2>1 DEF JobRows
  <2> HIDE DEF new
  <2> QED
    BY <2>1, <2>2, <2>3 DEF JobTyped
<1> HIDE DEF new
<1>3. job' = [job EXCEPT ![s] = new] /\ job'[s] = new
  BY <1>1, Before DEF new
<1>4. \A u \in Held(s)' : u \in Held(s) \/ u \in Tokens \ Used
  BY <1>1, <1>2, <1>3 DEF Held
<1>5. /\ UNCHANGED <<sender, acknowledged, contact, reminded, tracks, mailbox, saving, counted,
                     clock>>
      /\ UNCHANGED <<outside, links>> /\ lock' \in {lock, s}
  BY DEF BeginSend, database
<1>6. \A r \in new.rows : r.token # 0 => outside'[r.token] # None
  BY <1>2, <1>5, RowsNow DEF TokenInv
<1>7. outside' \in [Tokens -> Addresses \cup {None}]
      /\ links' \in [Contacts -> SUBSET {"review", "verify"}]
  BY <1>5, Before, RowsNow
<1>8. new.at \in Sending
  BY <1>2 DEF Sending
<1> QED
  BY <1>2, <1>3, <1>4, <1>5, <1>6, <1>7, <1>8, SendMoves

\* The server took the e-mail, or may have: its token is outside from now on.
LEMMA HandOverKeeps ==
  ASSUME MailboxInv, NEW s \in Senders, job[s].at = "send", HandOver(s)
  PROVE  /\ outside' \in [Tokens -> Addresses \cup {None}]
         /\ \A t \in Tokens : outside[t] # None => outside'[t] # None
         /\ job[s].token # 0 => outside'[job[s].token] # None
         /\ links' \in [Contacts -> SUBSET {"review", "verify"}]
<1>1. job[s].from \in Addresses /\ job[s].token \in 0..MaxTokens
  BY Before, RowsNow DEF JobTyped, Sending
<1>2. job[s].token # 0 => job[s].token \in Tokens
  BY <1>1, Names DEF Tokens
<1>3. \A c \in Contacts : links[c] \subseteq {"review", "verify"}
  BY Before
<1> QED
  BY <1>1, <1>2, <1>3, RowsNow, Names DEF HandOver

LEMMA AcceptedKeeps == ASSUME MailboxInv, NEW s \in Senders, Accepted(s) PROVE MailboxInv'
<1> DEFINE j == job[s]
           row == [token |-> j.token, contact |-> j.mail, expires |-> clock + Retention]
           new == [Sent(s) EXCEPT !.success = TRUE, !.rows = @ \cup {row}]
<1>1. /\ j.at = "send" /\ j.mail \in Contacts /\ HandOver(s) /\ job' = [job EXCEPT ![s] = new]
      /\ UNCHANGED <<sender, acknowledged, contact, reminded, tracks, mailbox, lock, saving,
                     counted, clock>>
  BY Before DEF Accepted, At, JobTyped
<1>2. row \in Rows /\ row.token = j.token
  BY <1>1, Before, RowsNow, Names DEF Rows
<1> HIDE DEF row
<1>3. /\ JobTyped(new) /\ new.rows = j.rows \cup {row} /\ new.token = 0 /\ new.at \in Sending
      /\ new.todo = j.todo
  <2>1. /\ Sent(s) \in JobRows(Sent(s)) /\ JobTyped(Sent(s)) /\ Sent(s).token = 0
        /\ Sent(s).at \in {"commit", "begin"} /\ Sent(s).rows = j.rows /\ Sent(s).todo = j.todo
    BY <1>1, SentTyped
  <2>2. new \in JobRows(new)
    BY <1>2, <2>1 DEF JobRows
  <2>3. /\ new.at = Sent(s).at /\ new.now = Sent(s).now /\ new.from = Sent(s).from
        /\ new.seen = Sent(s).seen
        /\ new.token = Sent(s).token /\ new.rows = Sent(s).rows \cup {row}
        /\ new.todo = Sent(s).todo
    BY <2>1 DEF JobRows
  <2> HIDE DEF new, j
  <2> QED
    BY <2>1, <2>2, <2>3 DEF JobTyped, Sending
<1> HIDE DEF new
<1>4. /\ outside' \in [Tokens -> Addresses \cup {None}]
      /\ links' \in [Contacts -> SUBSET {"review", "verify"}]
      /\ \A t \in Tokens : outside[t] # None => outside'[t] # None
      /\ j.token # 0 => outside'[j.token] # None
  BY <1>1, HandOverKeeps
<1>5. job'[s] = new
  BY <1>1, Before
<1>6. \A t \in Held(s)' : t \in Held(s) \/ t \in Tokens \ Used
  BY <1>2, <1>3, <1>5 DEF Held
<1>7. \A r \in new.rows : r.token # 0 => outside'[r.token] # None
  <2> SUFFICES ASSUME NEW r \in j.rows, r.token # 0 PROVE outside'[r.token] # None
    BY <1>2, <1>3, <1>4
  <2>1. r.token \in Tokens /\ outside[r.token] # None
    BY RowsNow, Names DEF Rows, Tokens, TokenInv
  <2> QED
    BY <1>4, <2>1
<1> QED
  BY <1>1, <1>3, <1>4, <1>6, <1>7, SendMoves

LEMMA UnclearKeeps == ASSUME MailboxInv, NEW s \in Senders, Unclear(s) PROVE MailboxInv'
<1> DEFINE j == job[s]
<1>1. /\ j.at = "send" /\ job' = [job EXCEPT ![s] = Sent(s)]
      /\ (HandOver(s) \/ UNCHANGED <<outside, links>>)
      /\ UNCHANGED <<sender, acknowledged, contact, reminded, tracks, mailbox, lock, saving,
                     counted, clock>>
  BY DEF Unclear, At
<1>2. /\ JobTyped(Sent(s)) /\ Sent(s).token = 0 /\ Sent(s).at \in Sending
      /\ Sent(s).rows = j.rows /\ Sent(s).todo = j.todo
  BY <1>1, SentTyped DEF Sending
<1>3. /\ outside' \in [Tokens -> Addresses \cup {None}]
      /\ links' \in [Contacts -> SUBSET {"review", "verify"}]
      /\ \A t \in Tokens : outside[t] # None => outside'[t] # None
  BY <1>1, HandOverKeeps, Before, RowsNow
<1>4. job'[s] = Sent(s)
  BY <1>1, Before
<1>5. \A t \in Held(s)' : t \in Held(s) \/ t \in Tokens \ Used
  BY <1>2, <1>4 DEF Held
<1>6. \A r \in Sent(s).rows : r.token # 0 => outside'[r.token] # None
  <2> SUFFICES ASSUME NEW r \in j.rows, r.token # 0 PROVE outside'[r.token] # None
    BY <1>2
  <2>1. r.token \in Tokens /\ outside[r.token] # None
    BY RowsNow, Names DEF Rows, Tokens, TokenInv
  <2> QED
    BY <1>3, <2>1
<1> QED
  BY <1>1, <1>2, <1>3, <1>5, <1>6, SendMoves

\* The rows of the e-mails are committed, contacts that were refused are invalidated.
LEMMA CommitKeeps == ASSUME MailboxInv, NEW s \in Senders, CommitSend(s) PROVE MailboxInv'
<1> DEFINE j == job[s]
           row(t) == {r \in j.rows : r.token = t}
<1>1. /\ j.at = "commit" /\ job' = [job EXCEPT ![s] = Idle] /\ lock' = Released(s) /\ JobTyped(j)
      /\ UNCHANGED <<sender, acknowledged, links, mailbox, outside, saving, counted, clock>>
  BY Before DEF CommitSend, At
\* A row is new, or as it was.
<1>2. ASSUME NEW t \in Tokens
      PROVE  \/ tracks'[t] = tracks[t] /\ (tracks[t] # NoTrack \/ t \notin Held(s))
             \/ /\ t \in Held(s) /\ tracks[t] = NoTrack /\ outside[t] # None /\ counted[t] = 0
                /\ tracks'[t] \in Tracks /\ tracks'[t].contact \in Contacts
                /\ tracks'[t].result = "none" /\ ~tracks'[t].done
  <2>1. CASE row(t) = {}
    <3>1. tracks'[t] = tracks[t]
      BY <2>1 DEF CommitSend
    <3>2. j.token = 0
      BY <1>1 DEF JobTyped
    <3>3. t \notin Held(s)
      BY <2>1, <3>2 DEF Held
    <3> QED
      BY <3>1, <3>3
  <2>2. CASE row(t) # {}
    <3>1. PICK r \in row(t) : tracks'[t] = [NoTrack EXCEPT !.contact = r.contact, !.expires = r.expires]
      <4>1. (CHOOSE r \in row(t) : TRUE) \in row(t)
        BY <2>2
      <4>2. tracks'[t] = LET r == CHOOSE r \in row(t) : TRUE
                         IN [NoTrack EXCEPT !.contact = r.contact, !.expires = r.expires]
        BY <2>2 DEF CommitSend
      <4> QED
        BY <4>1, <4>2
    <3>2. r \in Rows /\ r \in j.rows /\ r.token = t /\ t # 0
      BY RowsNow, Names
    <3>3. t \in Held(s) /\ outside[t] # None
      BY <3>2, RowsNow DEF Held, TokenInv
    <3>4. tracks[t] = NoTrack /\ counted[t] = 0
      BY <3>3, RowsNow DEF TokenInv
    <3>5. /\ tracks'[t] \in Tracks /\ tracks'[t].contact \in Contacts
          /\ tracks'[t].result = "none" /\ ~tracks'[t].done
      BY <3>1, <3>2 DEF Rows, NoTrack, Tracks
    <3> QED
      BY <3>3, <3>4, <3>5
  <2> QED
    BY <2>1, <2>2
<1>3. tracks' \in [Tokens -> Tracks]
  <2>1. tracks' = [t \in Tokens |-> tracks'[t]]
    BY DEF CommitSend
  <2>2. \A t \in Tokens : tracks'[t] \in Tracks
    BY <1>2, RowsNow
  <2> QED
    BY <2>1, <2>2
<1>4. contact' \in [Contacts -> ContactRows]
  <2>1. j.seen \in [Contacts -> ContactRows]
    BY <1>1 DEF JobTyped, Sending
  <2>2. \A c \in Contacts : Failed(j.seen[c], contact[c]) \in ContactRows
    BY <2>1, Before, FailureTyped
  <2>3. contact' = [c \in Contacts |-> IF c \in j.refused THEN Failed(j.seen[c], contact[c]) ELSE contact[c]]
    BY DEF CommitSend
  <2> QED
    BY <2>2, <2>3, Before
<1>5. reminded' \in 0..clock
  <2>1. j.now \in 0..clock
    BY <1>1, Before DEF JobTyped, JobRows
  <2>2. Forgets(j.last) \in 0..clock
    BY Before DEF Forgets
  <2>3. reminded' \in {j.now, Forgets(j.last), reminded}
    BY DEF CommitSend
  <2> QED
    BY <2>1, <2>2, <2>3, Before
<1>6. /\ Typed' /\ job'[s] = Idle /\ Held(s)' = {}
      /\ \A x \in Senders : x # s => job'[x] = job[x] /\ Held(x)' = Held(x)
  <2>1. /\ Typed' /\ job'[s] = Idle
        /\ Held(s)' = ({Idle.token} \cup {r.token : r \in Idle.rows}) \ {0}
        /\ \A x \in Senders : x # s => job'[x] = job[x] /\ Held(x)' = Held(x)
    BY <1>1, <1>3, Before, RowsNow, JobReplaced
  <2> QED
    BY <2>1, Before
<1>7. TypeOK'
  <2>1. \A t \in Tokens : /\ tracks'[t].result \in {"none"} \cup Actions
                          /\ tracks'[t].done <=> tracks'[t].result \in Finals
    BY <1>2, RowsNow DEF Finals
  <2>2. \A x \in Senders : lock' = x => job'[x].at \in Sending
    BY <1>1, <1>6, Before, Names DEF Released
  <2> QED
    BY <1>1, <1>4, <1>5, <2>1, <2>2, Before, TypesStay
\* The other sender holds none of these tokens.
<1>8. ASSUME NEW x \in Senders, x # s, NEW t \in Held(x)
      PROVE  t \in Tokens /\ t \notin Held(s) /\ tracks'[t] = tracks[t]
  <2>1. t \in Tokens
    BY <1>8, HeldTokens
  <2>2. Held(x) \cap Held(s) = {}
    BY <1>8, RowsNow DEF TokenInv, Senders
  <2> QED
    BY <1>2, <1>8, <2>1, <2>2
<1>9. TokenInv'
  <2>1. Held(Scheduler)' \cap Held(Web)' = {}
    BY <1>6, Names DEF Senders
  <2>2. \A x \in Senders : \A t \in Held(x)' : tracks'[t] = NoTrack /\ counted'[t] = 0
    <3> SUFFICES ASSUME NEW x \in Senders, NEW t \in Held(x)'
                 PROVE  tracks'[t] = NoTrack /\ counted[t] = 0
      BY <1>1
    <3>1. x # s /\ t \in Held(x)
      BY <1>6
    <3> QED
      BY <1>8, <3>1, RowsNow DEF TokenInv
  <2>3. \A x \in Senders : \A r \in job'[x].rows : r.token # 0 => outside'[r.token] # None
    BY <1>1, <1>6, Before, RowsNow DEF TokenInv
  <2> QED
    BY <2>1, <2>2, <2>3 DEF TokenInv
<1>10. TrackInv'
  <2> SUFFICES ASSUME NEW t \in Tokens
               PROVE  /\ tracks'[t] # NoTrack => outside[t] # None /\ tracks'[t].contact \in Contacts
                      /\ counted[t] = 1 => outside[t] # None /\ (tracks'[t] # NoTrack => tracks'[t].done)
    BY <1>1 DEF TrackInv
  <2> QED
    BY <1>2, RowsNow DEF TrackInv
<1>11. MailInv'
  <2>1. \A m \in mailbox : m.token \in Tokens
    BY Before DEF Messages
  <2>2. \A m \in mailbox : m.known => tracks'[m.token] = tracks[m.token]
    BY <1>2, <2>1, RowsNow DEF MailInv
  <2>3. \A x \in Senders : Held(x)' \subseteq Held(x)
    BY <1>6
  <2> QED
    BY <1>1, <2>2, <2>3, RowsNow DEF MailInv, Settled, MustSettle
<1>12. PassInv'
  <2>1. CASE s = Scheduler
    <3>1. job'[Scheduler].todo = {} /\ job'[Scheduler].at = "idle"
      BY <1>6, <2>1 DEF Idle
    <3> QED
      BY <3>1 DEF PassInv, InPass
  <2>2. CASE s # Scheduler
    <3> DEFINE p == job[Scheduler]
    <3>1. job'[Scheduler] = p /\ InPass(p)
      BY <1>6, <2>2, Names, Before DEF PassInv
    <3>2. p.at \in {"apply", "flag"} => p.mail.token \in Tokens /\ p.mail \in mailbox
      BY <3>1, Before DEF InPass, Messages
    <3>3. p.at = "apply" => tracks'[p.mail.token] = tracks[p.mail.token]
      BY <1>2, <3>1, <3>2 DEF InPass
    <3>4. p.at = "flag" /\ MustSettle(p.mail) => tracks'[p.mail.token] = tracks[p.mail.token]
      BY <1>2, <3>2, RowsNow DEF MailInv, MustSettle
    <3> QED
      BY <1>1, <3>1, <3>3, <3>4 DEF PassInv, InPass, Settled
  <2> QED
    BY <2>1, <2>2
<1> QED
  BY <1>6, <1>7, <1>9, <1>10, <1>11, <1>12 DEF MailboxInv

-----------------------------------------------------------------------------
(***************************************************************************)
(* The invariant, and what the tracking of e-mails promises.               *)
(***************************************************************************)

LEMMA MailboxStart == Init => MailboxInv
<1> SUFFICES ASSUME Init PROVE MailboxInv
  OBVIOUS
<1>1. sender \in Addresses /\ acknowledged \in Addresses \cup {None}
  BY Names DEF Init
<1>2. clock = 1 /\ job = [s \in Senders |-> Idle] /\ JobTyped(Idle)
  BY IdleTyped DEF Init
<1>3. NoTrack \in Tracks /\ ~NoTrack.done /\ NoTrack.result = "none"
  BY DEF NoTrack, Tracks
<1>4. \A s \in Senders : Held(s) = {} /\ job[s].rows = {} /\ job[s].todo = {} /\ job[s].at = "idle"
  BY <1>2 DEF Held, Idle
<1>5. TypeOK
  <2>1. lock \notin Senders
    BY Names DEF Init
  <2>2. reminded \in 0..clock
    BY <1>2 DEF Init
  <2>3. \A t \in Tokens : /\ tracks[t].result \in {"none"} \cup Actions
                          /\ tracks[t].done <=> tracks[t].result \in Finals
    BY <1>3 DEF Init, Finals
  <2>4. contact \in [Contacts -> [verified : BOOLEAN, failures : Nat, failed : BOOLEAN]]
        /\ links \in [Contacts -> SUBSET {"review", "verify"}]
    BY DEF Init
  <2> QED
    BY <1>1, <2>1, <2>2, <2>3, <2>4 DEF TypeOK
<1>6. Typed
  <2>1. tracks \in [Tokens -> Tracks] /\ outside \in [Tokens -> Addresses \cup {None}]
        /\ counted \in [Tokens -> 0..1] /\ mailbox \subseteq Messages /\ saving = {}
    BY <1>3 DEF Init
  <2> QED
    BY <1>2, <2>1 DEF Typed
<1>7. TokenInv /\ TrackInv
  <2>1. TrackInv
    BY DEF Init, TrackInv
  <2>2. TokenInv
    BY <1>4, Names DEF TokenInv
  <2> QED
    BY <2>1, <2>2
<1>8. MailInv /\ PassInv
  BY <1>4, Names DEF Init, MailInv, PassInv, InPass
<1> QED
  BY <1>5, <1>6, <1>7, <1>8 DEF MailboxInv

LEMMA MailboxStep == MailboxInv /\ [Next]_vars => MailboxInv'
<1> SUFFICES ASSUME MailboxInv, [Next]_vars PROVE MailboxInv'
  OBVIOUS
<1>1. CASE PassStep
  BY <1>1, StartPassKeeps, LoadKeeps, ReadKeeps, ApplyKeeps, GiveUpKeeps, FlagKeeps, ReminderKeeps
     DEF PassStep
<1>2. ASSUME NEW s \in Senders, SendStep(s) \/ Crash(s) PROVE MailboxInv'
  BY <1>2, BeginKeeps, AcceptedKeeps, UnclearKeeps, RefusedKeeps, CommitKeeps, CrashKeeps
  DEF SendStep
<1>3. ASSUME NEW c \in Contacts, StartResend(c) PROVE MailboxInv'
  BY <1>3, ResendKeeps
<1>4. ASSUME NEW t \in Tokens, Arrive(t) PROVE MailboxInv'
  BY <1>4, ArriveKeeps
<1> QED
  BY <1>1, <1>2, <1>3, <1>4, SurroundingsKeep DEF Next

THEOREM MailboxInvariant == Spec => []MailboxInv
BY MailboxStart, MailboxStep, PTL DEF Spec

\* The tables keep their types, and the write lock belongs to a sender with an e-mail
\* under way.
THEOREM MailboxTypes == Spec => []TypeOK
BY MailboxInvariant, PTL DEF MailboxInv

\* A failure is recorded once for an e-mail, however often and in whatever order it is
\* reported and whenever the pass breaks off (NdrMailboxProcessor).
THEOREM FailuresCountOnce == Spec => []CountedOnce
<1>1. MailboxInv => CountedOnce
  BY DEF MailboxInv, Typed, CountedOnce
<1> QED
  BY <1>1, MailboxInvariant, PTL

\* A message that reports the failure of a known e-mail is given up only when its row has
\* the final result, or has expired.
THEOREM KnownReportsAreCounted == Spec => []KnownReportsCount
<1>1. MailboxInv => KnownReportsCount
  BY DEF MailboxInv, MailInv, MustSettle, Settled, KnownReportsCount
<1> QED
  BY <1>1, MailboxInvariant, PTL

\* The mailbox that is read, and emptied, is the one acknowledged for the sender in force.
THEOREM OnlyAcknowledgedIsEmptied == Spec => EmptiesOnlyAcknowledged
<1>1. ASSUME MailboxInv, [Next]_vars PROVE EmptiesAcknowledged
  <2> DEFINE j == job[Scheduler]
             Keeps == job'[Scheduler].config \in {None, j.config}
  <2>1. j \in JobRows(j) /\ Idle.config = None /\ job = [s \in Senders |-> job[s]]
    BY <1>1, Before, Names DEF Idle, JobTyped
  <2>2. ToReminders.config = None /\ Done.config = j.config
    BY <2>1 DEF ToReminders, Done, JobRows, Idle
  <2>3. CASE LoadMailbox
    <3>1. ReadFrom # None => acknowledged = sender /\ ReadFrom = sender
      BY DEF ReadFrom
    <3>2. job'[Scheduler].config \in {ReadFrom, None}
      <4> DEFINE listed == {m \in mailbox : m.at = ReadFrom}
                 new == [j EXCEPT !.at = "read", !.config = ReadFrom, !.todo = listed]
      <4>1. new.config = ReadFrom
        BY <2>1 DEF JobRows
      <4>2. \/ job' = [job EXCEPT ![Scheduler] = new]
            \/ job' = [job EXCEPT ![Scheduler] = ToReminders]
        BY <2>3 DEF LoadMailbox
      <4> HIDE DEF new
      <4> QED
        BY <2>1, <2>2, <4>1, <4>2, Names
    <3> QED
      BY <3>1, <3>2 DEF EmptiesAcknowledged
  <2>4. SUFFICES ASSUME ~LoadMailbox PROVE Keeps
    BY <2>3 DEF EmptiesAcknowledged
  <2>5. CASE UNCHANGED job
    BY <2>5
  <2>6. ASSUME NEW new, job' = [job EXCEPT ![Scheduler] = new], new.config \in {None, j.config}
        PROVE  Keeps
    BY <2>1, <2>6, Names
  <2>7. ASSUME NEW new, job' = [job EXCEPT ![Web] = new] PROVE Keeps
    BY <2>1, <2>7, Names
  <2>8. CASE PassStep
    <3>1. CASE StartPass
      <4>1. [j EXCEPT !.at = "load", !.now = clock].config = j.config
        BY <2>1 DEF JobRows
      <4>2. job' = [job EXCEPT ![Scheduler] = [j EXCEPT !.at = "load", !.now = clock]]
        BY <3>1 DEF StartPass
      <4> QED
        BY <2>6, <4>1, <4>2
    <3>2. CASE StartReminder
      <4> DEFINE new == [Idle EXCEPT !.at = "begin", !.now = job[Scheduler].now, !.from = sender,
                                     !.to = Reachable, !.seen = contact, !.last = reminded]
      <4>1. new.config = None
        BY <2>1 DEF Idle
      <4>2. job' = [job EXCEPT ![Scheduler] = new] \/ job' = [job EXCEPT ![Scheduler] = Idle]
        BY <3>2 DEF StartReminder
      <4> HIDE DEF new
      <4> QED
        BY <2>1, <2>6, <4>1, <4>2
    <3>3. ASSUME NEW m \in j.todo, ReadMessage(m) PROVE Keeps
      <4> DEFINE read == [j EXCEPT !.at = "apply", !.mail = m, !.todo = @ \ {m}, !.last = reminded,
                                   !.seen = contact[tracks[m.token].contact]]
                 skip == [j EXCEPT !.at = "flag", !.mail = m, !.todo = @ \ {m}]
      <4>1. read.config = j.config /\ skip.config = j.config
        BY <2>1 DEF JobRows
      <4>2. job' = [job EXCEPT ![Scheduler] = IF m.actions # {} /\ Open(m) THEN read ELSE skip]
        BY <3>3 DEF ReadMessage
      <4> HIDE DEF read, skip
      <4>3. (IF m.actions # {} /\ Open(m) THEN read ELSE skip).config = j.config
        BY <4>1
      <4> QED
        BY <2>6, <4>2, <4>3
    <3>4. CASE ApplyReport
      <4>1. [j EXCEPT !.at = "flag", !.seen = <<>>, !.last = 0].config = j.config
        BY <2>1 DEF JobRows
      <4>2. job' = [job EXCEPT ![Scheduler] = [j EXCEPT !.at = "flag", !.seen = <<>>, !.last = 0]]
        BY <3>4 DEF ApplyReport
      <4> QED
        BY <2>6, <4>1, <4>2
    <3>5. CASE ReportFails \/ FlagMessage
      BY <2>2, <2>6, <3>5 DEF ReportFails, FlagMessage, AfterError
    <3>6. CASE Expunge \/ MailboxFails
      BY <2>2, <2>6, <3>6 DEF Expunge, MailboxFails
    <3> QED
      BY <2>4, <2>8, <3>1, <3>2, <3>3, <3>4, <3>5, <3>6 DEF PassStep
  <2>9. ASSUME NEW s \in Senders, SendStep(s) \/ Crash(s) PROVE Keeps
    <3>1. CASE s = Web
      <4>1. \E new : job' = [job EXCEPT ![Web] = new]
        <5>1. CASE \E c \in job[s].to : BeginSend(s, c)
          <6>1. PICK c \in job[s].to : BeginSend(s, c)
            BY <5>1
          <6>2. CASE ReadFrom # None
            BY <3>1, <6>1, <6>2 DEF BeginSend
          <6>3. CASE ReadFrom = None
            BY <3>1, <6>1, <6>3 DEF BeginSend
          <6> QED
            BY <6>2, <6>3
        <5>2. CASE Accepted(s)
          BY <3>1, <5>2 DEF Accepted
        <5>3. CASE Unclear(s)
          BY <3>1, <5>3 DEF Unclear
        <5>4. CASE Refused(s)
          BY <3>1, <5>4 DEF Refused
        <5>5. CASE CommitSend(s)
          BY <3>1, <5>5 DEF CommitSend
        <5>6. CASE Crash(s)
          BY <3>1, <5>6 DEF Crash
        <5> QED
          BY <2>9, <5>1, <5>2, <5>3, <5>4, <5>5, <5>6 DEF SendStep
      <4> QED
        BY <2>7, <4>1
    <3>2. CASE s = Scheduler
      <4>1. Sent(s).config = j.config /\ Sent(s) = [f \in DOMAIN j |-> Sent(s)[f]]
        BY <2>1, <3>2 DEF Sent, JobRows
      <4>2. CASE \E c \in job[s].to : BeginSend(s, c)
        <5>1. PICK c \in job[s].to : BeginSend(s, c)
          BY <4>2
        <5>2. \A t : [j EXCEPT !.at = "send", !.to = @ \ {c}, !.mail = c, !.token = t].config = j.config
          BY <2>1 DEF JobRows
        <5>3. \E t : job' = [job EXCEPT ![Scheduler] =
                               [j EXCEPT !.at = "send", !.to = @ \ {c}, !.mail = c, !.token = t]]
          BY <3>2, <5>1 DEF BeginSend
        <5> QED
          BY <2>6, <5>2, <5>3
      <4>3. CASE Accepted(s)
        <5> DEFINE rows == Sent(s).rows \cup {[token |-> job[s].token, contact |-> job[s].mail,
                                               expires |-> clock + Retention]}
        <5>1. [Sent(s) EXCEPT !.success = TRUE, !.rows = rows].config = j.config
          BY <2>1, <4>1 DEF JobRows
        <5>2. job' = [job EXCEPT ![Scheduler] = [Sent(s) EXCEPT !.success = TRUE, !.rows = rows]]
          BY <3>2, <4>3 DEF Accepted
        <5> QED
          BY <2>6, <5>1, <5>2
      <4>4. CASE Unclear(s)
        BY <2>6, <3>2, <4>1, <4>4 DEF Unclear
      <4>5. CASE Refused(s)
        <5> DEFINE refused == Sent(s).refused \cup {job[s].mail}
        <5>1. [Sent(s) EXCEPT !.refused = refused].config = j.config
          BY <2>1, <4>1 DEF JobRows
        <5>2. job' = [job EXCEPT ![Scheduler] = [Sent(s) EXCEPT !.refused = refused]]
          BY <3>2, <4>5 DEF Refused
        <5> QED
          BY <2>6, <5>1, <5>2
      <4>6. CASE CommitSend(s) \/ Crash(s)
        BY <2>1, <2>6, <3>2, <4>6 DEF CommitSend, Crash
      <4> QED
        BY <2>9, <4>2, <4>3, <4>4, <4>5, <4>6 DEF SendStep
    <3> QED
      BY <3>1, <3>2 DEF Senders
  <2>10. ASSUME NEW c \in Contacts, StartResend(c) \/ Verify(c) \/ ConfirmReview(c) PROVE Keeps
    BY <2>5, <2>7, <2>10 DEF StartResend, Verify, ConfirmReview
  <2>11. CASE OpenSettings \/ SaveSettings \/ (\E t \in Tokens : Arrive(t)) \/ Tick \/ UNCHANGED vars
    BY <2>5, <2>11 DEF OpenSettings, SaveSettings, Arrive, Tick, vars
  <2> QED
    BY <1>1, <2>8, <2>9, <2>10, <2>11 DEF Next
<1> QED
  BY <1>1, MailboxInvariant, PTL DEF Spec, EmptiesOnlyAcknowledged
=============================================================================
