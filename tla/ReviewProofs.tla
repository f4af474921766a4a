---------------------------- MODULE ReviewProofs ----------------------------
(***************************************************************************)
(* Proofs about the review of an account, for every instance of            *)
(* AccountReview: any number of contacts, requests, reminders and reviews, *)
(* any periods and bounds.                                                 *)
(***************************************************************************)
EXTENDS AccountReviewProperties, TLAPS

(***************************************************************************)
(* The inductive invariant.                                                *)
(***************************************************************************)

AccountRows == [status : Stages, disabledAt : Nat, deletionDue : Nat]
SeenRows == [account : AccountRows, contact : Contacts \cup {NoContact}, review : Reviews \cup {0},
             link : Nat, complete : BOOLEAN, at : Nat]
AskingRows == [reminder : Reminders \cup {<<0, 0>>}, new : SUBSET Contacts, open : SUBSET Contacts]
LinkRows == Reviews \X Contacts \X Nat

\* The types, one conjunct for each thing a step changes
AccountTyped == /\ status \in Stages /\ locked \in BOOLEAN
                /\ disabledAt \in Nat /\ deletionDue \in Nat
                /\ nextDue \in Nat /\ graceDue \in Nat
ReviewsTyped == due \in [Reviews -> Nat] /\ details \subseteq Reviews /\ done \subseteq details
ContactsTyped == /\ verified \subseteq contacts /\ contacts \subseteq created
                 /\ created \subseteq Contacts /\ codeUntil \in [Contacts -> Nat]
AsksTyped == /\ askedUntil \in [Asks -> Nat] /\ lastDay \in [Asks -> Days \cup {NoContact}]
             /\ answered \subseteq Asks /\ issued \in [Asks -> Nat] /\ links \subseteq LinkRows
             /\ confirmations \in [Asks -> Nat]
RemindersTyped == sent \subseteq Reminders /\ leased \in [Reminders -> Nat]
RequestOK(d, s) == /\ d = "idle" => s = NothingSeen
                   /\ d \in {"confirming", "link"} => s.review \in Reviews
                   /\ d \in {"code", "link"} => s.contact \in created
RequestsTyped ==
  /\ doing \in [Requests -> {"idle", "entered", "confirming", "code", "link"}]
  /\ seen \in [Requests -> SeenRows]
  /\ \A q \in Requests : RequestOK(doing[q], seen[q])
PassTyped == /\ step \in {"idle", "reminders", "claimed", "asking"}
             /\ passAt \in Nat /\ seenGrace \in Nat
             /\ todo \subseteq Reminders /\ known \subseteq Reviews
             /\ asking \in AskingRows /\ asking.open \cup asking.new \subseteq created
ClockTyped == clock \in 1..MaxClock /\ edits \in 0..MaxEdits /\ accessAt \in Nat

Typed == /\ AccountTyped /\ ReviewsTyped /\ ContactsTyped /\ AsksTyped /\ RemindersTyped
         /\ RequestsTyped /\ PassTyped /\ ClockTyped

\* Nothing is left of a deleted account, and nothing refers to a review not made yet.
Alive == status # "deleted"
Told(r, c) == <<r, c>> \in answered \/ lastDay[<<r, c>>] # NoContact
Named(r) == r \in details \/ \E c \in Contacts : Told(r, c)
LifeInv ==
  /\ ~Alive => contacts = {} /\ \A r \in Reviews : ~Exists(r)
  /\ Alive => \A r \in Reviews : Named(r) => Exists(r)
  /\ \A r \in Reviews : Exists(r) => graceDue # 0

\* A contact is asked while it and the review exist, and every link asks.  Who was told of a
\* link or answered is a contact ever made, and asked as long as both exist.
AskInv ==
  /\ \A l \in links : l[3] \in 1..issued[<<l[1], l[2]>>] /\ Asked(l[1], l[2])
  /\ \A r \in Reviews, c \in Contacts :
       /\ Asked(r, c) => c \in contacts /\ Exists(r)
       /\ Told(r, c) => c \in created /\ (c \in contacts => Asked(r, c))

\* The pass is about to ask whom it will have asked.
PassInv ==
  step \in {"claimed", "asking"} =>
    LET r == asking.reminder[1] IN
    /\ asking.reminder \in Reminders /\ seenGrace # 0
    /\ Alive => Exists(r)
    /\ step = "asking" /\ Alive =>
         /\ asking.new \subseteq asking.open
         /\ \A c \in asking.open : c \in asking.new \/ Asked(r, c) \/ c \notin contacts

\* A confirmation is an answer, and no request holds a link of an answered contact review.
ConfirmInv ==
  /\ ConfirmedOnce
  /\ \A a \in Asks : confirmations[a] # 0 => a \in answered
  /\ \A q \in Requests : doing[q] = "link" =>
       LET a == <<seen[q].review, seen[q].contact>>
           l == <<seen[q].review, seen[q].contact, seen[q].link>>
       IN /\ seen[q].link <= issued[a]
          /\ l \in links => a \notin answered

\* Whatever the lock: an account that the calendar still lets in has its next review.
NextInv == status \in {"active", "overdue"} => \E r \in Open : due[r] = nextDue

\* The dates of an account that was not locked are those of its last disabling, or cleared.
RetentionInv ==
  /\ accessAt <= clock
  /\ step # "idle" => accessAt <= passAt /\ passAt <= clock
  /\ status \in {"disabled", "scheduled"} /\ ~locked =>
       /\ disabledAt # 0 => disabledAt >= accessAt
       /\ deletionDue # 0 => deletionDue >= accessAt + Retention

ReviewInv == /\ Typed /\ LifeInv /\ AskInv /\ PassInv /\ ConfirmInv /\ NextInv /\ RetentionInv

-----------------------------------------------------------------------------
(***************************************************************************)
(* Constants and rows.                                                     *)
(***************************************************************************)

LEMMA Periods ==
  /\ First \in Contacts /\ NoContact \notin Contacts /\ NoContact \notin Days /\ Days \subseteq Int
  /\ Interval \in Nat \ {0} /\ PendingLife \in Nat \ {0} /\ CodeLife \in Nat \ {0}
  /\ Lease \in Nat \ {0} /\ MaxClock \in Nat \ {0}
  /\ Grace \in Nat /\ Retention \in Nat /\ MaxReviews \in Nat /\ MaxEdits \in Nat
BY ConstantsAssumption DEF ConstantsAssumption

LEMMA ReviewNumbers == Reviews \subseteq Nat \ {0} /\ 0 \notin Reviews
BY Periods DEF Reviews

LEMMA AskParts ==
  /\ \A a \in Asks : a[1] \in Reviews /\ a[2] \in Contacts /\ a = <<a[1], a[2]>>
  /\ \A r \in Reviews, c \in Contacts : <<r, c>> \in Asks
  /\ \A m \in Reminders : m[1] \in Reviews /\ m[2] \in Days /\ m[2] \in Int
<1>1. \A a \in Asks : a[1] \in Reviews /\ a[2] \in Contacts /\ a = <<a[1], a[2]>>
  BY DEF Asks
<1>2. \A r \in Reviews, c \in Contacts : <<r, c>> \in Asks
  BY DEF Asks
<1>3. \A m \in Reminders : m[1] \in Reviews /\ m[2] \in Days
  BY DEF Reminders
<1> QED
  BY <1>1, <1>2, <1>3, Periods

LEMMA LinkParts ==
  \A l \in LinkRows : /\ l[1] \in Reviews /\ l[2] \in Contacts /\ l[3] \in Nat
                      /\ l = <<l[1], l[2], l[3]>> /\ <<l[1], l[2]>> \in Asks
BY DEF LinkRows, Asks

LEMMA NothingTyped == NothingSeen \in SeenRows /\ NothingAsked \in AskingRows
BY DEF NothingSeen, SeenRows, AccountRows, Stages, NothingAsked, AskingRows

LEMMA Ticks == ASSUME Typed PROVE clock \in Nat \ {0} /\ passAt \in Nat /\ edits \in Nat
BY Periods DEF Typed, ClockTyped, PassTyped

LEMMA TypeInit == Init => Typed
<1> SUFFICES ASSUME Init PROVE Typed
  OBVIOUS
<1>1. AccountTyped /\ ReviewsTyped
  BY DEF Init, AccountTyped, ReviewsTyped, Stages
<1>2. ContactsTyped
  BY Periods DEF Init, ContactsTyped
<1>3. AsksTyped /\ RemindersTyped
  BY DEF Init, AsksTyped, RemindersTyped
<1>4. RequestsTyped
  BY NothingTyped DEF Init, RequestsTyped, RequestOK
<1>5. PassTyped
  BY NothingTyped DEF Init, PassTyped, NothingAsked
<1>6. ClockTyped
  BY Periods DEF Init, ClockTyped
<1> QED
  BY <1>1, <1>2, <1>3, <1>4, <1>5, <1>6 DEF Typed

-----------------------------------------------------------------------------
(***************************************************************************)
(* What steps do to the account and its reviews.                           *)
(***************************************************************************)

AccountKept == UNCHANGED <<accountVars, due, done, accessAt>>

\* A review that exists is found complete and the next one is made.
Finishes(r, now) ==
  /\ r \in Reviews /\ Exists(r) /\ r \in details' /\ now \in Nat
  /\ done' = done \cup {r}
  /\ status' \in {status, "active"} /\ locked' = locked
  /\ disabledAt' \in {0, disabledAt} /\ deletionDue' \in {0, deletionDue}
  /\ CreateReview(now)
  /\ accessAt' = accessAt

\* The first confirmation of a contact activates the account.
Activates ==
  /\ Alive
  /\ status' = "active" /\ CreateReview(clock)
  /\ UNCHANGED <<locked, disabledAt, deletionDue, done, accessAt>>

\* The lifecycle moves the account one stage.
Moves ==
  /\ step # "idle" /\ step' = "idle"
  /\ Overdue(passAt) \/ Disable(passAt) \/ Repair(passAt) \/ Schedule(passAt) \/ NoStage(passAt)
  /\ UNCHANGED <<due, done>>

Locks == DisableAdministratively
Deletes == DeleteRows /\ UNCHANGED done

LEMMA FinishIfs ==
  ASSUME NEW complete, NEW q, NEW r \in Reviews, NEW now \in Nat, Exists(r), r \in details',
         FinishIf(complete, q, r, now), accessAt' = accessAt
  PROVE  AccountKept \/ Finishes(r, now)
BY DEF FinishIf, Finish, Finishes, AccountKept

LEMMA AskedExists ==
  ASSUME Typed, AskInv, NEW r, NEW c, NEW n, LinkValid(<<r, c, n>>)
  PROVE  /\ r \in Reviews /\ c \in Contacts /\ n \in Nat /\ <<r, c>> \in Asks
         /\ Asked(r, c) /\ Exists(r) /\ c \in contacts
<1>1. <<r, c, n>> \in links /\ <<r, c, n>> \in LinkRows
  BY DEF LinkValid, Typed, AsksTyped
<1>2. r \in Reviews /\ c \in Contacts /\ n \in Nat /\ <<r, c>> \in Asks
  BY <1>1 DEF LinkRows, Asks
<1> QED
  BY <1>1, <1>2 DEF AskInv

AccountSteps ==
  \/ AccountKept
  \/ \E r \in Reviews, now \in Nat : Finishes(r, now)
  \/ Activates \/ Moves \/ Locks \/ Deletes

LEMMA AccountChanges ==
  ASSUME Typed, LifeInv, AskInv, Next
  PROVE  AccountSteps
<1>1. ASSUME NEW q \in Requests, RequestStep(q) PROVE AccountSteps
  <2>1. CASE ConfirmCommit(q)
    <3> DEFINE r == seen[q].review
    <3>1. /\ Exists(r) /\ details' = details \cup {r} /\ accessAt' = accessAt
          /\ FinishIf(seen[q].complete, q, r, seen[q].at)
          /\ doing[q] = "confirming"
      BY <2>1 DEF ConfirmCommit, historyVars
    <3>2. r \in Reviews /\ seen[q].at \in Nat
      BY <3>1 DEF Typed, RequestsTyped, RequestOK, SeenRows
    <3> QED
      BY <3>1, <3>2, FinishIfs DEF AccountSteps
  <2>2. ASSUME NEW gone \in SUBSET Contacts, Remove(q, gone) PROVE AccountSteps
    <3>1. details' = details /\ accessAt' = accessAt
      BY <2>2 DEF Remove, historyVars
    <3>2. CASE UNCHANGED <<accountVars, due, done>>
      BY <3>1, <3>2 DEF AccountSteps, AccountKept
    <3>3. ASSUME NEW r \in Reviews, Current(r), NEW complete,
                 complete = (r \in details /\ Complete(r, contacts \ gone)),
                 FinishIf(complete, q, r, clock)
          PROVE  AccountSteps
      <4>1. CASE complete
        BY <3>1, <3>3, <4>1, FinishIfs, Ticks DEF AccountSteps, Current, Open
      <4>2. CASE ~complete
        BY <3>1, <3>3, <4>2 DEF FinishIf, AccountSteps, AccountKept
      <4> QED
        BY <4>1, <4>2
    <3> QED
      BY <2>2, <3>2, <3>3 DEF Remove
  <2>3. CASE VerifyLink(q)
    <3> DEFINE r == seen[q].review
               c == seen[q].contact
               complete == r \in details \ done /\ Complete(r, contacts)
    <3>1. /\ LinkValid(<<r, c, seen[q].link>>) /\ FinishIf(complete, q, r, clock)
          /\ details' = details /\ accessAt' = accessAt
      BY <2>3 DEF VerifyLink, FinishAfterAnswer
    <3>2. r \in Reviews /\ Exists(r)
      BY <3>1, AskedExists
    <3>3. CASE complete
      BY <3>1, <3>2, <3>3, FinishIfs, Ticks DEF AccountSteps
    <3>4. CASE ~complete
      BY <3>1, <3>4 DEF FinishIf, AccountSteps, AccountKept
    <3> QED
      BY <3>3, <3>4
  <2>4. CASE VerifyCode(q)
    <3>0. details' = details /\ accessAt' = accessAt /\ seen[q].contact \in contacts
      BY <2>4 DEF VerifyCode, historyVars
    <3>1. CASE /\ status' = "active" /\ CreateReview(clock)
               /\ UNCHANGED <<locked, disabledAt, deletionDue, done>>
      <4>1. Alive
        BY <3>0 DEF LifeInv
      <4> QED
        BY <3>0, <3>1, <4>1 DEF Activates, AccountSteps
    <3>2. ASSUME NEW r \in Reviews, Waiting(r, seen[q].contact), FinishAfterAnswer(q, r)
          PROVE  AccountSteps
      <4> DEFINE complete == r \in details \ done /\ Complete(r, contacts)
      <4>1. Exists(r)
        BY <3>0, <3>2 DEF Waiting, AskInv, Typed, ContactsTyped
      <4>2. FinishIf(complete, q, r, clock)
        BY <3>2 DEF FinishAfterAnswer
      <4>3. CASE complete
        BY <3>0, <4>1, <4>2, <4>3, FinishIfs, Ticks DEF AccountSteps
      <4>4. CASE ~complete
        BY <3>0, <4>2, <4>4 DEF FinishIf, AccountSteps, AccountKept
      <4> QED
        BY <4>3, <4>4
    <3>3. CASE UNCHANGED <<accountVars, due, done>>
      BY <3>0, <3>3 DEF AccountSteps, AccountKept
    <3> QED
      BY <2>4, <3>1, <3>2, <3>3 DEF VerifyCode
  <2>5. CASE \/ Enter(q) \/ ConfirmRead(q) \/ Refuse(q)
             \/ \E c \in Contacts : SendCode(q, c) \/ OpenCode(q, c)
             \/ \E l \in links : OpenLink(q, l[1], l[2], l[3])
    BY <2>5 DEF Enter, ConfirmRead, Refuse, SendCode, OpenCode, OpenLink, AccountSteps, AccountKept,
                rowVars, reviewVars, historyVars
  <2> QED
    BY <1>1, <2>1, <2>2, <2>3, <2>4, <2>5 DEF RequestStep
<1>2. ASSUME PassStep PROVE AccountSteps
  <2>1. CASE Lifecycle
    <3>1. CASE DeleteRows
      BY <2>1, <3>1 DEF Lifecycle, Deletes, AccountSteps
    <3>2. CASE /\ \/ Overdue(passAt) \/ Disable(passAt) \/ Repair(passAt) \/ Schedule(passAt)
                  \/ NoStage(passAt)
               /\ UNCHANGED due
      BY <2>1, <3>2 DEF Lifecycle, EndPass, Moves, AccountSteps
    <3> QED
      BY <2>1, <3>1, <3>2 DEF Lifecycle
  <2>2. CASE \/ StartPass \/ (\E m \in todo : DropReminder(m) \/ ClaimReminder(m)) \/ AskContacts
             \/ \E failed, bounced \in SUBSET Contacts, holderTold \in BOOLEAN :
                  CommitReminder(failed, bounced, holderTold)
             \/ FailPass
    BY <2>2 DEF StartPass, DropReminder, ClaimReminder, AskContacts, CommitReminder, FailPass,
                AccountSteps, AccountKept, rowVars, reviewVars, historyVars
  <2> QED
    BY <1>2, <2>1, <2>2 DEF PassStep
<1>3. ASSUME DisableAdministratively \/ DeleteAccount PROVE AccountSteps
  BY <1>3 DEF Locks, DeleteAccount, Deletes, AccountSteps
<1>4. ASSUME (\E c \in Contacts : Bounce(c)) \/ Tick PROVE AccountSteps
  BY <1>4 DEF Bounce, Tick, AccountSteps, AccountKept, rowVars, reviewVars, historyVars
<1> QED
  BY <1>1, <1>2, <1>3, <1>4 DEF Next

LEMMA NewReview ==
  ASSUME Typed, NEW now \in Nat, CreateReview(now)
  PROVE  /\ \E f \in Reviews :
              /\ ~Exists(f) /\ due'[f] = nextDue' /\ due'[f] # 0
              /\ \A r \in Reviews \ {f} : due'[r] = due[r]
         /\ due' \in [Reviews -> Nat] /\ nextDue' \in Nat /\ graceDue' \in Nat \ {0}
<1> DEFINE next == now + Interval
<1>1. PICK f \in Fresh : due' = [due EXCEPT ![f] = next]
  BY DEF CreateReview
<1>2. nextDue' = next /\ graceDue' = next + Grace
  BY DEF CreateReview
<1>3. next \in Nat \ {0} /\ Grace \in Nat
  BY Periods
<1>4. f \in Reviews /\ ~Exists(f) /\ due \in [Reviews -> Nat]
  BY DEF Fresh, Typed, ReviewsTyped
<1> HIDE DEF next
<1>5. /\ due' \in [Reviews -> Nat] /\ due'[f] = next
      /\ \A r \in Reviews \ {f} : due'[r] = due[r]
  BY <1>1, <1>3, <1>4
<1> QED
  BY <1>2, <1>3, <1>4, <1>5

\* The holder's part of a review that exists is confirmed, or none.
LEMMA DetailsChange ==
  ASSUME Typed, Next
  PROVE  details' = details \/ \E r \in Reviews : Exists(r) /\ details' = details \cup {r}
<1>1. ASSUME NEW q \in Requests, RequestStep(q)
      PROVE  details' = details \/ \E r \in Reviews : Exists(r) /\ details' = details \cup {r}
  <2>1. CASE ConfirmCommit(q)
    <3>1. /\ doing[q] = "confirming" /\ Exists(seen[q].review)
          /\ details' = details \cup {seen[q].review}
      BY <2>1 DEF ConfirmCommit
    <3>2. seen[q].review \in Reviews
      BY <3>1 DEF Typed, RequestsTyped, RequestOK
    <3> QED
      BY <3>1, <3>2
  <2> QED
    BY <1>1, <2>1 DEF RequestStep, Enter, ConfirmRead, Remove, SendCode, OpenCode, OpenLink,
                      VerifyLink, VerifyCode, Refuse, rowVars, reviewVars
<1>2. ASSUME PassStep PROVE details' = details
  BY <1>2 DEF PassStep, StartPass, DropReminder, ClaimReminder, AskContacts, CommitReminder,
              Lifecycle, FailPass, rowVars, reviewVars
<1>3. ASSUME DisableAdministratively \/ DeleteAccount \/ (\E c \in Contacts : Bounce(c)) \/ Tick
      PROVE  details' = details
  BY <1>3 DEF DisableAdministratively, DeleteAccount, Bounce, Tick, rowVars, reviewVars
<1> QED
  BY <1>1, <1>2, <1>3 DEF Next

\* Stages and dates
LEMMA Staged ==
  ASSUME Typed, Moves
  PROVE  /\ status' \in Stages /\ disabledAt' \in Nat /\ deletionDue' \in Nat /\ accessAt' \in Nat
         /\ UNCHANGED <<locked, nextDue, graceDue, due, done>>
         /\ status' \in {"active", "overdue"} => status \in {"active", "overdue"}
         /\ status' = "deleted" => status = "deleted"
         /\ status = "deleted" => status' = "deleted"
<1>1. /\ status \in Stages /\ disabledAt \in Nat /\ deletionDue \in Nat /\ accessAt \in Nat
      /\ passAt \in Nat /\ Retention \in Nat
  BY Periods DEF Typed, AccountTyped, ClockTyped, PassTyped
<1>2. UNCHANGED <<due, done>>
  BY DEF Moves
<1>3. CASE Overdue(passAt)
  BY <1>1, <1>2, <1>3 DEF Overdue, Stages
<1>4. CASE Disable(passAt)
  BY <1>1, <1>2, <1>4 DEF Disable, DeletionDate, Stages
<1>5. CASE Repair(passAt)
  <2> DEFINE since == IF disabledAt = 0 THEN passAt ELSE disabledAt
  <2>1. since \in Nat /\ disabledAt' = since /\ deletionDue' = since + Retention
        /\ UNCHANGED <<status, locked, nextDue, graceDue, accessAt>>
    BY <1>1, <1>5 DEF Repair
  <2> QED
    BY <1>1, <1>2, <2>1
<1>6. CASE Schedule(passAt)
  BY <1>1, <1>2, <1>6 DEF Schedule, Doomed, Stages
<1>7. CASE NoStage(passAt)
  BY <1>1, <1>2, <1>7 DEF NoStage, accountVars
<1> QED
  BY <1>3, <1>4, <1>5, <1>6, <1>7 DEF Moves

LEMMA Locking ==
  ASSUME Typed, Locks
  PROVE  /\ status' = "disabled" /\ locked' = TRUE /\ disabledAt' \in Nat /\ deletionDue' \in Nat
         /\ Alive
         /\ UNCHANGED <<nextDue, graceDue, due, done, accessAt>>
<1> DEFINE since == IF disabledAt = 0 THEN clock ELSE disabledAt
<1>1. /\ status' = "disabled" /\ locked' = TRUE /\ disabledAt' = since
      /\ deletionDue' = IF deletionDue = 0 THEN since + Retention ELSE deletionDue
      /\ status # "deleted"
      /\ UNCHANGED <<nextDue, graceDue, due, done, accessAt>>
  BY DEF Locks, DisableAdministratively, reviewVars, historyVars
<1>2. since \in Nat /\ deletionDue \in Nat /\ Retention \in Nat
  BY Ticks, Periods DEF Typed, AccountTyped
<1> HIDE DEF since
<1> QED
  BY <1>1, <1>2 DEF Alive

LEMMA AccountNext ==
  ASSUME Typed, AccountSteps
  PROVE  AccountTyped' /\ due' \in [Reviews -> Nat] /\ accessAt' \in Nat
<1>0. AccountTyped /\ due \in [Reviews -> Nat] /\ accessAt \in Nat
  BY DEF Typed, ReviewsTyped, ClockTyped
<1>1. CASE AccountKept
  BY <1>0, <1>1 DEF AccountKept, AccountTyped, accountVars
<1>2. ASSUME NEW r \in Reviews, NEW now \in Nat, Finishes(r, now)
      PROVE  AccountTyped' /\ due' \in [Reviews -> Nat] /\ accessAt' \in Nat
  BY <1>0, <1>2, NewReview DEF Finishes, AccountTyped, Stages
<1>3. CASE Activates
  BY <1>0, <1>3, NewReview, Ticks DEF Activates, AccountTyped, Stages
<1>4. CASE Moves
  BY <1>0, <1>4, Staged DEF AccountTyped
<1>5. CASE Locks
  BY <1>0, <1>5, Locking DEF AccountTyped, Stages
<1>6. CASE Deletes
  <2>1. /\ status' = "deleted" /\ due' = [r \in Reviews |-> 0]
        /\ UNCHANGED <<locked, disabledAt, deletionDue, nextDue, graceDue, accessAt>>
    BY <1>6 DEF Deletes, DeleteRows
  <2> QED
    BY <1>0, <2>1 DEF AccountTyped, Stages
<1> QED
  BY <1>1, <1>2, <1>3, <1>4, <1>5, <1>6 DEF AccountSteps

LEMMA ReviewsNext ==
  ASSUME Typed, AccountSteps, Next
  PROVE  ReviewsTyped'
<1>1. due' \in [Reviews -> Nat]
  BY AccountNext
<1>2. details' \subseteq Reviews /\ details \subseteq details' /\ done \subseteq details
  BY DetailsChange DEF Typed, ReviewsTyped
<1>3. done' = done \/ \E r \in Reviews : r \in details' /\ done' = done \cup {r}
  BY Staged, Locking DEF AccountSteps, AccountKept, Finishes, Activates, Deletes
<1> QED
  BY <1>1, <1>2, <1>3 DEF ReviewsTyped

\* The next review of an account that is not disabled
LEMMA NextKept ==
  ASSUME Typed, LifeInv, NextInv, AccountSteps
  PROVE  NextInv'
<1>0. ASSUME UNCHANGED <<due, done, nextDue>>,
             status' \in {"active", "overdue"} => status \in {"active", "overdue"}
      PROVE  NextInv'
  BY <1>0 DEF NextInv, Open, Exists
<1>1. CASE AccountKept
  BY <1>0, <1>1 DEF AccountKept, accountVars
<1>2. ASSUME NEW r \in Reviews, NEW now \in Nat, Finishes(r, now) PROVE NextInv'
  <2>1. PICK f \in Reviews : /\ ~Exists(f) /\ due'[f] = nextDue' /\ due'[f] # 0
    BY <1>2, NewReview DEF Finishes
  <2>2. done' = done \cup {r} /\ Exists(r)
    BY <1>2 DEF Finishes
  <2>3. f \notin done
    <3>1. Alive
      BY <2>2 DEF LifeInv
    <3> QED
      BY <2>1, <3>1 DEF LifeInv, Named, Typed, ReviewsTyped
  <2> QED
    BY <2>1, <2>2, <2>3 DEF NextInv, Open, Exists
<1>3. CASE Activates
  <2>1. PICK f \in Reviews : /\ ~Exists(f) /\ due'[f] = nextDue' /\ due'[f] # 0
    BY <1>3, NewReview, Ticks DEF Activates
  <2>2. f \notin done /\ done' = done
    BY <1>3, <2>1 DEF Activates, LifeInv, Named, Typed, ReviewsTyped
  <2> QED
    BY <2>1, <2>2 DEF NextInv, Open, Exists
<1>4. CASE Moves
  BY <1>0, <1>4, Staged
<1>5. CASE Locks
  BY <1>5, Locking DEF NextInv
<1>6. CASE Deletes
  BY <1>6 DEF Deletes, DeleteRows, NextInv
<1> QED
  BY <1>1, <1>2, <1>3, <1>4, <1>5, <1>6 DEF AccountSteps

LEMMA TimesChange ==
  ASSUME Typed, Next
  PROVE  /\ clock' \in {clock, clock + 1} /\ clock' \in 1..MaxClock
         /\ step' # "idle" => \/ step # "idle" /\ passAt' = passAt
                              \/ step = "idle" /\ passAt' = clock
<1>1. ASSUME NEW q \in Requests, RequestStep(q) PROVE UNCHANGED <<clock, step, passAt>>
  BY <1>1 DEF RequestStep, Enter, ConfirmRead, ConfirmCommit, Remove, SendCode, OpenCode, OpenLink,
              VerifyLink, VerifyCode, Refuse, passVars
<1>2. ASSUME PassStep
      PROVE  /\ clock' = clock
             /\ step' # "idle" => \/ step # "idle" /\ passAt' = passAt
                                  \/ step = "idle" /\ passAt' = clock
  BY <1>2 DEF PassStep, StartPass, DropReminder, ClaimReminder, AskContacts, CommitReminder,
              Lifecycle, FailPass, EndPass
<1>3. ASSUME DisableAdministratively \/ DeleteAccount \/ (\E c \in Contacts : Bounce(c))
      PROVE  UNCHANGED <<clock, step, passAt>>
  BY <1>3 DEF DisableAdministratively, DeleteAccount, Bounce, passVars
<1>4. ASSUME Tick PROVE clock' = clock + 1 /\ clock < MaxClock /\ UNCHANGED <<step, passAt>>
  BY <1>4 DEF Tick, passVars
<1> QED
  BY <1>1, <1>2, <1>3, <1>4, Periods DEF Next, Typed, ClockTyped

\* The retention is counted from the pass that disabled the account, whatever a request that
\* overlapped it has cleared.
LEMMA RetentionNext ==
  ASSUME Typed, RetentionInv, AccountSteps, Next
  PROVE  RetentionInv'
<1> DEFINE DatesOK == status \in {"disabled", "scheduled"} /\ ~locked =>
                        /\ disabledAt # 0 => disabledAt >= accessAt
                        /\ deletionDue # 0 => deletionDue >= accessAt + Retention
<1>0. /\ accessAt \in Nat /\ clock \in Nat /\ passAt \in Nat /\ Retention \in Nat
      /\ disabledAt \in Nat /\ deletionDue \in Nat /\ DatesOK
      /\ accessAt <= clock /\ (step # "idle" => accessAt <= passAt /\ passAt <= clock)
  BY Ticks, Periods DEF Typed, AccountTyped, ClockTyped, RetentionInv
<1>1. accessAt' \in {accessAt, passAt} /\ (accessAt' # accessAt => step # "idle" /\ step' = "idle")
  <2>1. CASE Moves
    BY <2>1 DEF Moves, Overdue, Disable, Repair, Schedule, NoStage
  <2>2. CASE ~Moves
    BY <2>2, Locking DEF AccountSteps, AccountKept, Finishes, Activates, Deletes, DeleteRows
  <2> QED
    BY <2>1, <2>2
<1>2. accessAt' <= clock' /\ (step' # "idle" => accessAt' <= passAt' /\ passAt' <= clock')
  BY <1>0, <1>1, TimesChange
<1>3. DatesOK'
  <2>1. ASSUME status' \in {"disabled", "scheduled"} => status \in {"disabled", "scheduled"},
               ~locked' => ~locked, accessAt' = accessAt,
               disabledAt' \in {0, disabledAt}, deletionDue' \in {0, deletionDue}
        PROVE  DatesOK'
    BY <1>0, <2>1
  <2>2. CASE AccountKept
    BY <2>1, <2>2 DEF AccountKept, accountVars
  <2>3. ASSUME NEW r \in Reviews, NEW now \in Nat, Finishes(r, now) PROVE DatesOK'
    BY <2>1, <2>3 DEF Finishes
  <2>4. CASE Activates
    BY <2>4 DEF Activates
  <2>5. CASE Locks
    BY <2>5, Locking
  <2>6. CASE Deletes
    BY <2>6 DEF Deletes, DeleteRows
  <2>7. CASE Moves
    <3>1. CASE Overdue(passAt)
      BY <3>1 DEF Overdue
    <3>2. CASE Disable(passAt)
      BY <1>0, <3>2 DEF Disable, DeletionDate
    <3>3. CASE Repair(passAt)
      <4> DEFINE since == IF disabledAt = 0 THEN passAt ELSE disabledAt
      <4>1. /\ status = "disabled" /\ disabledAt' = since /\ deletionDue' = since + Retention
            /\ UNCHANGED <<status, locked, accessAt>> /\ step # "idle"
        BY <2>7, <3>3 DEF Repair, Undated, Moves
      <4>2. since \in Nat /\ (~locked => since >= accessAt)
        BY <1>0, <4>1
      <4> HIDE DEF since
      <4> QED
        BY <1>0, <4>1, <4>2
    <3>4. CASE Schedule(passAt)
      BY <2>1, <3>4 DEF Schedule, Doomed
    <3>5. CASE NoStage(passAt)
      BY <2>1, <3>5 DEF NoStage, accountVars
    <3> QED
      BY <2>7, <3>1, <3>2, <3>3, <3>4, <3>5 DEF Moves
  <2> QED
    BY <2>2, <2>3, <2>4, <2>5, <2>6, <2>7 DEF AccountSteps
<1> QED
  BY <1>2, <1>3 DEF RetentionInv

-----------------------------------------------------------------------------
(***************************************************************************)
(* Contacts and what they are asked.                                       *)
(***************************************************************************)

AskFacts == <<askedUntil, lastDay, answered, issued, links, confirmations>>

\* Nobody is asked, nobody answers, nobody comes or goes.
Keeps == UNCHANGED <<created, contacts, AskFacts>> /\ verified' \subseteq verified

Drops(gone) ==
  /\ contacts' = contacts \ gone /\ verified' = verified \ gone /\ created' = created
  /\ links' = {l \in links : l[2] \notin gone}
  /\ askedUntil' = [a \in Asks |-> IF a[2] \in gone THEN 0 ELSE askedUntil[a]]
  /\ UNCHANGED <<lastDay, answered, issued, confirmations>>

Adds(c) ==
  /\ Alive /\ c \in Contacts /\ (c \in contacts \/ c \notin created)
  /\ created' = created \cup {c} /\ contacts' = contacts \cup {c}
  /\ verified' \subseteq verified
  /\ UNCHANGED AskFacts

\* Contact c confirms itself, and answers contact review a that waits for it; by a link of
\* request q, or with a first link.
Confirms(c) ==
  /\ c \in contacts /\ verified' = verified \cup {c}
  /\ UNCHANGED <<created, contacts, AskFacts>>
Answers(r, c) ==
  /\ r \in Reviews /\ c \in Contacts /\ Asked(r, c)
  /\ verified' = verified \cup {c} /\ Answer(c, r)
  /\ UNCHANGED <<created, contacts, askedUntil, lastDay, issued>>
  /\ \/ confirmations' = confirmations
     \/ /\ \E q \in Requests : /\ doing[q] = "link" /\ seen[q].review = r /\ seen[q].contact = c
                               /\ <<r, c, seen[q].link>> \in links
        /\ confirmations' = [confirmations EXCEPT ![<<r, c>>] = @ + 1]

Commits == \E failed, bounced \in SUBSET Contacts, holderTold \in BOOLEAN :
             CommitReminder(failed, bounced, holderTold)

\* Links run out.
Loses ==
  /\ links' \subseteq links /\ verified' \subseteq verified
  /\ UNCHANGED <<created, contacts, askedUntil, lastDay, answered, issued, confirmations>>

Empties ==
  /\ status' = "deleted"
  /\ contacts' = {} /\ verified' = {} /\ links' = {} /\ askedUntil' = [a \in Asks |-> 0]
  /\ due' = [r \in Reviews |-> 0]
  /\ UNCHANGED <<created, lastDay, answered, issued, confirmations>>

ContactSteps ==
  \/ Keeps
  \/ \E gone \in SUBSET Contacts : Drops(gone)
  \/ \E c \in Contacts : Adds(c)
  \/ \E c \in Contacts : Confirms(c)
  \/ \E r \in Reviews, c \in Contacts : Answers(r, c)
  \/ Commits \/ Loses \/ Empties

LEMMA ContactChanges ==
  ASSUME Typed, AskInv, Next
  PROVE  ContactSteps
<1>0. ContactsTyped /\ AsksTyped
  BY DEF Typed
<1>1. ASSUME NEW q \in Requests, RequestStep(q) PROVE ContactSteps
  <2>1. ASSUME NEW gone \in SUBSET Contacts, Remove(q, gone) PROVE ContactSteps
    BY <2>1 DEF Remove, Drops, ContactSteps, historyVars
  <2>2. ASSUME NEW c \in Contacts, SendCode(q, c) PROVE ContactSteps
    BY <2>2 DEF SendCode, Adds, ContactSteps, askVars, historyVars, AskFacts, Alive
  <2>3. CASE VerifyLink(q)
    <3> DEFINE r == seen[q].review
               c == seen[q].contact
    <3>1. /\ LinkValid(<<r, c, seen[q].link>>) /\ <<r, c, seen[q].link>> \in links
          /\ doing[q] = "link"
          /\ verified' = verified \cup {c} /\ Answer(c, r)
          /\ confirmations' = [confirmations EXCEPT ![<<r, c>>] = @ + 1]
          /\ UNCHANGED <<created, contacts, askedUntil, lastDay, issued>>
      BY <2>3 DEF VerifyLink, LinkValid
    <3>2. r \in Reviews /\ c \in Contacts /\ Asked(r, c)
      BY <3>1, AskedExists
    <3>3. Answers(r, c)
      BY <3>1, <3>2 DEF Answers
    <3> QED
      BY <3>2, <3>3 DEF ContactSteps
  <2>4. CASE VerifyCode(q)
    <3> DEFINE c == seen[q].contact
    <3>1. /\ c \in contacts /\ c \in Contacts /\ verified' = verified \cup {c}
          /\ UNCHANGED <<created, contacts, askedUntil, lastDay, issued, confirmations>>
      BY <1>0, <2>4 DEF VerifyCode, historyVars, ContactsTyped
    <3>2. CASE UNCHANGED <<answered, links>>
      BY <3>1, <3>2 DEF Confirms, ContactSteps, AskFacts
    <3>3. ASSUME NEW r \in Reviews, Waiting(r, c), Answer(c, r) PROVE ContactSteps
      <4>1. Answers(r, c)
        BY <3>1, <3>3 DEF Answers, Waiting
      <4> QED
        BY <3>1, <4>1 DEF ContactSteps
    <3> QED
      BY <2>4, <3>2, <3>3 DEF VerifyCode
  <2>5. CASE \/ Enter(q) \/ ConfirmRead(q) \/ ConfirmCommit(q) \/ Refuse(q)
             \/ \E c \in Contacts : OpenCode(q, c)
             \/ \E l \in links : OpenLink(q, l[1], l[2], l[3])
    BY <2>5 DEF Enter, ConfirmRead, ConfirmCommit, Refuse, OpenCode, OpenLink, rowVars, contactVars,
                askVars, historyVars, Keeps, AskFacts, ContactSteps
  <2> QED
    BY <1>1, <2>1, <2>2, <2>3, <2>4, <2>5 DEF RequestStep
<1>2. ASSUME DeleteRows, UNCHANGED <<created, lastDay, answered, issued, confirmations>>
      PROVE  ContactSteps
  BY <1>2 DEF DeleteRows, Empties, ContactSteps
<1>3. ASSUME PassStep PROVE ContactSteps
  <2>1. CASE Lifecycle
    <3>1. CASE DeleteRows
      BY <1>2, <2>1, <3>1 DEF Lifecycle
    <3>2. CASE Lapse(passAt) /\ UNCHANGED <<contacts, askedUntil>>
      BY <2>1, <3>2 DEF Lifecycle, Lapse, Loses, ContactSteps
    <3> QED
      BY <2>1, <3>1, <3>2 DEF Lifecycle
  <2>2. CASE Commits
    BY <2>2 DEF ContactSteps
  <2>3. CASE \/ StartPass \/ (\E m \in todo : DropReminder(m) \/ ClaimReminder(m)) \/ AskContacts
             \/ FailPass
    BY <2>3 DEF StartPass, DropReminder, ClaimReminder, AskContacts, FailPass, rowVars, contactVars,
                askVars, historyVars, Keeps, AskFacts, ContactSteps
  <2> QED
    BY <1>3, <2>1, <2>2, <2>3 DEF PassStep, Commits
<1>4. ASSUME DeleteAccount PROVE ContactSteps
  BY <1>2, <1>4 DEF DeleteAccount
<1>5. ASSUME DisableAdministratively \/ (\E c \in Contacts : Bounce(c)) \/ Tick PROVE ContactSteps
  BY <1>5 DEF DisableAdministratively, Bounce, Tick, rowVars, contactVars, askVars, historyVars,
              Keeps, AskFacts, ContactSteps
<1> QED
  BY <1>1, <1>3, <1>4, <1>5 DEF Next

\* What committing a reminder does to whom it asks
LEMMA CommitEffects ==
  ASSUME Typed, LifeInv, PassInv, Commits
  PROVE  /\ UNCHANGED <<created, contacts, answered, confirmations, due, details, done, codeUntil,
                        status, seen, doing, seenGrace>>
         /\ verified' \subseteq verified
         /\ asking.reminder \in Reminders /\ step = "asking" /\ step' = "reminders" /\ Alive
         /\ Exists(asking.reminder[1]) /\ asking.open \subseteq contacts
         /\ askedUntil' \in [Asks -> Nat]
         /\ \A a \in Asks : askedUntil'[a] = IF a[1] = asking.reminder[1] /\ a[2] \in asking.new
                                             THEN seenGrace ELSE askedUntil[a]
         /\ issued' \in [Asks -> Nat] /\ \A a \in Asks : issued[a] <= issued'[a]
         /\ lastDay' \in [Asks -> Days \cup {NoContact}]
         /\ \A a \in Asks : \/ lastDay'[a] = lastDay[a]
                            \/ a[1] = asking.reminder[1] /\ a[2] \in asking.open
         /\ links' \subseteq LinkRows
         /\ \A l \in links' : \/ l \in links
                              \/ /\ l[1] = asking.reminder[1] /\ l[2] \in asking.open
                                 /\ l[3] = issued[<<l[1], l[2]>>] + 1
                                 /\ issued'[<<l[1], l[2]>>] = l[3]
         /\ sent' \subseteq sent \cup Reminders
         /\ leased' \in [Reminders -> Nat]
<1> DEFINE m == asking.reminder
           open == asking.open
           asked == {<<m[1], c>> : c \in open}
<1>1. PICK failed \in SUBSET Contacts, bounced \in SUBSET Contacts, holderTold \in BOOLEAN :
        CommitReminder(failed, bounced, holderTold)
  BY DEF Commits
<1>2. /\ step = "asking" /\ step' = "reminders" /\ Exists(m[1]) /\ open \subseteq contacts
      /\ UNCHANGED <<created, contacts, answered, confirmations, due, details, done, codeUntil,
                     status, seen, doing, seenGrace>>
      /\ verified' \subseteq verified
      /\ askedUntil' = [a \in Asks |->
           IF a[1] = m[1] /\ a[2] \in asking.new THEN seenGrace ELSE askedUntil[a]]
      /\ links' = links \cup {<<a[1], a[2], issued[a] + 1>> : a \in asked}
      /\ issued' = [a \in Asks |-> IF a \in asked THEN issued[a] + 1 ELSE issued[a]]
      /\ lastDay' = [a \in Asks |->
           IF a \in asked /\ a[2] \notin failed THEN m[2] ELSE lastDay[a]]
      /\ sent' \subseteq sent \cup {m}
      /\ leased' = [leased EXCEPT ![m] = 0]
  BY <1>1 DEF CommitReminder, accountVars, reviewVars, requestVars, historyVars
<1>3. m \in Reminders /\ m[1] \in Reviews /\ m[2] \in Days
  BY <1>2, AskParts DEF PassInv
<1>4. Alive
  BY <1>2, <1>3 DEF LifeInv
<1>5. /\ askedUntil \in [Asks -> Nat] /\ lastDay \in [Asks -> Days \cup {NoContact}]
      /\ issued \in [Asks -> Nat] /\ links \subseteq LinkRows /\ seenGrace \in Nat
      /\ leased \in [Reminders -> Nat] /\ open \subseteq Contacts
  BY DEF Typed, AsksTyped, PassTyped, RemindersTyped, AskingRows
<1>6. \A a \in asked : a \in Asks /\ a[1] = m[1] /\ a[2] \in open /\ a = <<a[1], a[2]>>
  BY <1>3, <1>5 DEF Asks
<1> HIDE DEF m, open, asked
<1>7. /\ askedUntil' \in [Asks -> Nat]
      /\ \A a \in Asks : askedUntil'[a] = IF a[1] = m[1] /\ a[2] \in asking.new
                                          THEN seenGrace ELSE askedUntil[a]
  BY <1>2, <1>5
<1>8. issued' \in [Asks -> Nat] /\ \A a \in Asks : issued[a] <= issued'[a]
  BY <1>2, <1>5
<1>9. /\ lastDay' \in [Asks -> Days \cup {NoContact}]
      /\ \A a \in Asks : lastDay'[a] = lastDay[a] \/ (a[1] = m[1] /\ a[2] \in open)
  BY <1>2, <1>3, <1>5, <1>6
<1>10. ASSUME NEW l \in links', l \notin links
       PROVE  /\ l \in LinkRows /\ l[1] = m[1] /\ l[2] \in open
              /\ l[3] = issued[<<l[1], l[2]>>] + 1 /\ issued'[<<l[1], l[2]>>] = l[3]
  <2>1. PICK a \in asked : l = <<a[1], a[2], issued[a] + 1>>
    BY <1>2, <1>10
  <2>2. /\ a \in Asks /\ a[1] = m[1] /\ a[2] \in open /\ a = <<a[1], a[2]>>
        /\ issued'[a] = issued[a] + 1 /\ issued[a] \in Nat
    BY <1>2, <1>5, <1>6, <2>1
  <2>3. a[1] \in Reviews /\ a[2] \in Contacts
    BY <2>2, AskParts
  <2> QED
    BY <2>1, <2>2, <2>3 DEF LinkRows
<1>11. links' \subseteq LinkRows
  BY <1>5, <1>10
<1>12. leased' \in [Reminders -> Nat]
  BY <1>2, <1>3, <1>5
<1> QED
  BY <1>2, <1>3, <1>4, <1>7, <1>8, <1>9, <1>10, <1>11, <1>12 DEF m, open

LEMMA DropEffects ==
  ASSUME Typed, NEW gone, Drops(gone)
  PROVE  /\ UNCHANGED <<created, lastDay, answered, issued, confirmations>>
         /\ contacts' = contacts \ gone /\ verified' \subseteq verified \ gone
         /\ askedUntil' \in [Asks -> Nat]
         /\ \A a \in Asks : askedUntil'[a] = IF a[2] \in gone THEN 0 ELSE askedUntil[a]
         /\ links' \subseteq links /\ \A l \in links' : l[2] \notin gone
BY DEF Drops, Typed, AsksTyped

LEMMA AnswerEffects ==
  ASSUME Typed, NEW r, NEW c, Answers(r, c)
  PROVE  /\ <<r, c>> \in Asks
         /\ UNCHANGED <<created, contacts, askedUntil, lastDay, issued>>
         /\ answered' = answered \cup {<<r, c>>}
         /\ links' \subseteq links /\ \A l \in links' : <<l[1], l[2]>> # <<r, c>>
         /\ confirmations' \in [Asks -> Nat]
         /\ \A a \in Asks : \/ confirmations'[a] = confirmations[a]
                            \/ a = <<r, c>> /\ confirmations'[a] = confirmations[a] + 1
BY DEF Answers, Answer, Typed, AsksTyped, Asks

LEMMA AsksNext ==
  ASSUME Typed, LifeInv, PassInv, ContactSteps
  PROVE  AsksTyped'
<1>0. AsksTyped
  BY DEF Typed
<1>1. CASE Keeps
  BY <1>0, <1>1 DEF Keeps, AskFacts, AsksTyped
<1>2. ASSUME NEW gone \in SUBSET Contacts, Drops(gone) PROVE AsksTyped'
  BY <1>0, <1>2, DropEffects DEF AsksTyped
<1>3. ASSUME NEW c \in Contacts, Adds(c) \/ Confirms(c) PROVE AsksTyped'
  BY <1>0, <1>3 DEF Adds, Confirms, AskFacts, AsksTyped
<1>4. ASSUME NEW r \in Reviews, NEW c \in Contacts, Answers(r, c) PROVE AsksTyped'
  <2>1. /\ <<r, c>> \in Asks /\ UNCHANGED <<askedUntil, lastDay, issued>>
        /\ answered' = answered \cup {<<r, c>>} /\ links' \subseteq links
        /\ confirmations' \in [Asks -> Nat]
    BY <1>4, AnswerEffects
  <2> QED
    BY <1>0, <2>1 DEF AsksTyped
<1>5. CASE Commits
  BY <1>0, <1>5, CommitEffects DEF AsksTyped
<1>6. CASE Loses
  BY <1>0, <1>6 DEF Loses, AsksTyped
<1>7. CASE Empties
  BY <1>0, <1>7 DEF Empties, AsksTyped
<1> QED
  BY <1>1, <1>2, <1>3, <1>4, <1>5, <1>6, <1>7 DEF ContactSteps

LEMMA CreatedGrows ==
  ASSUME Typed, LifeInv, AskInv, PassInv, ContactSteps
  PROVE  created \subseteq created' /\ created' \subseteq Contacts /\ contacts' \subseteq created'
         /\ verified' \subseteq contacts'
<1>0. ContactsTyped
  BY DEF Typed
<1>1. CASE Keeps
  BY <1>0, <1>1 DEF Keeps, ContactsTyped
<1>2. ASSUME NEW gone \in SUBSET Contacts, Drops(gone)
      PROVE  created' = created /\ contacts' \subseteq contacts /\ verified' \subseteq contacts'
  BY <1>0, <1>2, DropEffects DEF ContactsTyped
<1>3. ASSUME NEW c \in Contacts, Adds(c) \/ Confirms(c)
      PROVE  created \subseteq created' /\ created' \subseteq Contacts /\ contacts' \subseteq created'
             /\ verified' \subseteq contacts'
  BY <1>0, <1>3 DEF Adds, Confirms, ContactsTyped
<1>4. ASSUME NEW r \in Reviews, NEW c \in Contacts, Answers(r, c)
      PROVE  created' = created /\ contacts' = contacts /\ verified' \subseteq contacts'
  BY <1>0, <1>4 DEF Answers, AskInv, ContactsTyped
<1>5. CASE Commits
  BY <1>0, <1>5, CommitEffects DEF ContactsTyped
<1>6. CASE Loses \/ Empties
  BY <1>0, <1>6 DEF Loses, Empties, ContactsTyped
<1> QED
  BY <1>0, <1>1, <1>2, <1>3, <1>4, <1>5, <1>6 DEF ContactSteps, ContactsTyped

LEMMA CodesNext ==
  ASSUME Typed, Next
  PROVE  codeUntil' \in [Contacts -> Nat]
<1>0. codeUntil \in [Contacts -> Nat] /\ clock + CodeLife \in Nat
  BY Ticks, Periods DEF Typed, ContactsTyped
<1>1. ASSUME NEW q \in Requests, RequestStep(q) PROVE codeUntil' \in [Contacts -> Nat]
  <2>1. ASSUME NEW gone \in SUBSET Contacts, Remove(q, gone) PROVE codeUntil' \in [Contacts -> Nat]
    BY <1>0, <2>1 DEF Remove
  <2>2. ASSUME NEW c \in Contacts, SendCode(q, c) PROVE codeUntil' \in [Contacts -> Nat]
    <3>1. codeUntil' = [codeUntil EXCEPT ![c] = clock + CodeLife]
      BY <2>2 DEF SendCode
    <3> QED
      BY <1>0, <3>1
  <2>3. CASE VerifyCode(q)
    BY <1>0, <2>3 DEF VerifyCode
  <2>4. CASE \/ Enter(q) \/ ConfirmRead(q) \/ ConfirmCommit(q) \/ Refuse(q) \/ VerifyLink(q)
             \/ (\E c \in Contacts : OpenCode(q, c))
             \/ \E l \in links : OpenLink(q, l[1], l[2], l[3])
    BY <1>0, <2>4 DEF Enter, ConfirmRead, ConfirmCommit, Refuse, VerifyLink, OpenCode, OpenLink,
                      rowVars, contactVars
  <2> QED
    BY <1>1, <2>1, <2>2, <2>3, <2>4 DEF RequestStep
<1>2. CASE PassStep
  BY <1>0, <1>2 DEF PassStep, StartPass, DropReminder, ClaimReminder, AskContacts, CommitReminder,
                    Lifecycle, DeleteRows, FailPass, rowVars, contactVars
<1>3. CASE \/ DisableAdministratively \/ DeleteAccount \/ (\E c \in Contacts : Bounce(c)) \/ Tick
  BY <1>0, <1>3 DEF DisableAdministratively, DeleteAccount, DeleteRows, Bounce, Tick, rowVars,
                    contactVars
<1> QED
  BY <1>1, <1>2, <1>3 DEF Next

-----------------------------------------------------------------------------
(***************************************************************************)
(* What a request and the pass remember.                                   *)
(***************************************************************************)

Tasks == {"idle", "entered", "confirming", "code", "link"}

\* Request q goes on with task d, having loaded s; a link it opens has not been used.
Loads(q, d, s) ==
  /\ doing' = [doing EXCEPT ![q] = d] /\ seen' = [seen EXCEPT ![q] = s]
  /\ RequestOK(d, s)
  /\ d = "link" => /\ <<s.review, s.contact, s.link>> \in links
                   /\ <<s.review, s.contact>> \notin answered
                   /\ UNCHANGED <<links, answered, issued, confirmations>>

LEMMA RequestChanges ==
  ASSUME Typed, AskInv, Next
  PROVE  \/ UNCHANGED requestVars
         \/ \E q \in Requests, d \in Tasks, s \in SeenRows : Loads(q, d, s)
<1>0. /\ doing \in [Requests -> Tasks] /\ seen \in [Requests -> SeenRows]
      /\ AccountNow \in AccountRows /\ clock \in Nat /\ links \subseteq LinkRows
      /\ contacts \subseteq created /\ created \subseteq Contacts
  BY Ticks DEF Typed, RequestsTyped, Tasks, AccountNow, AccountRows, AccountTyped, AsksTyped,
               ContactsTyped
<1>1. ASSUME NEW q \in Requests, RequestStep(q)
      PROVE  \E d \in Tasks, s \in SeenRows : Loads(q, d, s)
  <2>1. CASE Return(q)
    <3>1. Loads(q, "idle", NothingSeen)
      BY <2>1 DEF Return, Loads, RequestOK
    <3> QED
      BY <3>1, NothingTyped DEF Tasks
  <2>2. CASE Enter(q)
    <3> DEFINE s == [NothingSeen EXCEPT !.account = AccountNow]
    <3>1. s \in SeenRows
      BY <1>0, NothingTyped DEF SeenRows
    <3>2. Loads(q, "entered", s)
      BY <2>2 DEF Enter, Loads, RequestOK
    <3> QED
      BY <3>1, <3>2 DEF Tasks
  <2>3. CASE ConfirmRead(q)
    <3>1. PICK r \in Reviews :
            /\ doing' = [doing EXCEPT ![q] = "confirming"]
            /\ seen' = [seen EXCEPT ![q].review = r, ![q].at = clock,
                                    ![q].complete = Complete(r, contacts)]
      BY <2>3 DEF ConfirmRead
    <3> DEFINE complete == Complete(r, contacts)
               s == [seen[q] EXCEPT !.review = r, !.at = clock, !.complete = complete]
    <3>2. complete \in BOOLEAN
      BY DEF Complete
    <3>3. seen' = [seen EXCEPT ![q] = s]
      <4> HIDE DEF complete
      <4>1. seen' = [seen EXCEPT ![q].review = r, ![q].at = clock, ![q].complete = complete]
        BY <3>1 DEF complete
      <4> QED
        BY <1>0, <4>1
    <3> HIDE DEF complete
    <3>4. s \in SeenRows /\ s.review = r
      BY <1>0, <3>2 DEF SeenRows
    <3>5. Loads(q, "confirming", s)
      BY <3>1, <3>3, <3>4 DEF Loads, RequestOK
    <3> QED
      BY <3>4, <3>5 DEF Tasks
  <2>4. ASSUME NEW c \in Contacts, OpenCode(q, c)
        PROVE  \E d \in Tasks, s \in SeenRows : Loads(q, d, s)
    <3> DEFINE s == [NothingSeen EXCEPT !.account = AccountNow, !.contact = c]
    <3>1. s \in SeenRows /\ s.contact = c
      BY <1>0, NothingTyped DEF SeenRows
    <3>2. Loads(q, "code", s)
      BY <1>0, <2>4, <3>1 DEF OpenCode, Loads, RequestOK
    <3> QED
      BY <3>1, <3>2 DEF Tasks
  <2>5. ASSUME NEW l \in links, OpenLink(q, l[1], l[2], l[3])
        PROVE  \E d \in Tasks, s \in SeenRows : Loads(q, d, s)
    <3> DEFINE s == [NothingSeen EXCEPT !.account = AccountNow, !.contact = l[2],
                                        !.review = l[1], !.link = l[3]]
    <3>1. l[1] \in Reviews /\ l[2] \in Contacts /\ l[3] \in Nat
      BY <1>0, LinkParts
    <3>2. s \in SeenRows /\ s.contact = l[2] /\ s.review = l[1] /\ s.link = l[3]
      BY <1>0, <3>1, NothingTyped DEF SeenRows
    <3>3. /\ <<l[1], l[2], l[3]>> \in links /\ <<l[1], l[2]>> \notin answered
          /\ doing' = [doing EXCEPT ![q] = "link"] /\ seen' = [seen EXCEPT ![q] = s]
          /\ UNCHANGED <<links, answered, issued, confirmations>>
      BY <2>5 DEF OpenLink, rowVars, askVars, historyVars
    <3>4. PICK t : t = s
      OBVIOUS
    <3>5. Loads(q, "link", t)
      <4>1. l[2] \in created
        BY <1>0, <3>1 DEF AskInv
      <4> QED
        BY <3>1, <3>2, <3>3, <3>4, <4>1 DEF Loads, RequestOK
    <3> QED
      BY <3>2, <3>4, <3>5 DEF Tasks
  <2>6. CASE \/ ConfirmCommit(q) \/ (\E gone \in SUBSET Contacts : Remove(q, gone))
             \/ (\E c \in Contacts : SendCode(q, c)) \/ VerifyLink(q) \/ VerifyCode(q) \/ Refuse(q)
    BY <2>1, <2>6 DEF ConfirmCommit, Remove, SendCode, VerifyLink, VerifyCode, Refuse
  <2> QED
    BY <1>1, <2>2, <2>3, <2>4, <2>5, <2>6 DEF RequestStep
<1>2. CASE PassStep
  BY <1>2 DEF PassStep, StartPass, DropReminder, ClaimReminder, AskContacts, CommitReminder,
              Lifecycle, FailPass, requestVars
<1>3. CASE \/ DisableAdministratively \/ DeleteAccount \/ (\E c \in Contacts : Bounce(c)) \/ Tick
  BY <1>3 DEF DisableAdministratively, DeleteAccount, Bounce, Tick, requestVars
<1> QED
  BY <1>1, <1>2, <1>3 DEF Next

LEMMA RequestsNext ==
  ASSUME Typed, AskInv, Next, created \subseteq created'
  PROVE  RequestsTyped'
<1>0. RequestsTyped
  BY DEF Typed
<1>1. CASE UNCHANGED requestVars
  <2>1. doing' = doing /\ seen' = seen
    BY <1>1 DEF requestVars
  <2>2. ASSUME NEW q \in Requests PROVE RequestOK(doing[q], seen[q])'
    BY <1>0, <2>1 DEF RequestsTyped, RequestOK
  <2> QED
    BY <1>0, <2>1, <2>2 DEF RequestsTyped
<1>2. ASSUME NEW q \in Requests, NEW d \in Tasks, NEW s \in SeenRows, Loads(q, d, s)
      PROVE  RequestsTyped'
  <2>1. /\ doing' = [doing EXCEPT ![q] = d] /\ seen' = [seen EXCEPT ![q] = s] /\ RequestOK(d, s)
    BY <1>2 DEF Loads
  <2>2. /\ doing' \in [Requests -> Tasks] /\ seen' \in [Requests -> SeenRows]
        /\ doing'[q] = d /\ seen'[q] = s
        /\ \A p \in Requests \ {q} : doing'[p] = doing[p] /\ seen'[p] = seen[p]
    BY <1>0, <2>1 DEF RequestsTyped, Tasks
  <2>3. ASSUME NEW p \in Requests PROVE RequestOK(doing[p], seen[p])'
    <3>1. RequestOK(doing'[p], seen'[p])
      BY <1>0, <2>1, <2>2 DEF RequestsTyped
    <3> QED
      BY <3>1 DEF RequestOK
  <2> QED
    BY <2>2, <2>3 DEF RequestsTyped, Tasks
<1> QED
  BY <1>1, <1>2, RequestChanges

LEMMA PassNext ==
  ASSUME Typed, PassInv, Next, created \subseteq created'
  PROVE  PassTyped' /\ RemindersTyped'
<1>0. PassTyped /\ RemindersTyped /\ graceDue \in Nat /\ clock \in Nat /\ contacts \subseteq created
      /\ verified \subseteq contacts /\ created \subseteq Contacts
  BY Ticks DEF Typed, AccountTyped, ContactsTyped
<1>1. CASE UNCHANGED <<passVars, reminderVars>>
  BY <1>0, <1>1 DEF PassTyped, RemindersTyped, passVars, reminderVars
<1>2. CASE EndPass /\ sent' = sent /\ leased' \in [Reminders -> Nat]
  BY <1>0, <1>2, NothingTyped DEF EndPass, PassTyped, RemindersTyped, NothingAsked
<1>3. ASSUME NEW q \in Requests, RequestStep(q) PROVE UNCHANGED <<passVars, reminderVars>>
  BY <1>3 DEF RequestStep, Enter, ConfirmRead, ConfirmCommit, Remove, SendCode, OpenCode, OpenLink,
              VerifyLink, VerifyCode, Refuse, rowVars
<1>4. CASE PassStep
  <2>1. CASE StartPass \/ (\E m \in todo : DropReminder(m))
    BY <1>0, <2>1 DEF StartPass, DropReminder, PassTyped, RemindersTyped, rowVars, reminderVars
  <2>2. ASSUME NEW m \in todo, ClaimReminder(m) PROVE PassTyped' /\ RemindersTyped'
    <3>1. m \in Reminders /\ m[1] \in Reviews /\ passAt + Lease \in Nat
      BY <1>0, AskParts, Periods DEF PassTyped
    <3>2. CASE /\ sent' = sent \cup {m} /\ known' = {} /\ todo' = todo \ {m}
               /\ UNCHANGED <<leased, step, seenGrace, asking, passAt>>
      BY <1>0, <3>1, <3>2 DEF PassTyped, RemindersTyped
    <3>3. CASE /\ leased' = [leased EXCEPT ![m] = passAt + Lease] /\ todo' = todo \ {m}
               /\ known' = {m[1]} /\ seenGrace' = IF seenGrace = 0 THEN graceDue ELSE seenGrace
               /\ step' = "claimed" /\ asking' = [reminder |-> m, new |-> {}, open |-> {}]
               /\ UNCHANGED <<sent, passAt>>
      <4>1. leased' \in [Reminders -> Nat] /\ seenGrace' \in Nat /\ asking' \in AskingRows
            /\ asking'.open \cup asking'.new = {}
        BY <1>0, <3>1, <3>3 DEF PassTyped, RemindersTyped, AskingRows
      <4> QED
        BY <1>0, <3>1, <3>3, <4>1 DEF PassTyped, RemindersTyped
    <3> QED
      BY <2>2, <3>2, <3>3 DEF ClaimReminder
  <2>3. CASE AskContacts
    <3> DEFINE r == asking.reminder[1]
               d == asking.reminder[2]
               asked == IF d >= 0 THEN verified ELSE {}
               new == {c \in asked : ~Asked(r, c)}
               open == {c \in asked : <<r, c>> \notin answered /\ lastDay[<<r, c>>] # d}
    <3>1. /\ step' = "asking" /\ asking' = [asking EXCEPT !.new = new, !.open = open]
          /\ UNCHANGED <<passAt, todo, known, seenGrace, sent, leased>>
      BY <2>3 DEF AskContacts, rowVars, reminderVars
    <3>2. new \subseteq created /\ open \subseteq created
      BY <1>0
    <3> HIDE DEF new, open
    <3>3. asking' \in AskingRows /\ asking'.new = new /\ asking'.open = open
      BY <1>0, <3>1, <3>2 DEF PassTyped, AskingRows
    <3> QED
      BY <1>0, <3>1, <3>2, <3>3 DEF PassTyped, RemindersTyped
  <2>4. CASE Commits
    <3>1. step' = "reminders" /\ asking' = NothingAsked /\ UNCHANGED <<passAt, todo, known,
                                                                       seenGrace>>
          /\ asking.reminder \in Reminders /\ sent' \subseteq sent \cup {asking.reminder}
          /\ leased' = [leased EXCEPT ![asking.reminder] = 0]
      BY <2>4 DEF Commits, CommitReminder, PassInv
    <3> QED
      BY <1>0, <3>1, NothingTyped DEF PassTyped, RemindersTyped, NothingAsked
  <2>5. CASE Lifecycle
    <3>1. EndPass /\ sent' = sent
      BY <2>5 DEF Lifecycle
    <3>2. leased' \in [Reminders -> Nat]
      BY <1>0, <2>5 DEF Lifecycle, DeleteRows, RemindersTyped
    <3> QED
      BY <1>2, <3>1, <3>2
  <2>6. CASE FailPass
    BY <1>0, <1>2, <2>6 DEF FailPass, rowVars, reminderVars, RemindersTyped
  <2> QED
    BY <1>4, <2>1, <2>2, <2>3, <2>4, <2>5, <2>6 DEF PassStep, Commits
<1>5. CASE DeleteAccount
  BY <1>0, <1>5 DEF DeleteAccount, DeleteRows, PassTyped, RemindersTyped, passVars
<1>6. CASE DisableAdministratively \/ (\E c \in Contacts : Bounce(c)) \/ Tick
  BY <1>1, <1>6 DEF DisableAdministratively, Bounce, Tick, rowVars
<1> QED
  BY <1>1, <1>3, <1>4, <1>5, <1>6 DEF Next

LEMMA EditsNext ==
  ASSUME Typed, Next
  PROVE  edits' \in 0..MaxEdits
<1>0. edits \in 0..MaxEdits /\ MaxEdits \in Nat
  BY Periods DEF Typed, ClockTyped
<1>1. edits' = edits \/ (edits < MaxEdits /\ edits' = edits + 1)
  <2>1. ASSUME NEW q \in Requests, RequestStep(q)
        PROVE  edits' = edits \/ (edits < MaxEdits /\ edits' = edits + 1)
    BY <2>1 DEF RequestStep, Enter, ConfirmRead, ConfirmCommit, Remove, SendCode, OpenCode,
                OpenLink, VerifyLink, VerifyCode, Refuse
  <2>2. ASSUME PassStep PROVE edits' = edits \/ (edits < MaxEdits /\ edits' = edits + 1)
    BY <2>2 DEF PassStep, StartPass, DropReminder, ClaimReminder, AskContacts, CommitReminder,
                Lifecycle, FailPass
  <2> QED
    BY <2>1, <2>2 DEF Next, DisableAdministratively, DeleteAccount, Bounce, Tick
<1> QED
  BY <1>0, <1>1

LEMMA TypeNext ==
  ASSUME Typed, LifeInv, AskInv, PassInv, Next
  PROVE  Typed'
<1>1. AccountSteps /\ ContactSteps
  BY AccountChanges, ContactChanges
<1>2. created \subseteq created' /\ created' \subseteq Contacts /\ contacts' \subseteq created'
      /\ verified' \subseteq contacts'
  BY <1>1, CreatedGrows
<1>3. AccountTyped' /\ accessAt' \in Nat
  BY <1>1, AccountNext
<1>4. ReviewsTyped'
  BY <1>1, ReviewsNext
<1>5. ContactsTyped'
  BY <1>2, CodesNext DEF ContactsTyped
<1>6. AsksTyped'
  BY <1>1, AsksNext
<1>7. RequestsTyped'
  BY <1>2, RequestsNext
<1>8. PassTyped' /\ RemindersTyped'
  BY <1>2, PassNext
<1>9. ClockTyped'
  BY <1>3, TimesChange, EditsNext DEF ClockTyped
<1> QED
  BY <1>3, <1>4, <1>5, <1>6, <1>7, <1>8, <1>9 DEF Typed

-----------------------------------------------------------------------------
(***************************************************************************)
(* The end of the account, and who is asked.                               *)
(***************************************************************************)

LEMMA Existence ==
  ASSUME Typed, LifeInv, AccountSteps
  PROVE  /\ DeleteRows \/ ((Alive' <=> Alive) /\ \A r \in Reviews : Exists(r) => Exists(r)')
         /\ ~Alive' => \A r \in Reviews : ~Exists(r)'
         /\ \A r \in Reviews : Exists(r)' => graceDue' # 0
<1> DEFINE Result ==
      /\ DeleteRows \/ ((Alive' <=> Alive) /\ \A r \in Reviews : Exists(r) => Exists(r)')
      /\ ~Alive' => \A r \in Reviews : ~Exists(r)'
      /\ \A r \in Reviews : Exists(r)' => graceDue' # 0
<1>1. ASSUME UNCHANGED <<due, graceDue>>, Alive' <=> Alive PROVE Result
  <2>1. \A r \in Reviews : Exists(r)' <=> Exists(r)
    BY <1>1 DEF Exists
  <2> QED
    BY <1>1, <2>1 DEF LifeInv
<1>2. ASSUME NEW now \in Nat, CreateReview(now), Alive, Alive' PROVE Result
  <2>1. PICK f \in Reviews : /\ ~Exists(f) /\ due'[f] # 0
                             /\ \A r \in Reviews \ {f} : due'[r] = due[r]
    BY <1>2, NewReview
  <2>2. graceDue' # 0
    BY <1>2, NewReview
  <2> QED
    BY <1>2, <2>1, <2>2 DEF Exists
<1>3. CASE AccountKept
  BY <1>1, <1>3 DEF AccountKept, accountVars, Alive
<1>4. ASSUME NEW r \in Reviews, NEW now \in Nat, Finishes(r, now) PROVE Result
  <2>1. Alive
    BY <1>4 DEF Finishes, LifeInv
  <2>2. Alive'
    BY <1>4, <2>1 DEF Finishes, Alive
  <2> QED
    BY <1>2, <1>4, <2>1, <2>2 DEF Finishes
<1>5. CASE Activates
  BY <1>2, <1>5, Ticks DEF Activates, Alive
<1>6. CASE Moves
  BY <1>1, <1>6, Staged DEF Alive
<1>7. CASE Locks
  BY <1>1, <1>7, Locking DEF Alive
<1>8. CASE Deletes
  <2>1. DeleteRows /\ \A r \in Reviews : ~Exists(r)'
    BY <1>8 DEF Deletes, DeleteRows, Exists
  <2> QED
    BY <2>1
<1> QED
  BY <1>3, <1>4, <1>5, <1>6, <1>7, <1>8 DEF AccountSteps

\* Who is told of a review that step is a contact of the account, and asked.
LEMMA TellsAsked ==
  ASSUME Typed, LifeInv, AskInv, PassInv, ContactSteps,
         NEW r \in Reviews, NEW c \in Contacts, Told(r, c)', ~Told(r, c)
  PROVE  c \in created /\ Exists(r) /\ Asked(r, c)' /\ ~Empties /\ Alive
<1>0. <<r, c>> \in Asks /\ ContactsTyped
  BY AskParts DEF Typed
<1>1. CASE Keeps
  BY <1>1 DEF Keeps, AskFacts, Told
<1>2. CASE \E gone \in SUBSET Contacts : Drops(gone)
  BY <1>2 DEF Drops, Told
<1>3. CASE \E d \in Contacts : Adds(d) \/ Confirms(d)
  BY <1>3 DEF Adds, Confirms, AskFacts, Told
<1>4. ASSUME NEW s \in Reviews, NEW d \in Contacts, Answers(s, d)
      PROVE  c \in created /\ Exists(r) /\ Asked(r, c)' /\ ~Empties /\ Alive
  <2>1. s = r /\ d = c /\ Asked(r, c)
    BY <1>4, AnswerEffects DEF Told, Answers
  <2>2. c \in contacts /\ Exists(r)
    BY <2>1 DEF AskInv
  <2>3. Asked(r, c)' /\ contacts' = contacts
    BY <1>4, <2>1 DEF Answers, Asked
  <2> QED
    BY <1>0, <2>2, <2>3 DEF Empties, ContactsTyped, LifeInv
<1>5. CASE Commits
  <2>1. r = asking.reminder[1] /\ c \in asking.open /\ Alive /\ step = "asking"
        /\ Exists(r) /\ c \in contacts /\ contacts' = contacts
    BY <1>0, <1>5, CommitEffects DEF Told
  <2>2. c \in asking.new \/ Asked(r, c)
    BY <2>1 DEF PassInv
  <2>3. askedUntil'[<<r, c>>] # 0
    BY <1>0, <1>5, <2>1, <2>2, CommitEffects DEF Asked, PassInv
  <2> QED
    BY <1>0, <2>1, <2>3 DEF Asked, Empties, ContactsTyped
<1>6. CASE Loses \/ Empties
  BY <1>6 DEF Loses, Empties, Told
<1> QED
  BY <1>1, <1>2, <1>3, <1>4, <1>5, <1>6 DEF ContactSteps

LEMMA LifeNext ==
  ASSUME Typed, LifeInv, AskInv, PassInv, Next
  PROVE  LifeInv'
<1>0. AccountSteps /\ ContactSteps
  BY AccountChanges, ContactChanges
<1>1. ~Alive' => contacts' = {}
  <2>1. CASE DeleteRows
    BY <2>1 DEF DeleteRows
  <2>2. CASE ~DeleteRows /\ ~Alive
    <3>1. contacts = {}
      BY <2>2 DEF LifeInv
    <3>2. ASSUME NEW r \in Reviews, NEW c \in Contacts, Answers(r, c) PROVE contacts' = contacts
      BY <3>2 DEF Answers
    <3>3. ~Commits
      BY <2>2, CommitEffects
    <3>4. ASSUME NEW gone, Drops(gone) PROVE contacts' \subseteq contacts
      BY <3>4 DEF Drops
    <3> QED
      BY <1>0, <2>2, <3>1, <3>2, <3>3, <3>4
      DEF ContactSteps, Keeps, Adds, Confirms, Loses, Empties
  <2> QED
    BY <1>0, <2>1, <2>2, Existence
<1>2. ASSUME NEW r \in Reviews, Named(r)', Alive' PROVE Exists(r)'
  <2>1. Named(r) \/ Exists(r)
    <3>1. CASE r \in details'
      BY <3>1, DetailsChange DEF Named
    <3>2. ASSUME NEW c \in Contacts, Told(r, c)' PROVE Named(r) \/ Exists(r)
      BY <1>0, <3>2, TellsAsked DEF Named
    <3> QED
      BY <1>2, <3>1, <3>2 DEF Named
  <2>2. ~DeleteRows
    BY <1>2 DEF DeleteRows, Alive
  <2> QED
    BY <1>0, <1>2, <2>1, <2>2, Existence DEF LifeInv
<1>3. (~Alive' => \A r \in Reviews : ~Exists(r)') /\ \A r \in Reviews : Exists(r)' => graceDue' # 0
  BY <1>0, Existence
<1> QED
  BY <1>1, <1>2, <1>3 DEF LifeInv

LinksAsk == \A l \in links : l[3] \in 1..issued[<<l[1], l[2]>>] /\ Asked(l[1], l[2])

LEMMA LinksNext ==
  ASSUME Typed, LifeInv, AskInv, PassInv, ContactSteps
  PROVE  LinksAsk'
<1>0. /\ \A l \in LinkRows : <<l[1], l[2]>> \in Asks
      /\ issued \in [Asks -> Nat] /\ links \subseteq LinkRows /\ LinksAsk
  BY LinkParts DEF Typed, AsksTyped, AskInv, LinksAsk
<1>1. ASSUME links' \subseteq links, issued' = issued,
             \A l \in links' : askedUntil'[<<l[1], l[2]>>] = askedUntil[<<l[1], l[2]>>]
      PROVE  LinksAsk'
  BY <1>0, <1>1 DEF LinksAsk, Asked
<1>2. CASE Keeps
  BY <1>1, <1>2 DEF Keeps, AskFacts
<1>3. ASSUME NEW gone \in SUBSET Contacts, Drops(gone) PROVE LinksAsk'
  <2>1. /\ links' \subseteq links /\ issued' = issued /\ \A l \in links' : l[2] \notin gone
        /\ \A a \in Asks : askedUntil'[a] = IF a[2] \in gone THEN 0 ELSE askedUntil[a]
    BY <1>3, DropEffects
  <2>2. ASSUME NEW l \in links' PROVE askedUntil'[<<l[1], l[2]>>] = askedUntil[<<l[1], l[2]>>]
    BY <1>0, <2>1
  <2> QED
    BY <1>1, <2>1, <2>2
<1>4. CASE \E c \in Contacts : Adds(c) \/ Confirms(c)
  BY <1>1, <1>4 DEF Adds, Confirms, AskFacts
<1>5. ASSUME NEW r \in Reviews, NEW c \in Contacts, Answers(r, c) PROVE LinksAsk'
  BY <1>1, <1>5, AnswerEffects
<1>6. CASE Commits
  <2> DEFINE m == asking.reminder
  <2>1. /\ Alive /\ step = "asking" /\ asking.open \subseteq contacts
        /\ \A a \in Asks : issued[a] <= issued'[a] /\ issued'[a] \in Nat
        /\ \A a \in Asks : askedUntil'[a] = IF a[1] = m[1] /\ a[2] \in asking.new
                                            THEN seenGrace ELSE askedUntil[a]
        /\ \A l \in links' : \/ l \in links
                             \/ /\ l[1] = m[1] /\ l[2] \in asking.open
                                /\ l[3] = issued[<<l[1], l[2]>>] + 1
                                /\ issued'[<<l[1], l[2]>>] = l[3]
        /\ links' \subseteq LinkRows
    BY <1>6, CommitEffects
  <2>2. seenGrace # 0 /\ \A c \in asking.open : c \in asking.new \/ Asked(m[1], c)
    BY <2>1 DEF PassInv
  <2> HIDE DEF m
  <2>3. ASSUME NEW l \in links'
        PROVE  /\ l[3] \in 1..issued'[<<l[1], l[2]>>]
               /\ askedUntil'[<<l[1], l[2]>>] # 0
    <3>1. <<l[1], l[2]>> \in Asks /\ l[3] \in Nat /\ <<l[1], l[2]>>[1] = l[1]
          /\ <<l[1], l[2]>>[2] = l[2]
      BY <2>1, LinkParts
    <3>2. CASE l \in links
      <4>1. l[3] \in 1..issued[<<l[1], l[2]>>] /\ askedUntil[<<l[1], l[2]>>] # 0
        BY <1>0, <3>2 DEF LinksAsk, Asked
      <4>2. issued[<<l[1], l[2]>>] <= issued'[<<l[1], l[2]>>] /\ issued'[<<l[1], l[2]>>] \in Nat
            /\ issued[<<l[1], l[2]>>] \in Nat
        BY <1>0, <2>1, <3>1
      <4>3. askedUntil'[<<l[1], l[2]>>] # 0
        BY <2>1, <2>2, <3>1, <4>1
      <4> QED
        BY <4>1, <4>2, <4>3
    <3>3. CASE l \notin links
      <4>1. /\ l[1] = m[1] /\ l[2] \in asking.open /\ l[3] = issued[<<l[1], l[2]>>] + 1
            /\ issued'[<<l[1], l[2]>>] = l[3]
        BY <2>1, <3>3
      <4>2. issued[<<l[1], l[2]>>] \in Nat
        BY <1>0, <3>1
      <4>3. l[2] \in asking.new \/ askedUntil[<<l[1], l[2]>>] # 0
        BY <2>2, <4>1 DEF Asked
      <4>4. askedUntil'[<<l[1], l[2]>>] # 0
        BY <2>1, <2>2, <3>1, <4>1, <4>3
      <4> QED
        BY <3>1, <4>1, <4>2, <4>4
    <3> QED
      BY <3>2, <3>3
  <2> QED
    BY <2>3 DEF LinksAsk, Asked
<1>7. CASE Loses
  BY <1>1, <1>7 DEF Loses
<1>8. CASE Empties
  BY <1>8 DEF Empties, LinksAsk
<1> QED
  BY <1>2, <1>3, <1>4, <1>5, <1>6, <1>7, <1>8 DEF ContactSteps

\* Who is asked was asked before, or is asked by the commit; and it is asked on while it exists.
LEMMA AskedChanges ==
  ASSUME Typed, LifeInv, AskInv, PassInv, ContactSteps, NEW r \in Reviews, NEW c \in Contacts
  PROVE  /\ Asked(r, c)' => c \in contacts /\ c \in contacts' /\ Exists(r)
         /\ Asked(r, c) /\ c \in contacts' => Asked(r, c)'
         /\ c \in contacts' => c \in contacts \/ c \notin created
<1>0. <<r, c>> \in Asks /\ <<r, c>>[1] = r /\ <<r, c>>[2] = c /\ askedUntil \in [Asks -> Nat]
      /\ (Asked(r, c) => c \in contacts /\ Exists(r))
  BY AskParts DEF Typed, AsksTyped, AskInv
<1>1. ASSUME UNCHANGED <<askedUntil, contacts>>
      PROVE  /\ Asked(r, c)' => c \in contacts /\ c \in contacts' /\ Exists(r)
             /\ Asked(r, c) /\ c \in contacts' => Asked(r, c)'
             /\ c \in contacts' => c \in contacts
  BY <1>0, <1>1 DEF Asked
<1>2. CASE Keeps
  BY <1>1, <1>2 DEF Keeps, AskFacts
<1>3. ASSUME NEW gone \in SUBSET Contacts, Drops(gone)
      PROVE  /\ Asked(r, c)' => c \in contacts /\ c \in contacts' /\ Exists(r)
             /\ Asked(r, c) /\ c \in contacts' => Asked(r, c)'
             /\ c \in contacts' => c \in contacts
  <2>1. contacts' = contacts \ gone
        /\ askedUntil'[<<r, c>>] = IF c \in gone THEN 0 ELSE askedUntil[<<r, c>>]
    BY <1>0, <1>3, DropEffects
  <2> QED
    BY <1>0, <2>1 DEF Asked
<1>4. ASSUME NEW d \in Contacts, Adds(d)
      PROVE  /\ Asked(r, c)' => c \in contacts /\ c \in contacts' /\ Exists(r)
             /\ Asked(r, c) /\ c \in contacts' => Asked(r, c)'
             /\ c \in contacts' => c \in contacts \/ c \notin created
  BY <1>0, <1>4 DEF Adds, AskFacts, Asked
<1>5. CASE \E d \in Contacts : Confirms(d)
  BY <1>1, <1>5 DEF Confirms, AskFacts
<1>6. ASSUME NEW s \in Reviews, NEW d \in Contacts, Answers(s, d)
      PROVE  UNCHANGED <<askedUntil, contacts>>
  BY <1>6 DEF Answers
<1>7. CASE Commits
  <2>1. /\ step = "asking" /\ asking.open \subseteq contacts /\ Alive
        /\ Exists(asking.reminder[1]) /\ contacts' = contacts
        /\ askedUntil'[<<r, c>>] = IF r = asking.reminder[1] /\ c \in asking.new
                                   THEN seenGrace ELSE askedUntil[<<r, c>>]
    BY <1>0, <1>7, CommitEffects
  <2>2. asking.new \subseteq asking.open /\ seenGrace # 0
    BY <2>1 DEF PassInv
  <2> QED
    BY <1>0, <2>1, <2>2 DEF Asked
<1>8. CASE Loses
  BY <1>1, <1>8 DEF Loses
<1>9. CASE Empties
  BY <1>0, <1>9 DEF Empties, Asked
<1> QED
  BY <1>1, <1>2, <1>3, <1>4, <1>5, <1>6, <1>7, <1>8, <1>9 DEF ContactSteps

LEMMA AskNext ==
  ASSUME Typed, LifeInv, AskInv, PassInv, Next
  PROVE  AskInv'
<1>0. AccountSteps /\ ContactSteps
  BY AccountChanges, ContactChanges
<1>1. LinksAsk'
  BY <1>0, LinksNext
<1>2. ASSUME NEW r \in Reviews, NEW c \in Contacts, Asked(r, c)'
      PROVE  c \in contacts' /\ Exists(r)'
  <2>1. c \in contacts' /\ Exists(r)
    BY <1>0, <1>2, AskedChanges
  <2>2. ~DeleteRows
    BY <2>1 DEF DeleteRows
  <2> QED
    BY <1>0, <2>1, <2>2, Existence
<1>3. ASSUME NEW r \in Reviews, NEW c \in Contacts, Told(r, c)'
      PROVE  c \in created' /\ (c \in contacts' => Asked(r, c)')
  <2>1. CASE Told(r, c)
    <3>1. c \in created /\ (c \in contacts => Asked(r, c))
      BY <2>1 DEF AskInv
    <3>2. c \in created'
      BY <1>0, <3>1, CreatedGrows
    <3>3. ASSUME c \in contacts' PROVE Asked(r, c)'
      BY <1>0, <3>1, <3>3, AskedChanges
    <3> QED
      BY <3>2, <3>3
  <2>2. CASE ~Told(r, c)
    BY <1>0, <1>3, <2>2, TellsAsked, CreatedGrows
  <2> QED
    BY <2>1, <2>2
<1> QED
  BY <1>1, <1>2, <1>3 DEF AskInv, LinksAsk

LEMMA PassNextInv ==
  ASSUME Typed, LifeInv, AskInv, PassInv, Next
  PROVE  PassInv'
<1>0. AccountSteps /\ ContactSteps
  BY AccountChanges, ContactChanges
<1>1. step' \in {"claimed", "asking"} =>
        \/ UNCHANGED <<step, asking, seenGrace>>
        \/ \E m \in todo : ClaimReminder(m)
        \/ AskContacts
  <2>1. ASSUME NEW q \in Requests, RequestStep(q) PROVE UNCHANGED <<step, asking, seenGrace>>
    BY <2>1 DEF RequestStep, Enter, ConfirmRead, ConfirmCommit, Remove, SendCode, OpenCode,
                OpenLink, VerifyLink, VerifyCode, Refuse, passVars
  <2>2. ASSUME PassStep
        PROVE  step' \in {"claimed", "asking"} =>
                 \/ UNCHANGED <<step, asking, seenGrace>>
                 \/ \E m \in todo : ClaimReminder(m)
                 \/ AskContacts
    BY <2>2 DEF PassStep, StartPass, DropReminder, CommitReminder, Lifecycle, FailPass, EndPass
  <2>3. ASSUME DisableAdministratively \/ DeleteAccount \/ (\E c \in Contacts : Bounce(c)) \/ Tick
        PROVE  UNCHANGED <<step, asking, seenGrace>>
    BY <2>3 DEF DisableAdministratively, DeleteAccount, Bounce, Tick, passVars
  <2> QED
    BY <2>1, <2>2, <2>3 DEF Next
<1>2. ASSUME UNCHANGED <<step, asking, seenGrace>>, step' \in {"claimed", "asking"} PROVE PassInv'
  <2> DEFINE r == asking.reminder[1]
  <2>1. asking.reminder \in Reminders /\ seenGrace # 0 /\ r \in Reviews /\ asking.open \subseteq created
        /\ asking.open \subseteq Contacts
    BY <1>2, AskParts DEF PassInv, Typed, PassTyped, AskingRows
  <2>2. Alive' => Alive /\ Exists(r)'
    <3>1. Alive' => ~DeleteRows
      BY DEF DeleteRows, Alive
    <3> QED
      BY <1>0, <1>2, <2>1, <3>1, Existence DEF PassInv
  <2>3. ASSUME step = "asking", Alive', NEW c \in asking.open
        PROVE  c \in asking.new \/ Asked(r, c)' \/ c \notin contacts'
    <3>1. c \in asking.new \/ Asked(r, c) \/ c \notin contacts
      BY <2>2, <2>3 DEF PassInv
    <3>2. \A x \in Reviews : Asked(x, c) /\ c \in contacts' => askedUntil'[<<x, c>>] # 0
      <4>1. c \in Contacts
        BY <2>1, <2>3
      <4> QED
        BY <1>0, <4>1, AskedChanges DEF Asked
    <3>3. c \in contacts' => c \in contacts \/ c \notin created
      <4>1. c \in Contacts
        BY <2>1, <2>3
      <4> QED
        BY <1>0, <2>1, <4>1, AskedChanges
    <3>4. c \in asking.new \/ c \notin contacts' \/ askedUntil'[<<r, c>>] # 0
      BY <2>1, <2>3, <3>1, <3>2, <3>3
    <3> QED
      BY <1>2, <3>4 DEF Asked
  <2>4. step = "asking" /\ Alive' => asking.new \subseteq asking.open
    BY <2>2 DEF PassInv
  <2>5. step' = step /\ asking' = asking /\ seenGrace' = seenGrace
    BY <1>2
  <2>6. Exists(asking.reminder[1])' <=> Exists(r)'
    BY <2>5
  <2>7. \A c : Asked(asking.reminder[1], c)' <=> Asked(r, c)'
    BY <2>5
  <2> HIDE DEF r
  <2> QED
    BY <2>1, <2>2, <2>3, <2>4, <2>5, <2>6, <2>7 DEF PassInv, Exists, Asked, r
<1>3. ASSUME NEW m \in todo, ClaimReminder(m), step' \in {"claimed", "asking"} PROVE PassInv'
  <2>1. m \in Reminders /\ m[1] \in Reviews /\ step = "reminders" /\ Exists(m[1])
    BY <1>3, AskParts DEF Typed, PassTyped, ClaimReminder, DueReminder
  <2>2. /\ step' = "claimed" /\ asking' = [reminder |-> m, new |-> {}, open |-> {}]
        /\ seenGrace' = IF seenGrace = 0 THEN graceDue ELSE seenGrace
        /\ due' = due
    BY <1>3, <2>1 DEF ClaimReminder, reviewVars
  <2>3. seenGrace' # 0
    BY <2>1, <2>2 DEF LifeInv
  <2> QED
    BY <2>1, <2>2, <2>3 DEF PassInv, Exists
<1>4. CASE AskContacts
  <2> DEFINE r == asking.reminder[1]
             d == asking.reminder[2]
             asked == IF d >= 0 THEN verified ELSE {}
             new == {c \in asked : ~Asked(r, c)}
             open == {c \in asked : <<r, c>> \notin answered /\ lastDay[<<r, c>>] # d}
  <2>1. /\ step = "claimed" /\ step' = "asking"
        /\ asking' = [asking EXCEPT !.new = new, !.open = open]
        /\ UNCHANGED <<seenGrace, status, due, contacts, askedUntil>>
    BY <1>4 DEF AskContacts, rowVars, accountVars, reviewVars, contactVars, askVars
  <2>2. /\ asking.reminder \in Reminders /\ seenGrace # 0 /\ r \in Reviews /\ d \in Days
        /\ (Alive => Exists(r))
    BY <2>1, AskParts DEF PassInv
  <2>3. asked \subseteq contacts /\ asked \subseteq Contacts
    BY DEF Typed, ContactsTyped
  <2>4. ASSUME NEW c \in new PROVE c \in open
    <3>1. c \in contacts /\ c \in Contacts /\ ~Asked(r, c) /\ c \in asked
      BY <2>3
    <3>2. ~Told(r, c)
      BY <2>2, <3>1 DEF AskInv
    <3> QED
      BY <2>2, <3>1, <3>2, Periods DEF Told
  <2>5. \A c \in open : c \in new \/ Asked(r, c)
    OBVIOUS
  <2> HIDE DEF new, open
  <2>6. asking'.new = new /\ asking'.open = open /\ asking'.reminder = asking.reminder
    BY <2>1 DEF Typed, PassTyped, AskingRows
  <2> HIDE DEF d, asked
  <2> QED
    BY <2>1, <2>2, <2>4, <2>5, <2>6 DEF PassInv, Exists, Asked, Alive
<1>5. CASE step' \notin {"claimed", "asking"}
  BY <1>5 DEF PassInv
<1> QED
  BY <1>1, <1>2, <1>3, <1>4, <1>5

\* A link that is not usable because it was used is never usable again.
LEMMA LinkHistory ==
  ASSUME Typed, LifeInv, AskInv, PassInv, ContactSteps, NEW l \in LinkRows,
         l[3] <= issued[<<l[1], l[2]>>], l \in links => <<l[1], l[2]>> \notin answered
  PROVE  /\ l[3] <= issued'[<<l[1], l[2]>>]
         /\ l \in links' => <<l[1], l[2]>> \notin answered'
<1> DEFINE a == <<l[1], l[2]>>
<1>0. a \in Asks /\ l[3] \in Nat /\ issued \in [Asks -> Nat]
  BY LinkParts DEF Typed, AsksTyped
<1>1. CASE Keeps \/ (\E c \in Contacts : Adds(c) \/ Confirms(c)) \/ Loses \/ Empties
  BY <1>1 DEF Keeps, Adds, Confirms, AskFacts, Loses, Empties
<1>2. ASSUME NEW gone \in SUBSET Contacts, Drops(gone)
      PROVE  issued' = issued /\ links' \subseteq links /\ answered' = answered
  BY <1>2, DropEffects
<1>3. ASSUME NEW r \in Reviews, NEW c \in Contacts, Answers(r, c)
      PROVE  l[3] <= issued'[a] /\ (l \in links' => a \notin answered')
  <2>1. /\ issued' = issued /\ answered' = answered \cup {<<r, c>>} /\ links' \subseteq links
        /\ \A k \in links' : <<k[1], k[2]>> # <<r, c>>
    BY <1>3, AnswerEffects
  <2>2. ASSUME l \in links' PROVE a \notin answered'
    <3>1. a # <<r, c>>
      BY <2>1, <2>2
    <3>2. a \notin answered
      BY <2>1, <2>2
    <3> QED
      BY <2>1, <3>1, <3>2
  <2> QED
    BY <2>1, <2>2
<1>4. CASE Commits
  <2>1. /\ answered' = answered /\ issued[a] <= issued'[a] /\ issued' \in [Asks -> Nat]
        /\ l \in links' => l \in links \/ l[3] = issued[a] + 1
    BY <1>0, <1>4, CommitEffects
  <2> QED
    BY <1>0, <2>1
<1> QED
  BY <1>1, <1>2, <1>3, <1>4 DEF ContactSteps

ConfirmedAnswers == \A a \in Asks : confirmations[a] <= 1 /\ (confirmations[a] # 0 => a \in answered)

LEMMA AnswersNext ==
  ASSUME Typed, LifeInv, AskInv, PassInv, ConfirmInv, ContactSteps
  PROVE  ConfirmedAnswers'
<1>0. ConfirmedAnswers /\ confirmations \in [Asks -> Nat]
  BY DEF ConfirmInv, ConfirmedOnce, ConfirmedAnswers, Typed, AsksTyped
<1>1. CASE Keeps \/ (\E c \in Contacts : Adds(c) \/ Confirms(c)) \/ Loses \/ Empties
  BY <1>0, <1>1 DEF Keeps, Adds, Confirms, AskFacts, Loses, Empties, ConfirmedAnswers
<1>2. ASSUME NEW gone \in SUBSET Contacts, Drops(gone) PROVE ConfirmedAnswers'
  BY <1>0, <1>2 DEF Drops, ConfirmedAnswers
<1>3. ASSUME NEW r \in Reviews, NEW c \in Contacts, Answers(r, c) PROVE ConfirmedAnswers'
  <2>1. <<r, c>> \in Asks /\ answered' = answered \cup {<<r, c>>}
    BY <1>3, AnswerEffects
  <2>2. CASE confirmations' = confirmations
    BY <1>0, <2>1, <2>2 DEF ConfirmedAnswers
  <2>3. ASSUME NEW q \in Requests, doing[q] = "link", seen[q].review = r, seen[q].contact = c,
               <<r, c, seen[q].link>> \in links,
               confirmations' = [confirmations EXCEPT ![<<r, c>>] = @ + 1]
        PROVE  ConfirmedAnswers'
    <3>1. <<r, c>> \notin answered
      BY <2>3 DEF ConfirmInv
    <3>2. confirmations[<<r, c>>] = 0
      BY <1>0, <2>1, <3>1 DEF ConfirmedAnswers
    <3> QED
      BY <1>0, <2>1, <2>3, <3>2 DEF ConfirmedAnswers
  <2> QED
    BY <1>3, <2>2, <2>3 DEF Answers
<1>4. CASE Commits
  BY <1>0, <1>4, CommitEffects DEF ConfirmedAnswers
<1> QED
  BY <1>1, <1>2, <1>3, <1>4 DEF ContactSteps

LEMMA ConfirmNext ==
  ASSUME Typed, LifeInv, AskInv, PassInv, ConfirmInv, Next
  PROVE  ConfirmInv'
<1> DEFINE
      Fits(s) == /\ s.link <= issued[<<s.review, s.contact>>]
                 /\ <<s.review, s.contact, s.link>> \in links => <<s.review, s.contact>> \notin answered
<1>0. ContactSteps
  BY ContactChanges
<1>1. ASSUME NEW s \in SeenRows, s.review \in Reviews, s.contact \in Contacts, Fits(s)
      PROVE  /\ s.link <= issued'[<<s.review, s.contact>>]
             /\ <<s.review, s.contact, s.link>> \in links' => <<s.review, s.contact>> \notin answered'
  <2> DEFINE l == <<s.review, s.contact, s.link>>
  <2>1. l \in LinkRows /\ l[1] = s.review /\ l[2] = s.contact /\ l[3] = s.link
    BY <1>1 DEF LinkRows, SeenRows
  <2> HIDE DEF l
  <2>2. l[3] <= issued[<<l[1], l[2]>>] /\ (l \in links => <<l[1], l[2]>> \notin answered)
    BY <1>1, <2>1 DEF l
  <2>3. l[3] <= issued'[<<l[1], l[2]>>] /\ (l \in links' => <<l[1], l[2]>> \notin answered')
    BY <1>0, <2>1, <2>2, LinkHistory
  <2> QED
    BY <2>1, <2>3 DEF l
<1>2. /\ doing \in [Requests -> Tasks] /\ seen \in [Requests -> SeenRows]
      /\ \A q \in Requests : RequestOK(doing[q], seen[q])
      /\ created \subseteq Contacts
      /\ \A q \in Requests : doing[q] = "link" => Fits(seen[q])
  BY DEF Typed, RequestsTyped, Tasks, ContactsTyped, ConfirmInv
<1> HIDE DEF Fits
<1>3. ASSUME NEW q \in Requests, doing'[q] = "link", doing'[q] = doing[q], seen'[q] = seen[q]
      PROVE  /\ seen'[q].link <= issued'[<<seen'[q].review, seen'[q].contact>>]
             /\ <<seen'[q].review, seen'[q].contact, seen'[q].link>> \in links' =>
                  <<seen'[q].review, seen'[q].contact>> \notin answered'
  <2>1. seen[q].review \in Reviews /\ seen[q].contact \in Contacts /\ seen[q] \in SeenRows
        /\ Fits(seen[q])
    BY <1>2, <1>3 DEF RequestOK
  <2> QED
    BY <1>1, <1>3, <2>1
<1>4. ASSUME NEW q \in Requests, doing'[q] = "link"
      PROVE  /\ seen'[q].link <= issued'[<<seen'[q].review, seen'[q].contact>>]
             /\ <<seen'[q].review, seen'[q].contact, seen'[q].link>> \in links' =>
                  <<seen'[q].review, seen'[q].contact>> \notin answered'
  <2>1. CASE UNCHANGED requestVars
    BY <1>3, <1>4, <2>1 DEF requestVars
  <2>2. ASSUME NEW p \in Requests, NEW d \in Tasks, NEW s \in SeenRows, Loads(p, d, s)
        PROVE  /\ seen'[q].link <= issued'[<<seen'[q].review, seen'[q].contact>>]
               /\ <<seen'[q].review, seen'[q].contact, seen'[q].link>> \in links' =>
                    <<seen'[q].review, seen'[q].contact>> \notin answered'
    <3>1. CASE p # q
      <4>1. doing'[q] = doing[q] /\ seen'[q] = seen[q]
        BY <1>2, <2>2, <3>1 DEF Loads
      <4> QED
        BY <1>3, <1>4, <4>1
    <3>2. CASE p = q
      <4>1. doing'[q] = d /\ seen'[q] = s
        BY <1>2, <2>2, <3>2 DEF Loads
      <4>2. /\ <<s.review, s.contact, s.link>> \in links /\ <<s.review, s.contact>> \notin answered
            /\ UNCHANGED <<links, answered, issued, confirmations>>
            /\ s.review \in Reviews /\ s.link \in Nat
        BY <1>4, <2>2, <4>1 DEF Loads, RequestOK, SeenRows
      <4>3. s.link <= issued[<<s.review, s.contact>>]
        <5> DEFINE l == <<s.review, s.contact, s.link>>
        <5>1. l \in links /\ l[1] = s.review /\ l[2] = s.contact /\ l[3] = s.link
          BY <4>2
        <5> HIDE DEF l
        <5>2. l[3] \in 1..issued[<<l[1], l[2]>>] /\ issued[<<l[1], l[2]>>] \in Nat
          BY <5>1, LinkParts DEF AskInv, Typed, AsksTyped
        <5> QED
          BY <5>1, <5>2
      <4> QED
        BY <4>1, <4>2, <4>3
    <3> QED
      BY <3>1, <3>2
  <2> QED
    BY <2>1, <2>2, RequestChanges
<1>5. ConfirmedAnswers'
  BY <1>0, AnswersNext
<1> QED
  BY <1>4, <1>5 DEF ConfirmInv, ConfirmedOnce, ConfirmedAnswers

-----------------------------------------------------------------------------
(***************************************************************************)
(* The invariant, and what follows from it.                                *)
(***************************************************************************)

LEMMA ReviewInit == Init => ReviewInv
<1> SUFFICES ASSUME Init PROVE ReviewInv
  OBVIOUS
<1>1. Typed
  BY TypeInit
<1>2. LifeInv
  BY AskParts DEF Init, LifeInv, Alive, Named, Told, Exists
<1>3. AskInv
  BY AskParts DEF Init, AskInv, Told, Asked
<1>4. PassInv /\ NextInv /\ RetentionInv
  BY DEF Init, PassInv, NextInv, RetentionInv
<1>5. ConfirmInv
  BY DEF Init, ConfirmInv, ConfirmedOnce
<1> QED
  BY <1>1, <1>2, <1>3, <1>4, <1>5 DEF ReviewInv

LEMMA ReviewStep == ReviewInv /\ [Next]_vars => ReviewInv'
<1> SUFFICES ASSUME ReviewInv, [Next]_vars PROVE ReviewInv'
  OBVIOUS
<1>0. Typed /\ LifeInv /\ AskInv /\ PassInv /\ ConfirmInv /\ NextInv /\ RetentionInv
  BY DEF ReviewInv
<1>1. CASE Next
  <2>1. AccountSteps
    BY <1>0, <1>1, AccountChanges
  <2>2. Typed'
    BY <1>0, <1>1, TypeNext
  <2>3. LifeInv' /\ AskInv' /\ PassInv'
    BY <1>0, <1>1, LifeNext, AskNext, PassNextInv
  <2>4. ConfirmInv'
    BY <1>0, <1>1, ConfirmNext
  <2>5. NextInv' /\ RetentionInv'
    BY <1>0, <1>1, <2>1, NextKept, RetentionNext
  <2> QED
    BY <2>2, <2>3, <2>4, <2>5 DEF ReviewInv
<1>2. CASE UNCHANGED vars
  <2>0. UNCHANGED <<clock, status, locked, disabledAt, deletionDue, nextDue, graceDue, due, details,
                    done, created, contacts, verified, codeUntil, askedUntil, lastDay, answered,
                    issued, links, sent, leased, doing, seen, step, passAt, todo, known, seenGrace,
                    asking, accessAt, confirmations, edits>>
    BY <1>2 DEF vars, rowVars, accountVars, reviewVars, contactVars, askVars, reminderVars,
                requestVars, passVars, historyVars
  <2>1. AccountTyped' /\ ReviewsTyped' /\ ContactsTyped' /\ AsksTyped' /\ RemindersTyped'
    BY <1>0, <2>0 DEF Typed, AccountTyped, ReviewsTyped, ContactsTyped, AsksTyped, RemindersTyped
  <2>2. RequestsTyped' /\ PassTyped' /\ ClockTyped'
    BY <1>0, <2>0 DEF Typed, RequestsTyped, RequestOK, PassTyped, ClockTyped
  <2>3. LifeInv'
    BY <1>0, <2>0 DEF LifeInv, Alive, Named, Told, Exists
  <2>4. AskInv' /\ PassInv'
    BY <1>0, <2>0 DEF AskInv, PassInv, Alive, Told, Exists, Asked
  <2>5. ConfirmInv'
    BY <1>0, <2>0 DEF ConfirmInv, ConfirmedOnce
  <2>6. NextInv' /\ RetentionInv'
    BY <1>0, <2>0 DEF NextInv, RetentionInv, Open, Exists
  <2> QED
    BY <2>1, <2>2, <2>3, <2>4, <2>5, <2>6 DEF ReviewInv, Typed
<1> QED
  BY <1>1, <1>2

\* Every behaviour of the review keeps the invariant.
THEOREM ReviewInvariant == Spec => []ReviewInv
BY ReviewInit, ReviewStep, PTL DEF Spec

\* Every row, session and date keeps its type, and every link asks a contact that exists
\* for a review that exists.
THEOREM ReviewTypes == Spec => []TypeOK
<1>1. ReviewInv => TypeOK
  <2> SUFFICES ASSUME ReviewInv PROVE TypeOK
    OBVIOUS
  <2>0. Typed /\ AskInv
    BY DEF ReviewInv
  <2>1. clock \in 1..MaxClock /\ edits \in 0..MaxEdits /\ status \in Stages /\ locked \in BOOLEAN
    BY <2>0 DEF Typed, ClockTyped, AccountTyped
  <2>2. {disabledAt, deletionDue, nextDue, graceDue, passAt, seenGrace, accessAt} \subseteq Nat
    BY <2>0 DEF Typed, ClockTyped, AccountTyped, PassTyped
  <2>3. /\ due \in [Reviews -> Nat] /\ details \subseteq Reviews /\ done \subseteq details
        /\ verified \subseteq contacts /\ contacts \subseteq created /\ created \subseteq Contacts
        /\ codeUntil \in [Contacts -> Nat]
    BY <2>0 DEF Typed, ReviewsTyped, ContactsTyped
  <2>4. /\ askedUntil \in [Asks -> Nat] /\ lastDay \in [Asks -> Days \cup {NoContact}]
        /\ issued \in [Asks -> Nat] /\ answered \subseteq Asks /\ confirmations \in [Asks -> Nat]
        /\ sent \subseteq Reminders /\ leased \in [Reminders -> Nat]
    BY <2>0 DEF Typed, AsksTyped, RemindersTyped
  <2>5. \A l \in links : l[3] \in 1..issued[<<l[1], l[2]>>] /\ Asked(l[1], l[2])
    BY <2>0 DEF AskInv
  <2>6. /\ doing \in [Requests -> {"idle", "entered", "confirming", "code", "link"}]
        /\ \A q \in Requests :
             /\ doing[q] = "idle" => seen[q] = NothingSeen
             /\ doing[q] = "confirming" => seen[q].review \in Reviews
             /\ doing[q] \in {"code", "link"} => seen[q].contact \in created
    BY <2>0 DEF Typed, RequestsTyped, RequestOK
  <2>7. /\ step \in {"idle", "reminders", "claimed", "asking"}
        /\ todo \subseteq Reminders /\ known \subseteq Reviews
        /\ asking.new \cup asking.open \subseteq created
    BY <2>0 DEF Typed, PassTyped
  <2> QED
    BY <2>1, <2>2, <2>3, <2>4, <2>5, <2>6, <2>7 DEF TypeOK
<1> QED
  BY <1>1, ReviewInvariant, PTL

\* Whatever requests and passes overlap, an account that grants access has an open review at
\* the date it becomes overdue (_create_review): the holder can always prevent that.
THEOREM ReviewFollows == Spec => []NextReviewExists
<1>1. ReviewInv => NextReviewExists
  BY DEF ReviewInv, NextInv, NextReviewExists, Allows
<1> QED
  BY <1>1, ReviewInvariant, PTL

\* However many links a contact was sent and however many requests open them together,
\* they confirm it once (verify_contact).
THEOREM LinksConfirmOnce == Spec => []ConfirmedOnce
<1>1. ReviewInv => ConfirmedOnce
  BY DEF ReviewInv, ConfirmInv
<1> QED
  BY <1>1, ReviewInvariant, PTL

KeepsRetention ==
  status = "scheduled" /\ status' = "deleted" /\ step # step' /\ ~locked
    => passAt >= accessAt + Retention

\* Nobody overlaps a pass so that the lifecycle deletes an account before its retention is
\* over: the date a pass finds is that of the last disabling, or none (LifecycleService.run).
THEOREM RetentionIsKept == Spec => RetentionBeforeDeletion
<1>1. ReviewInv /\ [Next]_vars => [KeepsRetention]_vars
  <2> SUFFICES ASSUME ReviewInv, Next, status = "scheduled", status' = "deleted", step # step',
                      ~locked
               PROVE  passAt >= accessAt + Retention
    BY DEF KeepsRetention
  <2>0. Typed /\ LifeInv /\ AskInv /\ RetentionInv
    BY DEF ReviewInv
  <2>1. AccountSteps /\ ~(\E q \in Requests : RequestStep(q))
    <3>1. ASSUME NEW q \in Requests, RequestStep(q) PROVE step' = step
      BY <3>1 DEF RequestStep, Enter, ConfirmRead, ConfirmCommit, Remove, SendCode, OpenCode,
                  OpenLink, VerifyLink, VerifyCode, Refuse, passVars
    <3> QED
      BY <2>0, <3>1, AccountChanges
  <2>2. Lifecycle
    <3>1. PassStep
      BY <2>1 DEF Next, DisableAdministratively, DeleteAccount, Bounce, Tick, passVars
    <3> QED
      BY <3>1 DEF PassStep, StartPass, DropReminder, ClaimReminder, AskContacts, CommitReminder,
                  FailPass, rowVars, accountVars
  <2>3. Expired(passAt)
    BY <2>2 DEF Lifecycle, Overdue, Disable, Repair, Schedule, NoStage, accountVars
  <2>4. deletionDue # 0 /\ deletionDue <= passAt
    BY <2>3 DEF Expired
  <2>5. deletionDue >= accessAt + Retention
    BY <2>0, <2>4 DEF RetentionInv
  <2>6. deletionDue \in Nat /\ passAt \in Nat /\ accessAt \in Nat /\ Retention \in Nat
    BY <2>0, Ticks, Periods DEF Typed, AccountTyped, ClockTyped
  <2> QED
    BY <2>4, <2>5, <2>6
<1>2. Spec => [][KeepsRetention]_vars
  BY <1>1, ReviewInvariant, PTL DEF Spec
<1> QED
  BY <1>2 DEF KeepsRetention, RetentionBeforeDeletion
=============================================================================
