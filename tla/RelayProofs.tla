----------------------------- MODULE RelayProofs -----------------------------
(***************************************************************************)
(* Proofs about Relay, for every number of messages, contacts, partners    *)
(* and workers and every value of the times and bounds.                    *)
(***************************************************************************)
EXTENDS RelayProperties, TLAPS

\* A delivery is a message and a contact.
LEMMA DeliveryParts ==
  /\ \A d \in Deliveries :
       Note(d) \in Notifications /\ Contact(d) \in Contacts /\ d = <<Note(d), Contact(d)>>
  /\ \A n \in Notifications, c \in Contacts :
       <<n, c>> \in Deliveries /\ Note(<<n, c>>) = n
BY DEF Deliveries, Note, Contact

LEMMA SchedulerIsWorker == Scheduler \in Workers
BY DEF Workers

-----------------------------------------------------------------------------
(* Types.  What a step leaves alone keeps its types. *)

LEMMA SameAccountTypes == AccountTypes /\ UNCHANGED accountVars => AccountTypes'
BY DEF AccountTypes, accountVars

LEMMA SameNoteTypes == NoteTypes /\ UNCHANGED noteVars => NoteTypes'
BY DEF NoteTypes, noteVars

LEMMA SameDeliveryTypes ==
  ASSUME DeliveryTypes, UNCHANGED deliveryVars PROVE DeliveryTypes'
<1>1. UNCHANGED <<dstatus, leaseVars>>
  BY DEF deliveryVars
<1>2. UNCHANGED <<startedAt, until, retryAt, attempts, tracking>>
  BY <1>1 DEF leaseVars
<1> QED
  BY <1>1, <1>2 DEF DeliveryTypes

LEMMA SameWorkerTypes == WorkerTypes /\ UNCHANGED workerVars => WorkerTypes'
BY DEF WorkerTypes, workerVars, localVars

LEMMA AggregateType == \A n : Aggregate(n) \in NotificationStatus \ {"none"}
BY DEF Aggregate, NotificationStatus

LEMMA NoCallType == NoCall \in Call
BY DEF NoCall, Call, CallRecord, AboutNoNote, CallSteps, NoAccountSeen, AccountSnapshot, People

\* What a step that lets running calls witness a change leaves in them is well typed.
LEMMA WitnessedType ==
  ASSUME calls \in [Callers -> Call] PROVE Witnessed \in [Callers -> Call]
<1>1. Barred(AccountNow)' \subseteq People
  BY DEF Barred
<1>2. ASSUME NEW call \in Call
      PROVE  [call EXCEPT !.barred = @ \cup Barred(AccountNow)'] \in Call
  BY <1>1 DEF Call, CallRecord, AboutNoNote
<1> QED
  BY <1>2, NoCallType DEF Witnessed

LEMMA TypeInit == Init => TypeOK /\ CurrentKnown
<1> SUFFICES ASSUME Init PROVE TypeOK /\ CurrentKnown
  OBVIOUS
<1>1. AccountTypes
  BY DEF Init, AccountTypes, AccountStatus
<1>2. NoteTypes
  BY DEF Init, NoteTypes, NotificationStatus, People
<1>3. DeliveryTypes
  BY DEF Init, DeliveryTypes, DeliveryStatus
<1>4. WorkerTypes
  BY DEF Init, WorkerTypes, Labels, NoNoteSeen, NoAccountSeen, NoteSnapshot,
         AccountSnapshot, NotificationStatus
<1>5. OtherTypes
  BY NoCallType DEF Init, OtherTypes
<1>6. CurrentKnown
  BY DEF Init, CurrentKnown, InHand
<1> QED
  BY <1>1, <1>2, <1>3, <1>4, <1>5, <1>6 DEF TypeOK

\* The administrative changes, one case for each.
LEMMA EditTypes ==
  ASSUME TypeOK, Edit
  PROVE  AccountTypes' /\ NoteTypes' /\ DeliveryTypes' /\ calls' \in [Callers -> Call]
<1> DEFINE Goal == AccountTypes' /\ NoteTypes' /\ DeliveryTypes'
<1>1. calls' \in [Callers -> Call]
  BY WitnessedType DEF Edit, TypeOK, OtherTypes
<1> USE DEF TypeOK
<1>2. ASSUME NEW d \in Deliveries, Bounce(d) PROVE Goal
  <2>1. AccountTypes'
    BY <1>2 DEF Bounce, AccountTypes
  <2>2. NoteTypes'
    BY <1>2, DeliveryParts, AggregateType DEF Bounce, NoteTypes
  <2>3. DeliveryTypes'
    BY <1>2 DEF Bounce, DeliveryTypes, leaseVars, DeliveryStatus, TerminalStatus
  <2> QED
    BY <2>1, <2>2, <2>3
<1>3. ASSUME NEW status \in AccountStatus, NEW locked \in BOOLEAN, ChangeAccount(status, locked)
      PROVE  Goal
  <2>1. AccountTypes'
    BY <1>3 DEF ChangeAccount, AccountTypes
  <2> QED
    BY <1>3, <2>1, SameNoteTypes, SameDeliveryTypes DEF ChangeAccount
<1>4. CASE DisableAdministratively
  BY <1>1, <1>3, <1>4 DEF DisableAdministratively, AccountStatus
<1>5. CASE FinishReview
  BY <1>1, <1>3, <1>5 DEF FinishReview, AccountStatus, AccountTypes
<1>6. CASE DeleteAccount
  <2>1. AccountTypes'
    BY <1>6 DEF DeleteAccount, AccountTypes, AccountStatus
  <2>2. NoteTypes'
    BY <1>6 DEF DeleteAccount, NoteTypes, NotificationStatus
  <2>3. DeliveryTypes'
    BY <1>6 DEF DeleteAccount, DeliveryTypes, leaseVars, DeliveryStatus
  <2> QED
    BY <1>1, <2>1, <2>2, <2>3
<1>7. ASSUME NEW c \in Contacts, SetVerified(c) \/ DeleteContact(c) PROVE Goal
  <2>1. AccountTypes'
    BY <1>7 DEF SetVerified, DeleteContact, AccountTypes
  <2> QED
    BY <1>7, <2>1, SameNoteTypes, SameDeliveryTypes DEF SetVerified, DeleteContact
<1>8. ASSUME NEW p \in Partners, DeletePartner(p) \/ SetPartnerEnrolled(p) PROVE Goal
  <2>1. AccountTypes'
    BY <1>8 DEF DeletePartner, SetPartnerEnrolled, AccountTypes
  <2> QED
    BY <1>8, <2>1, SameNoteTypes, SameDeliveryTypes DEF DeletePartner, SetPartnerEnrolled
<1> QED
  BY <1>1, <1>2, <1>4, <1>5, <1>6, <1>7, <1>8 DEF Edit

\* Accounts read calls keep are well typed.
LEMMA KeptType == ASSUME TypeOK PROVE \A e \in Callers : Kept(e) \in AccountSnapshot
BY SchedulerIsWorker
DEF TypeOK, OtherTypes, WorkerTypes, Call, CallRecord, Kept, NoAccountSeen, AccountSnapshot

LEMMA AfterErasureType ==
  ASSUME NEW call \in Call, NEW kept \in AccountSnapshot PROVE AfterErasure(call, kept) \in Call
<1>1. [call EXCEPT !.step = "next", !.note = NoNotification, !.account = kept,
                   !.left = {}, !.facing = Owner, !.active = FALSE, !.at = 0] \in Call
  BY DEF Call, CallRecord, AboutNoNote, CallSteps, People
<1> QED
  BY <1>1, NoCallType DEF AfterErasure

\* Steps of the inbox: they change nothing but calls, read marks, which partners are
\* active, and content with its retention.
CallMoves ==
  \/ \E v \in Visitors, p \in People, n \in Notifications : ArriveToRead(v, p, n)
  \/ \E v \in Visitors, p \in Partners : ArriveToDisable(v, p)
  \/ \E p \in Partners : EnablePartner(p)
  \/ \E e \in Callers : CallStep(e)
  \/ WebCrash

LEMMA CallShape ==
  ASSUME CallMoves
  PROVE  /\ UNCHANGED <<clock, writer, accountStatus, adminLocked, partners, enrolledPartners,
                        contacts, verified, nstatus, releaseAt, cancelledAt, frozenAt,
                        recipients, deliveryVars, workerVars, historyVars, edits>>
         /\ crashes' \in {crashes, crashes + 1}
<1> USE DEF accountVars, noteVars, boundVars
<1>1. ASSUME NEW v, NEW p, NEW n, ArriveToRead(v, p, n) \/ ArriveToDisable(v, p) \/ EnablePartner(p)
      PROVE  /\ UNCHANGED <<clock, writer, accountStatus, adminLocked, partners,
                            enrolledPartners, contacts, verified, nstatus, releaseAt,
                            cancelledAt, frozenAt, recipients, deliveryVars, workerVars,
                            historyVars, edits>>
             /\ crashes' \in {crashes, crashes + 1}
  BY <1>1 DEF ArriveToRead, ArriveToDisable, EnablePartner
<1>2. ASSUME NEW e, CallStep(e)
      PROVE  /\ UNCHANGED <<clock, writer, accountStatus, adminLocked, partners,
                            enrolledPartners, contacts, verified, nstatus, releaseAt,
                            cancelledAt, frozenAt, recipients, deliveryVars, workerVars,
                            historyVars, edits>>
             /\ crashes' \in {crashes, crashes + 1}
  BY <1>2
  DEF CallStep, Check, Refuse, ConfirmRead, DisablePartner, ListMessages, NextMessage, Survey,
      LookUp, Weigh, EraseIfComplete
<1> QED
  BY <1>1, <1>2 DEF CallMoves, WebCrash

LEMMA CallErases ==
  ASSUME CallMoves, payload \in [Notifications -> BOOLEAN]
  PROVE  \A n \in Notifications : payload'[n] => payload[n]
<1>1. ASSUME NEW e, CallStep(e) PROVE \A n \in Notifications : payload'[n] => payload[n]
  BY <1>1
  DEF CallStep, noteVars, Check, Refuse, ConfirmRead, DisablePartner, ListMessages,
      NextMessage, Survey, LookUp, Weigh, EraseIfComplete
<1> QED
  BY <1>1 DEF CallMoves, noteVars, ArriveToRead, ArriveToDisable, EnablePartner, WebCrash

LEMMA CallTypes ==
  ASSUME TypeOK, CallMoves
  PROVE  AccountTypes' /\ NoteTypes' /\ calls' \in [Callers -> Call]
<1> DEFINE Goal == AccountTypes' /\ NoteTypes' /\ calls' \in [Callers -> Call]
<1> USE DEF TypeOK
<1>0. calls \in [Callers -> Call] /\ clock \in Nat
  BY DEF OtherTypes
<1>1. ASSUME NEW e \in Callers, NEW call \in Call, Proceed(e, call)
      PROVE  calls' \in [Callers -> Call]
  BY <1>0, <1>1 DEF Proceed
<1>2. ASSUME NEW e \in Callers, Stop(e) PROVE calls' \in [Callers -> Call]
  BY <1>0, <1>2, NoCallType DEF Stop
<1>3. Barred(AccountNow) \subseteq People /\ AccountNow \in AccountSnapshot
  BY DEF Barred, AccountNow, AccountSnapshot, AccountTypes
<1>4. ASSUME NEW v \in Visitors, NEW p \in People, NEW n \in Notifications,
             ArriveToRead(v, p, n)
      PROVE  Goal
  <2>1. [NoCall EXCEPT !.step = IF p = Owner THEN "account" ELSE "partner", !.goal = "read",
                       !.person = p, !.note = n, !.barred = Barred(AccountNow)] \in Call
    BY <1>3, NoCallType DEF Call, CallRecord, AboutNoNote, CallSteps, Checks
  <2> QED
    BY <1>1, <1>4, <2>1, SameAccountTypes, SameNoteTypes DEF ArriveToRead, Callers
<1>5. ASSUME NEW v \in Visitors, NEW p \in Partners, ArriveToDisable(v, p) PROVE Goal
  <2>1. [NoCall EXCEPT !.step = "account", !.goal = "disable", !.person = p,
                       !.barred = Barred(AccountNow)] \in Call
    BY <1>3, NoCallType DEF Call, CallRecord, AboutNoNote, CallSteps, Checks, People
  <2> QED
    BY <1>1, <1>5, <2>1, SameAccountTypes, SameNoteTypes DEF ArriveToDisable, Callers
<1>6. ASSUME NEW p \in Partners, EnablePartner(p) PROVE Goal
  <2>1. AccountTypes'
    BY <1>6 DEF EnablePartner, AccountTypes
  <2> QED
    BY <1>0, <1>6, <2>1, SameNoteTypes DEF EnablePartner
<1>7. ASSUME NEW e \in Callers, Check(e) PROVE Goal
  <2>1. calls[e] \in Call /\ Following(calls[e]) \in CallSteps
    BY <1>0, <1>7 DEF Check, Checks, Following, CallSteps
  <2> DEFINE call == calls[e]
             kept == IF call.step = "account" /\ (call.goal = "disable" \/ call.person = Owner)
                     THEN AccountNow ELSE call.account
             now == IF Following(call) = "marking" THEN clock ELSE call.at
  <2>2. kept \in AccountSnapshot /\ now \in Nat
    BY <1>0, <1>3, <2>1 DEF Call, CallRecord, AboutNoNote
  <2>3. [call EXCEPT !.step = Following(call), !.account = kept,
                     !.active = call.step = "row" /\ call.person \in activePartners,
                     !.at = now] \in CallRecord
    BY <2>1, <2>2 DEF Call, CallRecord
  <2>4. \/ Following(call) \in {"row", "disabling"}
        \/ call.note \in Notifications
    BY <1>7, <2>1 DEF Check, Following, Call, AboutNoNote, Checks
  <2>5. [call EXCEPT !.step = Following(call), !.account = kept,
                     !.active = call.step = "row" /\ call.person \in activePartners,
                     !.at = now] \in Call
    BY <2>1, <2>3, <2>4 DEF Call, CallRecord, AboutNoNote
  <2> QED
    BY <1>1, <1>7, <2>5, SameAccountTypes, SameNoteTypes DEF Check
<1>8. ASSUME NEW e \in Callers, Refuse(e) PROVE Goal
  BY <1>2, <1>8, SameAccountTypes, SameNoteTypes DEF Refuse
<1>9. ASSUME NEW e \in Callers, ConfirmRead(e) PROVE Goal
  <2>1. calls[e] \in Call /\ [calls[e] EXCEPT !.step = "surveying"] \in Call
    BY <1>0, <1>9 DEF ConfirmRead, Call, CallRecord, AboutNoNote, CallSteps
  <2>2. NoteTypes'
    BY <1>9, <2>1 DEF ConfirmRead, NoteTypes, Call, CallRecord
  <2> QED
    BY <1>1, <1>9, <2>1, <2>2, SameAccountTypes DEF ConfirmRead
<1>10. ASSUME NEW e \in Callers, DisablePartner(e) PROVE Goal
  <2>1. AccountTypes'
    BY <1>10 DEF DisablePartner, AccountTypes
  <2>2. ASSUME NEW call \in Call
        PROVE  [call EXCEPT !.step = "listing", !.active = FALSE] \in Call
    BY DEF Call, CallRecord, AboutNoNote, CallSteps
  <2>3. calls' = [Witnessed EXCEPT ![e] = [@ EXCEPT !.step = "listing", !.active = FALSE]]
    BY <1>0, <1>10, WitnessedType DEF DisablePartner, Call, CallRecord
  <2>4. calls' \in [Callers -> Call]
    BY <1>0, <2>2, <2>3, WitnessedType
  <2> QED
    BY <1>10, <2>1, <2>4, SameNoteTypes DEF DisablePartner
<1>11. ASSUME NEW e \in Callers, ListMessages(e) PROVE Goal
  <2> DEFINE todo == {n \in Notifications : calls[e].person \in recipients[n]}
  <2>1. calls[e].account \in AccountSnapshot /\ [calls[e] EXCEPT !.todo = todo] \in Call
    BY <1>0 DEF Call, CallRecord, AboutNoNote
  <2> QED
    BY <1>1, <1>11, <2>1, AfterErasureType, SameAccountTypes, SameNoteTypes DEF ListMessages
<1>12. ASSUME NEW e \in Callers, NEW n \in Notifications, NextMessage(e, n) PROVE Goal
  <2> DEFINE now == IF e = Scheduler THEN started[Scheduler] ELSE clock
  <2>1. now \in Nat
    BY <1>0, SchedulerIsWorker DEF WorkerTypes
  <2>2. [calls[e] EXCEPT !.step = "surveying", !.note = n, !.todo = @ \ {n}, !.at = now] \in Call
    BY <1>0, <2>1 DEF Call, CallRecord, AboutNoNote, CallSteps
  <2> QED
    BY <1>1, <1>12, <2>2, SameAccountTypes, SameNoteTypes DEF NextMessage
<1>13. ASSUME NEW e \in Callers, Survey(e) PROVE Goal
  <2> DEFINE unread == recipients[calls[e].note] \ readBy[calls[e].note]
             next == IF payload[calls[e].note] /\ recipients[calls[e].note] # {}
                     THEN [calls[e] EXCEPT !.step = "weighing", !.left = unread]
                     ELSE AfterErasure(calls[e], Kept(e))
  <2>1. calls[e] \in Call /\ calls[e].note \in Notifications
    BY <1>0, <1>13 DEF Survey, Call, CallRecord, AboutNoNote
  <2>2. [calls[e] EXCEPT !.step = "weighing", !.left = unread] \in Call
    BY <2>1 DEF Call, CallRecord, AboutNoNote, CallSteps, NoteTypes
  <2>3. AfterErasure(calls[e], Kept(e)) \in Call
    BY <2>1, AfterErasureType, KeptType
  <2>4. Proceed(e, next)
    BY <1>13 DEF Survey
  <2>5. next \in Call
    BY <2>2, <2>3
  <2> QED
    BY <1>1, <1>13, <2>4, <2>5, SameAccountTypes, SameNoteTypes DEF Survey
<1>14. ASSUME NEW e \in Callers, NEW p \in People, LookUp(e, p) PROVE Goal
  <2> DEFINE active == p = Owner \/ (p \in activePartners /\ ~RowKept(calls[e], p))
  <2>1. [calls[e] EXCEPT !.step = "facing", !.facing = p, !.active = active] \in Call
    <3>1. calls[e] \in CallRecord /\ calls[e].note \in Notifications
      BY <1>0, <1>14 DEF LookUp, Call, AboutNoNote
    <3>2. active \in BOOLEAN
      OBVIOUS
    <3> HIDE DEF active
    <3> QED
      BY <3>1, <3>2 DEF Call, CallRecord, CallSteps
  <2>2. [calls[e] EXCEPT !.left = @ \ {p}, !.account = Kept(e)] \in Call
    BY <1>0, KeptType DEF Call, CallRecord, AboutNoNote
  <2> QED
    BY <1>1, <1>14, <2>1, <2>2, SameAccountTypes, SameNoteTypes DEF LookUp
<1>15. ASSUME NEW e \in Callers, Weigh(e) PROVE Goal
  <2> DEFINE account == IF calls[e].account = NoAccountSeen THEN AccountNow ELSE calls[e].account
  <2>1. account \in AccountSnapshot
    BY <1>0, <1>3 DEF Call, CallRecord, AboutNoNote
  <2>2. [calls[e] EXCEPT !.step = "weighing", !.left = @ \ {calls[e].facing},
                         !.facing = Owner, !.active = FALSE, !.account = account] \in Call
    <3>1. calls[e] \in CallRecord /\ calls[e].note \in Notifications
      BY <1>0, <1>15 DEF Weigh, Call, AboutNoNote
    <3> HIDE DEF account
    <3> QED
      BY <2>1, <3>1 DEF Call, CallRecord, CallSteps, People
  <2> QED
    BY <1>0, <1>1, <1>15, <2>2, AfterErasureType, KeptType, SameAccountTypes, SameNoteTypes
    DEF Weigh
<1>16. ASSUME NEW e \in Callers, EraseIfComplete(e) PROVE Goal
  <2>1. calls[e] \in Call /\ calls[e].at \in Nat
    BY <1>0 DEF Call, CallRecord, AboutNoNote
  <2>2. NoteTypes'
    BY <1>16, <2>1 DEF EraseIfComplete, NoteTypes
  <2> QED
    BY <1>1, <1>16, <2>1, <2>2, AfterErasureType, KeptType, SameAccountTypes
    DEF EraseIfComplete
<1>17. CASE WebCrash
  BY <1>0, <1>17, NoCallType, SameAccountTypes, SameNoteTypes DEF WebCrash
<1> QED
  BY <1>4, <1>5, <1>6, <1>7, <1>8, <1>9, <1>10, <1>11, <1>12, <1>13, <1>14, <1>15, <1>16,
     <1>17
  DEF CallMoves, CallStep

\* What the maintenance pass sets out to do after its first erasure is well typed.
LEMMA SweepType ==
  ASSUME TypeOK, LifecycleErase
  PROVE  calls' \in [Callers -> Call] /\ accountSeen' \in [Workers -> AccountSnapshot]
<1> DEFINE account == [status |-> accountStatus', locked |-> adminLocked]
           Begun(todo, kept) == AfterErasure([NoCall EXCEPT !.goal = "sweep", !.todo = todo,
                                  !.account = kept, !.barred = Barred(account)], kept)
<1>1. account \in AccountSnapshot /\ NoAccountSeen \in AccountSnapshot
  BY DEF LifecycleErase, LifecycleStages, AccountSnapshot, NoAccountSeen, TypeOK, AccountTypes,
         AccountStatus
<1>2. Witnessed \in [Callers -> Call] /\ accountSeen \in [Workers -> AccountSnapshot]
  BY WitnessedType DEF TypeOK, OtherTypes, WorkerTypes
<1>3. ASSUME NEW todo \in SUBSET Notifications, NEW kept \in AccountSnapshot
      PROVE  Begun(todo, kept) \in Call
  <2>1. Barred(account) \subseteq People
    BY DEF Barred
  <2>2. [NoCall EXCEPT !.goal = "sweep", !.todo = todo, !.account = kept,
                       !.barred = Barred(account)] \in Call
    BY <2>1, NoCallType DEF NoCall, Call, CallRecord, AboutNoNote
  <2> QED
    BY <2>2, AfterErasureType
<1>4. \/ calls' = Witnessed /\ UNCHANGED accountSeen
      \/ \E todo \in SUBSET Notifications, kept \in {NoAccountSeen, account} :
           /\ accountSeen' = [accountSeen EXCEPT ![Scheduler] = kept]
           /\ calls' = [Witnessed EXCEPT ![Scheduler] = Begun(todo, kept)]
  BY DEF LifecycleErase, Complete
<1>5. CASE calls' = Witnessed /\ UNCHANGED accountSeen
  BY <1>2, <1>5
<1>6. ASSUME NEW todo \in SUBSET Notifications, NEW kept \in {NoAccountSeen, account},
             accountSeen' = [accountSeen EXCEPT ![Scheduler] = kept],
             calls' = [Witnessed EXCEPT ![Scheduler] = Begun(todo, kept)]
      PROVE  calls' \in [Callers -> Call] /\ accountSeen' \in [Workers -> AccountSnapshot]
  <2>1. kept \in AccountSnapshot
    BY <1>1
  <2>2. Begun(todo, kept) \in Call
    BY <1>3, <2>1
  <2> HIDE DEF Begun
  <2> QED
    BY <1>2, <1>6, <2>1, <2>2
<1> QED
  BY <1>4, <1>5, <1>6

\* Every step keeps the types: one case for each action.
LEMMA TypeNext == TypeOK /\ CurrentKnown /\ [Next]_vars => TypeOK' /\ CurrentKnown'
<1> SUFFICES ASSUME TypeOK, CurrentKnown, [Next]_vars PROVE TypeOK' /\ CurrentKnown'
  OBVIOUS
<1> USE DEF TypeOK
<1>0. pc \in [Workers -> Labels] /\ current \in [Workers -> Deliveries \cup {NoDelivery}]
  BY DEF WorkerTypes
<1>1. ASSUME NEW w \in Workers, NEW n \in Notifications, Accept(w, n)
      PROVE  TypeOK' /\ CurrentKnown'
  <2>1. NoteTypes'
    <3>1. PICK delay \in Delays, retention \in Retentions :
            /\ releaseAt' = [releaseAt EXCEPT ![n] = clock + delay]
            /\ expiresAt' = [expiresAt EXCEPT ![n] = clock + delay + retention]
      BY <1>1 DEF Accept
    <3>2. clock + delay \in Nat /\ clock + delay + retention \in Nat
      BY NumberAssumption DEF NumberAssumption, OtherTypes
    <3>3. releaseAt' \in [Notifications -> Nat] /\ expiresAt' \in [Notifications -> Nat]
      BY <3>1, <3>2 DEF NoteTypes
    <3> QED
      BY <1>1, <3>3 DEF Accept, NoteTypes, NotificationStatus
  <2>2. WorkerTypes'
    BY <1>1 DEF Accept, localVars, WorkerTypes, Goto, Labels
  <2>3. CurrentKnown'
    BY <1>0, <1>1 DEF Accept, localVars, CurrentKnown, InHand, Goto
  <2> QED
    BY <1>1, <2>1, <2>2, <2>3, SameAccountTypes, SameDeliveryTypes
    DEF Accept, OtherTypes, historyVars, boundVars
<1>2. ASSUME NEW n \in Notifications, Cancel(n) PROVE TypeOK' /\ CurrentKnown'
  <2>1. NoteTypes'
    BY <1>2 DEF Cancel, NoteTypes, OtherTypes, NotificationStatus
  <2>2. DeliveryTypes'
    BY <1>2
    DEF Cancel, DeliveryTypes, deliveryVars, leaseVars, DeliveryStatus, TerminalStatus
  <2> QED
    BY <1>2, <2>1, <2>2, SameAccountTypes, SameWorkerTypes
    DEF Cancel, workerVars, localVars, OtherTypes, historyVars, boundVars, CurrentKnown
<1>3. ASSUME NEW w \in Workers, StartCycle(w) PROVE TypeOK' /\ CurrentKnown'
  <2>1. WorkerTypes'
    BY <1>3 DEF StartCycle, OtherTypes, Freezable, WorkerTypes, Goto, Labels
  <2>2. CurrentKnown'
    BY <1>0, <1>3 DEF StartCycle, CurrentKnown, InHand, Goto
  <2> QED
    BY <1>3, <2>1, <2>2, SameAccountTypes, SameNoteTypes, SameDeliveryTypes
    DEF StartCycle, OtherTypes, historyVars, boundVars
<1>4. ASSUME NEW w \in Workers, NEW n \in Notifications, Freeze(w, n)
      PROVE  TypeOK' /\ CurrentKnown'
  <2>1. NoteTypes'
    BY <1>4
    DEF Freeze, NoteTypes, WorkerTypes, NotificationStatus, People, EntitledPartners,
        AccountTypes
  <2>2. DeliveryTypes'
    BY <1>4 DEF Freeze, DeliveryTypes, leaseVars, DeliveryStatus, OpenStatus
  <2>3. WorkerTypes'
    BY <1>4 DEF Freeze, WorkerTypes, Goto, Labels
  <2>4. CurrentKnown'
    BY <1>0, <1>4 DEF Freeze, CurrentKnown, InHand, Goto
  <2> QED
    BY <1>4, <2>1, <2>2, <2>3, <2>4, SameAccountTypes
    DEF Freeze, OtherTypes, historyVars, boundVars
<1>5. ASSUME NEW w \in Workers, NEW n \in Notifications, SkipFreeze(w, n)
      PROVE  TypeOK' /\ CurrentKnown'
  <2>1. WorkerTypes'
    BY <1>5 DEF SkipFreeze, WorkerTypes, Goto, Labels
  <2>2. CurrentKnown'
    BY <1>0, <1>5 DEF SkipFreeze, CurrentKnown, InHand, Goto
  <2> QED
    BY <1>5, <2>1, <2>2, SameAccountTypes, SameNoteTypes, SameDeliveryTypes
    DEF SkipFreeze, OtherTypes, historyVars, boundVars
<1>6. ASSUME NEW w \in Workers, ListDue(w) PROVE TypeOK' /\ CurrentKnown'
  <2>1. WorkerTypes'
    BY <1>6 DEF ListDue, Batches, WorkerTypes, Goto, Labels
  <2>2. CurrentKnown'
    BY <1>0, <1>6 DEF ListDue, CurrentKnown, InHand, Goto
  <2> QED
    BY <1>6, <2>1, <2>2, SameAccountTypes, SameNoteTypes, SameDeliveryTypes
    DEF ListDue, OtherTypes, historyVars, boundVars
<1>7. ASSUME NEW w \in Workers, NEW d \in Deliveries, Claim(w, d)
      PROVE  TypeOK' /\ CurrentKnown'
  <2>1. DeliveryTypes'
    <3>1. started[w] \in Nat /\ started[w] + Lease \in Nat
      BY NumberAssumption DEF NumberAssumption, WorkerTypes
    <3>2. dstatus' \in [Deliveries -> DeliveryStatus]
      BY <1>7 DEF Claim, DeliveryTypes, DeliveryStatus, OpenStatus
    <3> QED
      BY <1>7, <3>1, <3>2 DEF Claim, DeliveryTypes
  <2>2. WorkerTypes'
    BY <1>7 DEF Claim, Allows, WorkerTypes, Goto, Labels
  <2>3. CurrentKnown'
    BY <1>0, <1>7 DEF Claim, CurrentKnown, InHand, Goto
  <2> QED
    BY <1>7, <2>1, <2>2, <2>3, SameAccountTypes, SameNoteTypes
    DEF Claim, OtherTypes, historyVars, boundVars
<1>8. ASSUME NEW w \in Workers, NEW d \in Deliveries, SkipClaim(w, d)
      PROVE  TypeOK' /\ CurrentKnown'
  <2>1. WorkerTypes'
    BY <1>8 DEF SkipClaim, WorkerTypes, Goto, Labels
  <2>2. CurrentKnown'
    BY <1>0, <1>8 DEF SkipClaim, CurrentKnown, InHand, Goto
  <2> QED
    BY <1>8, <2>1, <2>2, SameAccountTypes, SameNoteTypes, SameDeliveryTypes
    DEF SkipClaim, OtherTypes, historyVars, boundVars
<1>9. ASSUME NEW w \in Workers, ReadClaim(w) PROVE TypeOK' /\ CurrentKnown'
  <2>1. WorkerTypes'
    BY <1>9 DEF ReadClaim, DeliveryTypes, CurrentKnown, InHand, WorkerTypes, Goto, Labels
  <2>2. CurrentKnown'
    BY <1>0, <1>9 DEF ReadClaim, CurrentKnown, InHand, Goto
  <2> QED
    BY <1>9, <2>1, <2>2, SameAccountTypes, SameNoteTypes, SameDeliveryTypes
    DEF ReadClaim, OtherTypes, historyVars, boundVars
<1>10. ASSUME NEW w \in Workers, LoseClaim(w) PROVE TypeOK' /\ CurrentKnown'
  <2>1. WorkerTypes'
    BY <1>10 DEF LoseClaim, NextDelivery, WorkerTypes, Goto, Labels
  <2>2. CurrentKnown'
    BY <1>0, <1>10 DEF LoseClaim, NextDelivery, CurrentKnown, InHand, Goto
  <2> QED
    BY <1>10, <2>1, <2>2, SameAccountTypes, SameNoteTypes, SameDeliveryTypes
    DEF LoseClaim, OtherTypes, historyVars, boundVars
<1>11. ASSUME NEW w \in Workers, Authorize(w) PROVE TypeOK' /\ CurrentKnown'
  <2>1. WorkerTypes'
    BY <1>11, DeliveryParts
    DEF Authorize, NoteRead, NoteNow, NoteTypes, CurrentKnown, InHand, NoNoteSeen,
        NoAccountSeen, NoteSnapshot, AccountSnapshot, NotificationStatus, WorkerTypes,
        Goto, Labels
  <2>2. CurrentKnown'
    BY <1>0, <1>11 DEF Authorize, CurrentKnown, InHand, Goto
  <2> QED
    BY <1>11, <2>1, <2>2, SameAccountTypes, SameNoteTypes, SameDeliveryTypes
    DEF Authorize, OtherTypes, historyVars, boundVars
<1>12. ASSUME NEW w \in Workers, Reject(w) PROVE TypeOK' /\ CurrentKnown'
  <2>1. NoteTypes'
    BY <1>12, DeliveryParts, AggregateType DEF Reject, NoteTypes, Restate, StatusWritten
  <2>2. DeliveryTypes'
    BY <1>12 DEF Reject, DeliveryTypes, ClearLease, DeliveryStatus, TerminalStatus
  <2>3. WorkerTypes'
    BY <1>12, AggregateType
    DEF Reject, NextDelivery, Restate, NoteSnapshot, WorkerTypes, Goto, Labels
  <2>4. CurrentKnown'
    BY <1>0, <1>12 DEF Reject, NextDelivery, CurrentKnown, InHand, Goto
  <2> QED
    BY <1>12, <2>1, <2>2, <2>3, <2>4, SameAccountTypes
    DEF Reject, OtherTypes, historyVars, boundVars
<1>13. ASSUME NEW w \in Workers, BeginSend(w) PROVE TypeOK' /\ CurrentKnown'
  <2>1. WorkerTypes'
    BY <1>13
    DEF BeginSend, AccountRead, AccountNow, NoAccountSeen, AccountSnapshot,
        AccountTypes, WorkerTypes, Goto, Labels
  <2>2. OtherTypes'
    BY <1>13 DEF BeginSend, historyVars, boundVars, OtherTypes
  <2>3. CurrentKnown'
    BY <1>0, <1>13 DEF BeginSend, CurrentKnown, InHand, Goto
  <2> QED
    BY <1>13, <2>1, <2>2, <2>3, SameAccountTypes, SameNoteTypes, SameDeliveryTypes
    DEF BeginSend
<1>14. ASSUME NEW w \in Workers, Send(w) PROVE TypeOK' /\ CurrentKnown'
  <2>1. WorkerTypes'
    BY <1>14 DEF Send, WorkerTypes, Goto, Labels
  <2>2. OtherTypes'
    BY <1>14 DEF Send, historyVars, boundVars, OtherTypes
  <2>3. CurrentKnown'
    BY <1>0, <1>14 DEF Send, CurrentKnown, InHand, Goto
  <2> QED
    BY <1>14, <2>1, <2>2, <2>3, SameAccountTypes, SameNoteTypes, SameDeliveryTypes DEF Send
<1>15. ASSUME NEW w \in Workers, Commit(w) PROVE TypeOK' /\ CurrentKnown'
  <2>1. AccountTypes'
    BY <1>15 DEF Commit, AccountTypes
  <2>2. NoteTypes'
    BY <1>15, DeliveryParts, AggregateType DEF Commit, NoteTypes, Restate, StatusWritten
  <2>3. DeliveryTypes'
    <3>1. Outcome(w) \in TerminalStatus \cup {"retry_scheduled"}
      BY DEF Outcome, TerminalStatus
    <3>2. dstatus' \in [Deliveries -> DeliveryStatus]
      BY <1>15, <3>1 DEF Commit, DeliveryTypes, DeliveryStatus, OpenStatus
    <3>3. seenAttempts[w] + 1 \in Nat
      BY DEF WorkerTypes
    <3>4. attempts' \in [Deliveries -> Nat]
      BY <1>15, <3>3 DEF Commit, DeliveryTypes
    <3>5. Outcome(w) = "retry_scheduled" =>
            started[w] + RetryDelay[seenAttempts[w] + 1] \in Nat
      BY <3>3, NumberAssumption DEF Outcome, WorkerTypes, NumberAssumption
    <3>6. retryAt' \in [Deliveries -> Nat]
      BY <1>15, <3>1, <3>5 DEF Commit, DeliveryTypes
    <3>7. startedAt' \in [Deliveries -> Nat] /\ until' \in [Deliveries -> Nat]
      BY <1>15 DEF Commit, ClearLease, DeliveryTypes
    <3>8. tracking' \in [Deliveries -> Nat]
      <4>1. tracking' = [tracking EXCEPT ![current[w]] = IF result[w] = "ok" THEN @ + 1 ELSE @]
        BY <1>15 DEF Commit
      <4>2. current[w] \in Deliveries
        BY <1>15 DEF Commit, CurrentKnown, InHand
      <4> QED
        BY <4>1, <4>2 DEF DeliveryTypes
    <3> QED
      BY <3>2, <3>4, <3>6, <3>7, <3>8 DEF DeliveryTypes
  <2>4. WorkerTypes'
    BY <1>15, AggregateType
    DEF Commit, NextDelivery, Restate, NoteSnapshot, WorkerTypes, Goto, Labels
  <2>5. OtherTypes'
    BY <1>15 DEF Commit, historyVars, boundVars, OtherTypes
  <2>6. CurrentKnown'
    BY <1>0, <1>15 DEF Commit, NextDelivery, CurrentKnown, InHand, Goto
  <2> QED
    BY <1>15, <2>1, <2>2, <2>3, <2>4, <2>5, <2>6 DEF Commit
<1>16. ASSUME NEW w \in Workers, FinishCycle(w) PROVE TypeOK' /\ CurrentKnown'
  <2>1. WorkerTypes'
    BY <1>16
    DEF FinishCycle, OtherTypes, NoNoteSeen, NoAccountSeen, NoteSnapshot,
        AccountSnapshot, NotificationStatus, WorkerTypes, Goto, Labels
  <2>2. CurrentKnown'
    BY <1>0, <1>16 DEF FinishCycle, CurrentKnown, InHand, Goto
  <2> QED
    BY <1>16, <2>1, <2>2, SameAccountTypes, SameNoteTypes, SameDeliveryTypes
    DEF FinishCycle, OtherTypes, historyVars, boundVars
<1>17. ASSUME NEW w \in Workers, Crash(w) PROVE TypeOK' /\ CurrentKnown'
  <2>1. WorkerTypes'
    BY <1>17
    DEF Crash, Abandon, NoNoteSeen, NoAccountSeen, NoteSnapshot, AccountSnapshot,
        NotificationStatus, WorkerTypes, Goto, Labels
  <2>2. OtherTypes'
    <3>1. doubtful' \in [Deliveries -> Nat]
      <4>1. doubtful \in [Deliveries -> Nat]
        BY DEF OtherTypes
      <4>2. ASSUME NEW d \in Deliveries
            PROVE  [doubtful EXCEPT ![d] = @ + 1] \in [Deliveries -> Nat]
        BY <4>1
      <4>3. pc[w] = "sent" => current[w] \in Deliveries
        BY DEF CurrentKnown, InHand
      <4> QED
        BY <1>17, <4>1, <4>2, <4>3 DEF Crash
    <3>2. writer' \in Workers \cup {NoWorker} /\ crashes' \in Nat
      BY <1>17 DEF Crash, Abandon, OtherTypes
    <3> QED
      BY <1>17, <3>1, <3>2, NoCallType DEF Crash, Abandon, OtherTypes
  <2>3. CurrentKnown'
    BY <1>0, <1>17 DEF Crash, Abandon, CurrentKnown, InHand, Goto
  <2> QED
    BY <1>17, <2>1, <2>2, <2>3, SameAccountTypes, SameNoteTypes, SameDeliveryTypes DEF Crash
<1>18. ASSUME NEW w \in Workers, Fail(w) PROVE TypeOK' /\ CurrentKnown'
  <2>1. WorkerTypes'
    BY <1>18
    DEF Fail, Abandon, NoNoteSeen, NoAccountSeen, NoteSnapshot, AccountSnapshot,
        NotificationStatus, WorkerTypes, Goto, Labels
  <2>2. OtherTypes'
    BY <1>18, NoCallType DEF Fail, Abandon, historyVars, boundVars, OtherTypes
  <2>3. CurrentKnown'
    BY <1>0, <1>18 DEF Fail, Abandon, CurrentKnown, InHand, Goto
  <2> QED
    BY <1>18, <2>1, <2>2, <2>3, SameAccountTypes, SameNoteTypes, SameDeliveryTypes DEF Fail
<1>19. ASSUME CallMoves PROVE TypeOK' /\ CurrentKnown'
  <2>1. OtherTypes'
    BY <1>19, CallShape, CallTypes DEF historyVars, OtherTypes
  <2>2. CurrentKnown'
    BY <1>19, CallShape DEF workerVars, localVars, CurrentKnown
  <2> QED
    BY <1>19, <2>1, <2>2, CallShape, CallTypes, SameDeliveryTypes, SameWorkerTypes
<1>22. ASSUME LifecycleErase PROVE TypeOK' /\ CurrentKnown'
  <2>1. AccountTypes'
    BY <1>22 DEF LifecycleErase, AccountTypes, AccountStatus, LifecycleStages
  <2>2. NoteTypes'
    <3>1. started[Scheduler] \in Nat
      BY SchedulerIsWorker DEF WorkerTypes
    <3>2. payload' \in [Notifications -> BOOLEAN] /\ expiresAt' \in [Notifications -> Nat]
      BY <1>22, <3>1 DEF LifecycleErase, NoteTypes
    <3> QED
      BY <1>22, <3>2 DEF LifecycleErase, NoteTypes
  <2>3. WorkerTypes'
    BY <1>22, SweepType DEF LifecycleErase, WorkerTypes, Goto, Labels
  <2>4. OtherTypes'
    <3>1. calls' \in [Callers -> Call]
      BY <1>22, SweepType DEF LifecycleErase
    <3>2. writer' \in Workers \cup {NoWorker}
      BY <1>22, SchedulerIsWorker DEF LifecycleErase, OtherTypes
    <3>3. edits' \in Nat
      <4>1. LifecycleStages
        BY <1>22 DEF LifecycleErase
      <4> QED
        BY <4>1 DEF LifecycleStages, OtherTypes
    <3> QED
      BY <1>22, <3>1, <3>2, <3>3 DEF LifecycleErase, historyVars, OtherTypes
  <2>5. CurrentKnown'
    BY <1>0, <1>22 DEF LifecycleErase, CurrentKnown, InHand, Goto
  <2> QED
    BY <1>22, <2>1, <2>2, <2>3, <2>4, <2>5, SameDeliveryTypes DEF LifecycleErase
<1>23. ASSUME LifecycleRead PROVE TypeOK' /\ CurrentKnown'
  <2>1. WorkerTypes'
    BY <1>23, SchedulerIsWorker DEF LifecycleRead, Expired, WorkerTypes, Goto, Labels
  <2>2. CurrentKnown'
    BY <1>0, <1>23 DEF LifecycleRead, CurrentKnown, InHand, Goto
  <2> QED
    BY <1>23, <2>1, <2>2, SameAccountTypes, SameNoteTypes, SameDeliveryTypes
    DEF LifecycleRead, OtherTypes, historyVars, boundVars
<1>24. ASSUME LifecycleExpire PROVE TypeOK' /\ CurrentKnown'
  <2>1. NoteTypes'
    BY <1>24 DEF LifecycleExpire, NoteTypes, NotificationStatus
  <2>2. DeliveryTypes'
    BY <1>24 DEF LifecycleExpire, DeliveryTypes, DeliveryStatus, TerminalStatus
  <2>3. WorkerTypes'
    BY <1>24
    DEF LifecycleExpire, NoAccountSeen, AccountSnapshot, WorkerTypes, Goto, Labels
  <2>4. OtherTypes'
    BY <1>24 DEF LifecycleExpire, historyVars, boundVars, OtherTypes
  <2>5. CurrentKnown'
    BY <1>0, <1>24 DEF LifecycleExpire, CurrentKnown, InHand, Goto
  <2> QED
    BY <1>24, <2>1, <2>2, <2>3, <2>4, <2>5, SameAccountTypes DEF LifecycleExpire
<1>25. ASSUME Edit PROVE TypeOK' /\ CurrentKnown'
  <2> QED
    BY <1>25, EditTypes, SameWorkerTypes
    DEF Edit, workerVars, localVars, OtherTypes, historyVars, CurrentKnown
<1>26. ASSUME Tick PROVE TypeOK' /\ CurrentKnown'
  <2>1. OtherTypes'
    BY <1>26 DEF Tick, historyVars, boundVars, OtherTypes
  <2> QED
    BY <1>26, <2>1, SameAccountTypes, SameNoteTypes, SameDeliveryTypes, SameWorkerTypes
    DEF Tick, workerVars, localVars, CurrentKnown
<1>27. CASE UNCHANGED vars
  BY <1>27, SameAccountTypes, SameNoteTypes, SameDeliveryTypes, SameWorkerTypes
  DEF vars, OtherTypes, CurrentKnown, workerVars, localVars, historyVars, boundVars
<1> QED
  BY <1>1, <1>2, <1>3, <1>4, <1>5, <1>6, <1>7, <1>8, <1>9, <1>10, <1>11, <1>12, <1>13,
      <1>14, <1>15, <1>16, <1>17, <1>18, <1>19, <1>22, <1>23, <1>24, <1>25, <1>26, <1>27
  DEF Next, CallMoves, WorkerStep, LifecycleStep, Workers

\* Every reachable state is well typed, and a worker past its claim has a delivery.
THEOREM TypeCorrect == Spec => [](TypeOK /\ CurrentKnown)
<1>1. Init => TypeOK /\ CurrentKnown
  BY TypeInit
<1>2. TypeOK /\ CurrentKnown /\ [Next]_vars => TypeOK' /\ CurrentKnown'
  BY TypeNext
<1> QED
  BY <1>1, <1>2, PTL DEF Spec

\* Type correctness of every table and of each worker's locals, for any number of
\* messages, contacts, partners and request threads.
THEOREM TypeInvariant == Spec => []TypeOK
<1>1. TypeOK /\ CurrentKnown => TypeOK
  OBVIOUS
<1> QED
  BY <1>1, TypeCorrect, PTL

-----------------------------------------------------------------------------
(* Cancelled messages.  CancelInv is inductive relative to the types. *)

\* A step that changes no row of interest, erases content at most and takes nothing into
\* a worker's hand.
RowsKept ==
  /\ UNCHANGED <<nstatus, cancelledAt, frozenAt, dstatus, accepted>>
  /\ \A d \in Deliveries : tracking'[d] > 0 => tracking[d] > 0
  /\ accountStatus' # "deleted" => accountStatus # "deleted"
  /\ \A n \in Notifications : payload'[n] => payload[n]

HandsKept == \A d \in Deliveries : InNobodysHand(d) => InNobodysHand(d)'

LEMMA QuietStep ==
  ASSUME CancelInv, RowsKept, HandsKept, LockHeld', StartedKnown', SweepReleased'
  PROVE  CancelInv'
<1>1. RowsTogether' /\ FreshNotes' /\ CancelledErased'
  BY DEF CancelInv, RowsKept, RowsTogether, FreshNotes, CancelledErased, Exists
<1>2. UnreleasedUnsent'
  BY DEF CancelInv, RowsKept, HandsKept, UnreleasedUnsent
<1>3. UnclaimedUnsent' /\ CancelledUnsent'
  BY DEF CancelInv, RowsKept, HandsKept, UnclaimedUnsent, CancelledUnsent, Exists
<1>4. TrackedReleased'
  BY DEF CancelInv, RowsKept, TrackedReleased, Exists
<1> QED
  BY <1>1, <1>2, <1>3, <1>4 DEF CancelInv

\* What holds of workers that a step leaves alone.
LEMMA SameWorkers ==
  ASSUME CancelInv, UNCHANGED <<pc, current, started, batch, toFreeze>>
  PROVE  /\ HandsKept /\ StartedKnown'
         /\ UNCHANGED <<writer, dstatus>> => LockHeld'
         /\ UNCHANGED frozenAt => SweepReleased'
BY DEF CancelInv, HandsKept, InNobodysHand, StartedKnown, LockHeld, SweepReleased

\* While nobody holds the write lock, nobody sends.
LEMMA UnlockedIdle ==
  CancelInv /\ Unlocked => \A w \in Workers : pc[w] \notin {"sending", "sent"}
BY IdentityAssumption DEF IdentityAssumption, CancelInv, LockHeld, Unlocked

LEMMA CancelInit == Init => CancelInv
<1> SUFFICES ASSUME Init PROVE CancelInv
  OBVIOUS
<1>1. RowsTogether /\ FreshNotes /\ CancelledErased
  BY DEF Init, RowsTogether, FreshNotes, CancelledErased, Exists
<1>2. LockHeld /\ StartedKnown /\ SweepReleased
  BY SchedulerIsWorker DEF Init, LockHeld, StartedKnown, SweepReleased
<1>3. UnreleasedUnsent /\ UnclaimedUnsent /\ CancelledUnsent /\ TrackedReleased
  BY DeliveryParts
  DEF Init, UnreleasedUnsent, UnclaimedUnsent, CancelledUnsent, TrackedReleased, Exists,
      InNobodysHand, InHand
<1> QED
  BY <1>1, <1>2, <1>3 DEF CancelInv

\* What the proof of CancelNext needs of the types
Domains ==
  /\ pc \in [Workers -> Labels] /\ current \in [Workers -> Deliveries \cup {NoDelivery}]
  /\ started \in [Workers -> Nat]
  /\ batch \in [Workers -> SUBSET Deliveries]
  /\ toFreeze \in [Workers -> SUBSET Notifications]
  /\ nstatus \in [Notifications -> NotificationStatus]
  /\ payload \in [Notifications -> BOOLEAN]
  /\ cancelledAt \in [Notifications -> Nat] /\ frozenAt \in [Notifications -> Nat]
  /\ dstatus \in [Deliveries -> DeliveryStatus] /\ accepted \in [Deliveries -> Nat]
  /\ tracking \in [Deliveries -> Nat]

LEMMA TypedDomains == TypeOK => Domains
BY DEF TypeOK, WorkerTypes, NoteTypes, DeliveryTypes, OtherTypes, Domains

\* Steps that change no delivery.
LEMMA CancelQuiet ==
  ASSUME TypeOK, CurrentKnown, CancelInv,
         \/ \E w \in Workers : \/ StartCycle(w) \/ ListDue(w) \/ ReadClaim(w) \/ LoseClaim(w)
                               \/ Authorize(w) \/ BeginSend(w) \/ FinishCycle(w)
                               \/ Crash(w) \/ Fail(w)
                               \/ \E n \in Notifications : SkipFreeze(w, n)
                               \/ \E d \in Deliveries : SkipClaim(w, d)
         \/ LifecycleErase \/ LifecycleRead \/ CallMoves \/ Tick \/ UNCHANGED vars
  PROVE  CancelInv'
<1>0. Domains
  BY TypedDomains
<1>1. ASSUME NEW w \in Workers, StartCycle(w) PROVE CancelInv'
  <2>1. RowsKept
    BY <1>1 DEF StartCycle, RowsKept, accountVars, noteVars, deliveryVars, leaseVars, historyVars
  <2>2. HandsKept
    BY <1>0, <1>1 DEF StartCycle, Goto, Domains, HandsKept, InNobodysHand, InHand
  <2>3. LockHeld'
    BY <1>0, <1>1 DEF StartCycle, Goto, Domains, CancelInv, LockHeld, deliveryVars
  <2>4. StartedKnown'
    BY <1>0, <1>1 DEF StartCycle, Goto, Domains, CancelInv, StartedKnown, TypeOK, OtherTypes
  <2>5. SweepReleased'
    BY <1>0, <1>1, SchedulerIsWorker
    DEF StartCycle, Goto, Domains, CancelInv, SweepReleased, noteVars
  <2> QED
    BY <2>1, <2>2, <2>3, <2>4, <2>5, QuietStep
<1>2. ASSUME NEW w \in Workers, NEW n \in Notifications, SkipFreeze(w, n) PROVE CancelInv'
  <2>1. RowsKept
    BY <1>2 DEF SkipFreeze, RowsKept, accountVars, noteVars, deliveryVars, leaseVars, historyVars
  <2>2. HandsKept
    BY <1>0, <1>2 DEF SkipFreeze, Goto, Domains, HandsKept, InNobodysHand, InHand
  <2>3. LockHeld'
    BY <1>0, <1>2 DEF SkipFreeze, Goto, Domains, CancelInv, LockHeld, deliveryVars
  <2>4. StartedKnown'
    BY <1>0, <1>2 DEF SkipFreeze, Goto, Domains, CancelInv, StartedKnown
  <2>5. SweepReleased'
    BY <1>0, <1>2, SchedulerIsWorker
    DEF SkipFreeze, Goto, Domains, CancelInv, SweepReleased, noteVars
  <2> QED
    BY <2>1, <2>2, <2>3, <2>4, <2>5, QuietStep
<1>3. ASSUME NEW w \in Workers, ListDue(w) PROVE CancelInv'
  <2>1. RowsKept
    BY <1>3 DEF ListDue, RowsKept, accountVars, noteVars, deliveryVars, leaseVars, historyVars
  <2>2. HandsKept
    BY <1>0, <1>3 DEF ListDue, Goto, Domains, HandsKept, InNobodysHand, InHand
  <2>3. LockHeld'
    BY <1>0, <1>3 DEF ListDue, Goto, Domains, CancelInv, LockHeld, deliveryVars
  <2>4. StartedKnown'
    BY <1>0, <1>3 DEF ListDue, Goto, Domains, CancelInv, StartedKnown
  <2>5. SweepReleased'
    BY <1>0, <1>3, SchedulerIsWorker
    DEF ListDue, Goto, Domains, CancelInv, SweepReleased, noteVars
  <2> QED
    BY <2>1, <2>2, <2>3, <2>4, <2>5, QuietStep
<1>4. ASSUME NEW w \in Workers, NEW d \in Deliveries, SkipClaim(w, d) PROVE CancelInv'
  <2>1. RowsKept
    BY <1>4 DEF SkipClaim, RowsKept, accountVars, noteVars, deliveryVars, leaseVars, historyVars
  <2>2. HandsKept
    BY <1>0, <1>4 DEF SkipClaim, Goto, Domains, HandsKept, InNobodysHand, InHand
  <2>3. LockHeld'
    BY <1>0, <1>4 DEF SkipClaim, Goto, Domains, CancelInv, LockHeld, deliveryVars
  <2>4. StartedKnown'
    BY <1>0, <1>4 DEF SkipClaim, Goto, Domains, CancelInv, StartedKnown
  <2>5. SweepReleased'
    BY <1>0, <1>4, SchedulerIsWorker
    DEF SkipClaim, Goto, Domains, CancelInv, SweepReleased, noteVars
  <2> QED
    BY <2>1, <2>2, <2>3, <2>4, <2>5, QuietStep
<1>5. ASSUME NEW w \in Workers, ReadClaim(w) PROVE CancelInv'
  <2>1. RowsKept
    BY <1>5 DEF ReadClaim, RowsKept, accountVars, noteVars, deliveryVars, leaseVars, historyVars
  <2>2. HandsKept
    BY <1>0, <1>5 DEF ReadClaim, Goto, Domains, HandsKept, InNobodysHand, InHand
  <2>3. LockHeld'
    BY <1>0, <1>5 DEF ReadClaim, Goto, Domains, CancelInv, LockHeld, deliveryVars
  <2>4. StartedKnown'
    BY <1>0, <1>5 DEF ReadClaim, Goto, Domains, CancelInv, StartedKnown
  <2>5. SweepReleased'
    BY <1>0, <1>5, SchedulerIsWorker
    DEF ReadClaim, Goto, Domains, CancelInv, SweepReleased, noteVars
  <2> QED
    BY <2>1, <2>2, <2>3, <2>4, <2>5, QuietStep
<1>6. ASSUME NEW w \in Workers, LoseClaim(w) PROVE CancelInv'
  <2>1. RowsKept
    BY <1>6 DEF LoseClaim, RowsKept, accountVars, noteVars, deliveryVars, leaseVars, historyVars
  <2>2. HandsKept
    BY <1>0, <1>6
    DEF LoseClaim, NextDelivery, Goto, Domains, HandsKept, InNobodysHand, InHand
  <2>3. LockHeld'
    BY <1>0, <1>6
    DEF LoseClaim, NextDelivery, Goto, Domains, CancelInv, LockHeld, deliveryVars
  <2>4. StartedKnown'
    BY <1>0, <1>6 DEF LoseClaim, NextDelivery, Goto, Domains, CancelInv, StartedKnown
  <2>5. SweepReleased'
    BY <1>0, <1>6, SchedulerIsWorker
    DEF LoseClaim, NextDelivery, Goto, Domains, CancelInv, SweepReleased, noteVars
  <2> QED
    BY <2>1, <2>2, <2>3, <2>4, <2>5, QuietStep
<1>7. ASSUME NEW w \in Workers, Authorize(w) PROVE CancelInv'
  <2>1. RowsKept
    BY <1>7 DEF Authorize, RowsKept, accountVars, noteVars, deliveryVars, leaseVars, historyVars
  <2>2. HandsKept
    BY <1>0, <1>7 DEF Authorize, Goto, Domains, HandsKept, InNobodysHand, InHand
  <2>3. LockHeld'
    BY <1>0, <1>7 DEF Authorize, Goto, Domains, CancelInv, LockHeld, deliveryVars
  <2>4. StartedKnown'
    BY <1>0, <1>7 DEF Authorize, Goto, Domains, CancelInv, StartedKnown
  <2>5. SweepReleased'
    BY <1>0, <1>7, SchedulerIsWorker
    DEF Authorize, Goto, Domains, CancelInv, SweepReleased, noteVars
  <2> QED
    BY <2>1, <2>2, <2>3, <2>4, <2>5, QuietStep
<1>8. ASSUME NEW w \in Workers, BeginSend(w) PROVE CancelInv'
  <2>1. RowsKept
    BY <1>8 DEF BeginSend, RowsKept, accountVars, noteVars, deliveryVars, leaseVars, historyVars
  <2>2. HandsKept
    BY <1>0, <1>8 DEF BeginSend, Goto, Domains, HandsKept, InNobodysHand, InHand
  <2>3. LockHeld'
    BY <1>0, <1>8, UnlockedIdle
    DEF BeginSend, Goto, Domains, CancelInv, LockHeld, deliveryVars
  <2>4. StartedKnown'
    BY <1>0, <1>8 DEF BeginSend, Goto, Domains, CancelInv, StartedKnown
  <2>5. SweepReleased'
    BY <1>0, <1>8, SchedulerIsWorker
    DEF BeginSend, Goto, Domains, CancelInv, SweepReleased, noteVars
  <2> QED
    BY <2>1, <2>2, <2>3, <2>4, <2>5, QuietStep
<1>9. ASSUME NEW w \in Workers, FinishCycle(w) PROVE CancelInv'
  <2>1. RowsKept
    BY <1>9 DEF FinishCycle, RowsKept, accountVars, noteVars, deliveryVars, leaseVars, historyVars
  <2>2. HandsKept
    BY <1>0, <1>9 DEF FinishCycle, Goto, Domains, HandsKept, InNobodysHand, InHand
  <2>3. LockHeld'
    BY <1>0, <1>9 DEF FinishCycle, Goto, Domains, CancelInv, LockHeld, deliveryVars
  <2>4. StartedKnown'
    BY <1>0, <1>9 DEF FinishCycle, Goto, Domains, CancelInv, StartedKnown
  <2>5. SweepReleased'
    BY <1>0, <1>9, SchedulerIsWorker
    DEF FinishCycle, Goto, Domains, CancelInv, SweepReleased, noteVars
  <2> QED
    BY <2>1, <2>2, <2>3, <2>4, <2>5, QuietStep
<1>10. ASSUME NEW w \in Workers, Crash(w) PROVE CancelInv'
  <2>1. RowsKept
    BY <1>10 DEF Crash, RowsKept, accountVars, noteVars, deliveryVars, leaseVars, historyVars
  <2>2. HandsKept
    BY <1>0, <1>10 DEF Crash, Abandon, Goto, Domains, HandsKept, InNobodysHand, InHand
  <2>3. LockHeld'
    BY <1>0, <1>10 DEF Crash, Abandon, Goto, Domains, CancelInv, LockHeld, deliveryVars
  <2>4. StartedKnown'
    BY <1>0, <1>10 DEF Crash, Abandon, Goto, Domains, CancelInv, StartedKnown
  <2>5. SweepReleased'
    BY <1>0, <1>10, SchedulerIsWorker
    DEF Crash, Abandon, Goto, Domains, CancelInv, SweepReleased, noteVars
  <2> QED
    BY <2>1, <2>2, <2>3, <2>4, <2>5, QuietStep
<1>11. ASSUME NEW w \in Workers, Fail(w) PROVE CancelInv'
  <2>1. RowsKept
    BY <1>11 DEF Fail, RowsKept, accountVars, noteVars, deliveryVars, leaseVars, historyVars
  <2>2. HandsKept
    BY <1>0, <1>11 DEF Fail, Abandon, Goto, Domains, HandsKept, InNobodysHand, InHand
  <2>3. LockHeld'
    BY <1>0, <1>11 DEF Fail, Abandon, Goto, Domains, CancelInv, LockHeld, deliveryVars
  <2>4. StartedKnown'
    BY <1>0, <1>11 DEF Fail, Abandon, Goto, Domains, CancelInv, StartedKnown
  <2>5. SweepReleased'
    BY <1>0, <1>11, SchedulerIsWorker
    DEF Fail, Abandon, Goto, Domains, CancelInv, SweepReleased, noteVars
  <2> QED
    BY <2>1, <2>2, <2>3, <2>4, <2>5, QuietStep
<1>12. ASSUME LifecycleErase PROVE CancelInv'
  <2>1. RowsKept
    <3>1. \A n \in Notifications : payload'[n] => payload[n]
      BY <1>0, <1>12 DEF LifecycleErase, Domains
    <3>2. accountStatus' # "deleted" => accountStatus # "deleted"
      BY <1>12 DEF LifecycleErase, LifecycleStages
    <3> QED
      BY <1>12, <3>1, <3>2 DEF LifecycleErase, RowsKept, deliveryVars, leaseVars, historyVars
  <2>2. HandsKept
    BY <1>0, <1>12, SchedulerIsWorker
    DEF LifecycleErase, Goto, localVars, Domains, HandsKept, InNobodysHand, InHand
  <2>3. LockHeld'
    BY <1>0, <1>12, UnlockedIdle, SchedulerIsWorker
    DEF LifecycleErase, Goto, Domains, LockHeld
  <2>4. StartedKnown' /\ SweepReleased'
    BY <1>0, <1>12, SchedulerIsWorker
    DEF LifecycleErase, Goto, localVars, Domains, CancelInv, StartedKnown, SweepReleased
  <2> QED
    BY <2>1, <2>2, <2>3, <2>4, QuietStep
<1>13. ASSUME LifecycleRead PROVE CancelInv'
  <2>1. RowsKept
    BY <1>13 DEF LifecycleRead, RowsKept, accountVars, noteVars, deliveryVars, leaseVars, historyVars
  <2>2. HandsKept
    BY <1>0, <1>13, SchedulerIsWorker
    DEF LifecycleRead, Goto, Domains, HandsKept, InNobodysHand, InHand
  <2>3. LockHeld' /\ StartedKnown'
    BY <1>0, <1>13, SchedulerIsWorker
    DEF LifecycleRead, Goto, deliveryVars, Domains, CancelInv, LockHeld, StartedKnown
  <2>4. SweepReleased'
    <3>1. \A d \in batch'[Scheduler] :
            d \in Deliveries /\ dstatus[d] # "none" /\ Note(d) \in toFreeze'[Scheduler]
      BY <1>0, <1>13, SchedulerIsWorker DEF LifecycleRead, Domains, OpenStatus
    <3> QED
      BY <1>13, <3>1 DEF LifecycleRead, noteVars, CancelInv, UnreleasedUnsent, SweepReleased
  <2> QED
    BY <2>1, <2>2, <2>3, <2>4, QuietStep
<1>14. ASSUME CallMoves PROVE CancelInv'
  <2>1. \A n \in Notifications : payload'[n] => payload[n]
    BY <1>0, <1>14, CallErases DEF Domains
  <2>2. RowsKept
    BY <1>14, <2>1, CallShape DEF RowsKept, deliveryVars, leaseVars, historyVars
  <2> QED
    BY <1>14, <2>2, CallShape, SameWorkers, QuietStep
    DEF workerVars, localVars, deliveryVars
<1>17. ASSUME Tick PROVE CancelInv'
  <2>1. RowsKept
    BY <1>0, <1>17 DEF Tick, RowsKept, accountVars, noteVars, deliveryVars, leaseVars, historyVars
  <2> QED
    BY <1>17, <2>1, SameWorkers, QuietStep
    DEF Tick, workerVars, localVars, noteVars, deliveryVars
<1>18. ASSUME UNCHANGED vars PROVE CancelInv'
  <2>1. RowsKept
    BY <1>0, <1>18 DEF vars, RowsKept, accountVars, noteVars, deliveryVars, leaseVars, historyVars
  <2> QED
    BY <1>18, <2>1, SameWorkers, QuietStep
    DEF vars, workerVars, localVars, noteVars, deliveryVars
<1> QED
  BY <1>1, <1>2, <1>3, <1>4, <1>5, <1>6, <1>7, <1>8, <1>9, <1>10, <1>11, <1>12, <1>13,
      <1>14, <1>17, <1>18

\* A worker about to record a result has an existing, uncancelled delivery in hand.
LEMMA HandOnLiveRow ==
  ASSUME TypeOK, CurrentKnown, CancelInv, NEW w \in Workers, pc[w] \in InHand,
         dstatus[current[w]] # "none"
  PROVE  /\ current[w] \in Deliveries
         /\ Exists(Note(current[w]))
         /\ frozenAt[Note(current[w])] # 0
         /\ cancelledAt[Note(current[w])] = 0
<1>1. current[w] \in Deliveries
  BY DEF CurrentKnown
<1>2. Exists(Note(current[w])) /\ frozenAt[Note(current[w])] # 0
  BY <1>1 DEF CancelInv, RowsTogether, UnreleasedUnsent
<1>3. cancelledAt[Note(current[w])] = 0
  BY <1>1, <1>2 DEF CancelInv, CancelledUnsent, InNobodysHand
<1> QED
  BY <1>1, <1>2, <1>3

\* Recording a result moves one live delivery to a status after its claim and rewrites its
\* message's status.
LEMMA RecordStep ==
  ASSUME TypeOK, CurrentKnown, CancelInv, NEW w \in Workers, pc[w] \in InHand,
         dstatus[current[w]] # "none",
         NEW s \in DeliveryStatus \ {"none", "pending"},
         dstatus' = [dstatus EXCEPT ![current[w]] = s],
         Restate(w, Note(current[w])),
         UNCHANGED <<accountStatus, payload, cancelledAt, frozenAt, accepted>>,
         \A e \in Deliveries : tracking'[e] > 0 => tracking[e] > 0 \/ e = current[w],
         NextDelivery(w), LockHeld'
  PROVE  CancelInv'
<1> DEFINE d == current[w]
<1>0. Domains
  BY TypedDomains
<1>1. d \in Deliveries /\ Exists(Note(d)) /\ frozenAt[Note(d)] # 0 /\ cancelledAt[Note(d)] = 0
  BY HandOnLiveRow
<1>2. Note(d) \in Notifications
  BY <1>1, DeliveryParts
<1>3. /\ \A n \in Notifications : Exists(n)' <=> Exists(n)
      /\ \A n \in Notifications \ {Note(d)} : nstatus'[n] = nstatus[n]
  BY <1>0, <1>1, <1>2, AggregateType DEF Restate, StatusWritten, Exists, Domains
<1>4. HandsKept
  BY <1>0 DEF NextDelivery, Goto, Domains, HandsKept, InNobodysHand, InHand
<1>5. StartedKnown' /\ SweepReleased'
  BY <1>0, SchedulerIsWorker
  DEF NextDelivery, Goto, Domains, CancelInv, StartedKnown, SweepReleased
<1>6. \A e \in Deliveries : dstatus'[e] = IF e = d THEN s ELSE dstatus[e]
  BY <1>0 DEF Domains
<1>7. RowsTogether' /\ FreshNotes'
  BY <1>1, <1>3, <1>6, DeliveryParts DEF CancelInv, RowsTogether, FreshNotes
<1>8. UnreleasedUnsent'
  BY <1>1, <1>4, <1>6 DEF CancelInv, UnreleasedUnsent, HandsKept
<1>9. UnclaimedUnsent' /\ CancelledUnsent'
  BY <1>1, <1>3, <1>4, <1>6, DeliveryParts
  DEF CancelInv, UnclaimedUnsent, CancelledUnsent, HandsKept
<1>10. CancelledErased'
  BY <1>1, <1>3 DEF CancelInv, CancelledErased
<1>11. TrackedReleased'
  BY <1>1, <1>2, <1>3, <1>6, DeliveryParts DEF CancelInv, TrackedReleased
<1> QED
  BY <1>5, <1>7, <1>8, <1>9, <1>10, <1>11 DEF CancelInv

\* The administrative changes.
LEMMA CancelEdit == ASSUME TypeOK, CancelInv, Edit PROVE CancelInv'
<1>0. Domains
  BY TypedDomains
<1>1. /\ UNCHANGED <<pc, current, started, batch, toFreeze, writer, accepted>>
      /\ \A w \in Workers : pc[w] \notin {"sending", "sent"}
  BY UnlockedIdle DEF Edit, workerVars, localVars, historyVars
<1>2. HandsKept /\ StartedKnown'
  BY <1>1, SameWorkers
<1>3. LockHeld'
  BY <1>1 DEF LockHeld
<1>4. ASSUME UNCHANGED <<noteVars, deliveryVars>>,
             accountStatus' # "deleted" => accountStatus # "deleted"
      PROVE  CancelInv'
  <2>1. RowsKept
    BY <1>1, <1>4 DEF RowsKept, noteVars, deliveryVars, leaseVars
  <2>2. SweepReleased'
    BY <1>1, <1>4, SameWorkers DEF noteVars
  <2> QED
    BY <1>2, <1>3, <2>1, <2>2, QuietStep
<1>5. ASSUME NEW d \in Deliveries, Bounce(d) PROVE CancelInv'
  <2>1. Exists(Note(d)) /\ cancelledAt[Note(d)] = 0 /\ Note(d) \in Notifications
    BY <1>5, DeliveryParts DEF Bounce, CancelInv, TrackedReleased
  <2>2. /\ \A n \in Notifications : Exists(n)' <=> Exists(n)
        /\ \A n \in Notifications \ {Note(d)} : nstatus'[n] = nstatus[n]
    BY <1>0, <1>5, <2>1, AggregateType DEF Bounce, Exists, Domains
  <2>3. \A e \in Deliveries : dstatus'[e] = IF e = d THEN "permanent_failure" ELSE dstatus[e]
    BY <1>0, <1>5 DEF Bounce, Domains
  <2>4. UNCHANGED <<accountStatus, payload, cancelledAt, frozenAt>>
    BY <1>5 DEF Bounce
  <2>5. RowsTogether' /\ FreshNotes'
    BY <2>1, <2>2, <2>3, <2>4, DeliveryParts DEF CancelInv, RowsTogether, FreshNotes
  <2>6. UnreleasedUnsent'
    BY <1>1, <1>2, <1>5, <2>3, <2>4
    DEF Bounce, CancelInv, TrackedReleased, UnreleasedUnsent, HandsKept
  <2>7. UnclaimedUnsent' /\ CancelledUnsent'
    BY <1>1, <1>2, <2>1, <2>2, <2>3, <2>4, DeliveryParts
    DEF CancelInv, UnclaimedUnsent, CancelledUnsent, HandsKept
  <2>8. CancelledErased'
    BY <2>1, <2>2, <2>4 DEF CancelInv, CancelledErased
  <2>9. SweepReleased'
    BY <1>1, <2>4, SameWorkers
  <2>10. TrackedReleased'
    <3>1. \A e \in Deliveries : tracking'[e] > 0 => tracking[e] > 0
      BY <1>0, <1>5 DEF Bounce, Domains
    <3> QED
      BY <2>2, <2>3, <2>4, <3>1, DeliveryParts DEF CancelInv, TrackedReleased
  <2> QED
    BY <1>2, <1>3, <2>5, <2>6, <2>7, <2>8, <2>9, <2>10 DEF CancelInv
<1>6. ASSUME NEW status \in AccountStatus \ {"deleted"}, NEW locked \in BOOLEAN,
             accountStatus # "deleted", ChangeAccount(status, locked)
      PROVE  CancelInv'
  BY <1>4, <1>6 DEF ChangeAccount
<1>7. CASE DisableAdministratively
  BY <1>6, <1>7 DEF DisableAdministratively, AccountStatus
<1>8. CASE FinishReview
  <2>1. adminLocked \in BOOLEAN
    BY DEF TypeOK, AccountTypes
  <2> QED
    BY <1>6, <1>8, <2>1 DEF FinishReview, AccountStatus
<1>9. CASE DeleteAccount
  <2>1. /\ \A n \in Notifications : ~Exists(n)'
        /\ \A d \in Deliveries : dstatus'[d] = "none"
        /\ \A d \in Deliveries : tracking'[d] = 0
        /\ accountStatus' = "deleted" /\ UNCHANGED frozenAt
    BY <1>9 DEF DeleteAccount, Exists
  <2>2. RowsTogether' /\ FreshNotes' /\ CancelledErased'
    BY <2>1 DEF RowsTogether, FreshNotes, CancelledErased
  <2>3. UnreleasedUnsent'
    BY <1>1, <1>2, <2>1 DEF CancelInv, UnreleasedUnsent, HandsKept
  <2>4. UnclaimedUnsent' /\ CancelledUnsent' /\ TrackedReleased'
    BY <2>1, DeliveryParts DEF UnclaimedUnsent, CancelledUnsent, TrackedReleased
  <2>5. SweepReleased'
    BY <1>1, <2>1, SameWorkers
  <2> QED
    BY <1>2, <1>3, <2>2, <2>3, <2>4, <2>5 DEF CancelInv
<1>10. ASSUME NEW c \in Contacts, SetVerified(c) \/ DeleteContact(c) PROVE CancelInv'
  BY <1>4, <1>10 DEF SetVerified, DeleteContact
<1>11. ASSUME NEW p \in Partners, DeletePartner(p) \/ SetPartnerEnrolled(p) PROVE CancelInv'
  BY <1>4, <1>11 DEF DeletePartner, SetPartnerEnrolled
<1> QED
  BY <1>5, <1>7, <1>8, <1>9, <1>10, <1>11 DEF Edit

LEMMA CancelNext ==
  TypeOK /\ CurrentKnown /\ CancelInv /\ [Next]_vars => CancelInv'
<1> SUFFICES ASSUME TypeOK, CurrentKnown, CancelInv, [Next]_vars PROVE CancelInv'
  OBVIOUS
<1>0. Domains
  BY TypedDomains
<1>1. ASSUME NEW w \in Workers, NEW n \in Notifications, Accept(w, n) PROVE CancelInv'
  <2>1. /\ ~Exists(n) /\ cancelledAt[n] = 0 /\ frozenAt[n] = 0
        /\ UNCHANGED <<cancelledAt, frozenAt, dstatus, tracking, accepted, accountStatus,
                       writer>>
    BY <1>1
    DEF Accept, Allows, AccountNow, CancelInv, FreshNotes, deliveryVars, leaseVars,
        historyVars, accountVars
  <2>2. \A m \in Notifications : m # n => nstatus'[m] = nstatus[m] /\ payload'[m] = payload[m]
    BY <1>0, <1>1 DEF Accept, Domains
  <2>3. Exists(n)'
    BY <1>0, <1>1 DEF Accept, Exists, Domains
  <2>4. HandsKept
    BY <1>0, <1>1 DEF Accept, Goto, localVars, Domains, HandsKept, InNobodysHand, InHand
  <2>5. LockHeld' /\ StartedKnown' /\ SweepReleased'
    BY <1>0, <1>1, <2>1, SchedulerIsWorker
    DEF Accept, Goto, localVars, Domains, CancelInv, LockHeld, StartedKnown, SweepReleased
  <2>6. RowsTogether' /\ FreshNotes' /\ CancelledErased'
    BY <2>1, <2>2, <2>3, DeliveryParts
    DEF CancelInv, RowsTogether, FreshNotes, CancelledErased, Exists
  <2>7. UnreleasedUnsent'
    BY <2>1, <2>4 DEF CancelInv, UnreleasedUnsent, HandsKept
  <2>8. UnclaimedUnsent' /\ CancelledUnsent'
    BY <2>1, <2>2, <2>4, <2>7, DeliveryParts
    DEF CancelInv, UnreleasedUnsent, UnclaimedUnsent, CancelledUnsent, HandsKept, Exists
  <2>9. TrackedReleased'
    BY <2>1, <2>2, DeliveryParts DEF CancelInv, TrackedReleased, Exists
  <2> QED
    BY <2>5, <2>6, <2>7, <2>8, <2>9 DEF CancelInv
<1>2. ASSUME NEW n \in Notifications, Cancel(n) PROVE CancelInv'
  <2>1. /\ UNCHANGED <<pc, current, started, batch, toFreeze, writer, accepted, frozenAt,
                       accountStatus>>
        /\ \A w \in Workers : pc[w] \notin {"sending", "sent"}
    BY <1>2, UnlockedIdle DEF Cancel, workerVars, localVars, historyVars, accountVars
  <2>2. /\ nstatus[n] = "queued" /\ nstatus'[n] = "discarded" /\ ~payload'[n]
        /\ \A m \in Notifications : m # n => /\ nstatus'[m] = nstatus[m]
                                             /\ payload'[m] = payload[m]
                                             /\ cancelledAt'[m] = cancelledAt[m]
    BY <1>0, <1>2 DEF Cancel, Domains
  <2>3. \A m \in Notifications : Exists(m)' <=> Exists(m)
    BY <2>2 DEF Exists
  <2>4. \A d \in Deliveries :
          /\ Note(d) # n => dstatus'[d] = dstatus[d]
          /\ Note(d) = n => /\ dstatus[d] \in {"none", "pending"}
                            /\ dstatus'[d] \in {"none", "cancelled"}
                            /\ dstatus'[d] = "none" <=> dstatus[d] = "none"
    BY <1>2, DeliveryParts DEF Cancel, NothingStarted
  <2>5. HandsKept /\ StartedKnown' /\ SweepReleased' /\ LockHeld'
    BY <2>1, SameWorkers DEF LockHeld
  <2>6. RowsTogether' /\ FreshNotes' /\ CancelledErased'
    BY <2>1, <2>2, <2>3, <2>4, DeliveryParts
    DEF CancelInv, RowsTogether, FreshNotes, CancelledErased, Exists
  <2>7. UnreleasedUnsent' /\ UnclaimedUnsent'
    BY <2>1, <2>3, <2>4, <2>5, DeliveryParts
    DEF CancelInv, UnreleasedUnsent, UnclaimedUnsent, HandsKept
  <2>8. CancelledUnsent'
    BY <2>1, <2>2, <2>3, <2>4, <2>5, DeliveryParts
    DEF CancelInv, UnclaimedUnsent, CancelledUnsent, HandsKept, Exists
  <2>9. TrackedReleased'
    <3>1. UNCHANGED tracking
      BY <1>2 DEF Cancel, leaseVars
    <3> QED
      BY <2>1, <2>2, <2>3, <2>4, <3>1, DeliveryParts DEF CancelInv, TrackedReleased
  <2> QED
    BY <2>5, <2>6, <2>7, <2>8, <2>9 DEF CancelInv
<1>3. ASSUME NEW w \in Workers, NEW n \in Notifications, Freeze(w, n) PROVE CancelInv'
  <2>1. Exists(n) /\ cancelledAt[n] = 0 /\ frozenAt[n] = 0 /\ started[w] # 0
    BY <1>3 DEF Freeze, StillFreezable, Released, CancelInv, StartedKnown
  <2>2. /\ UNCHANGED <<pc, current, started, batch, writer, accepted, payload, cancelledAt,
                       accountStatus>>
        /\ \A v \in Workers : pc[v] \notin {"sending", "sent"}
    BY <1>3, UnlockedIdle DEF Freeze, historyVars, accountVars
  <2>3. /\ \A m \in Notifications : Exists(m)' <=> Exists(m)
        /\ \A m \in Notifications : m # n => nstatus'[m] = nstatus[m] /\ frozenAt'[m] = frozenAt[m]
        /\ frozenAt'[n] # 0
    BY <1>0, <1>3, <2>1 DEF Freeze, Exists, Domains
  <2>4. \A d \in Deliveries : /\ Note(d) # n => dstatus'[d] = dstatus[d]
                              /\ Note(d) = n => dstatus'[d] \in {"none", "pending"}
    BY <1>3, <2>1 DEF Freeze, CancelInv, UnreleasedUnsent
  <2>5. HandsKept
    BY <2>2 DEF HandsKept, InNobodysHand
  <2>6. LockHeld' /\ StartedKnown'
    BY <2>2 DEF CancelInv, LockHeld, StartedKnown
  <2>7. SweepReleased'
    <3>1. pc[Scheduler] = "expiring" => w # Scheduler
      BY <1>3 DEF Freeze
    <3>2. pc[Scheduler] = "expiring" => toFreeze'[Scheduler] = toFreeze[Scheduler]
      BY <1>0, <1>3, <3>1, SchedulerIsWorker DEF Freeze, Domains
    <3> QED
      BY <1>0, <2>2, <2>3, <3>2, SchedulerIsWorker, DeliveryParts
      DEF CancelInv, SweepReleased, Domains
  <2>8. RowsTogether' /\ FreshNotes'
    BY <2>1, <2>2, <2>3, <2>4, DeliveryParts DEF CancelInv, RowsTogether, FreshNotes
  <2>9. UnreleasedUnsent'
    BY <2>2, <2>3, <2>4, <2>5, DeliveryParts DEF CancelInv, UnreleasedUnsent, HandsKept
  <2>10. UnclaimedUnsent'
    BY <2>1, <2>2, <2>3, <2>4, <2>5, DeliveryParts
    DEF CancelInv, UnreleasedUnsent, UnclaimedUnsent, HandsKept
  <2>11. CancelledErased' /\ CancelledUnsent'
    BY <2>1, <2>2, <2>3, <2>4, <2>5, DeliveryParts
    DEF CancelInv, CancelledErased, CancelledUnsent, HandsKept
  <2>12. TrackedReleased'
    <3>1. UNCHANGED tracking
      BY <1>3 DEF Freeze, leaseVars
    <3> QED
      BY <2>1, <2>2, <2>3, <2>4, <3>1, DeliveryParts DEF CancelInv, TrackedReleased
  <2> QED
    BY <2>6, <2>7, <2>8, <2>9, <2>10, <2>11, <2>12 DEF CancelInv
<1>4. ASSUME NEW w \in Workers, NEW d \in Deliveries, Claim(w, d) PROVE CancelInv'
  <2>1. /\ Exists(Note(d)) /\ cancelledAt[Note(d)] = 0
        /\ dstatus[d] \notin {"none", "cancelled"} /\ frozenAt[Note(d)] # 0
    BY <1>4 DEF Claim, Due, Released, Claimable, CancelInv, UnreleasedUnsent
  <2>2. UNCHANGED <<nstatus, payload, cancelledAt, frozenAt, accepted, accountStatus, writer>>
    BY <1>4 DEF Claim, noteVars, historyVars, accountVars
  <2>3. \A e \in Deliveries : dstatus'[e] = IF e = d THEN "processing" ELSE dstatus[e]
    BY <1>0, <1>4 DEF Claim, Domains
  <2>4. \A e \in Deliveries : e # d /\ InNobodysHand(e) => InNobodysHand(e)'
    BY <1>0, <1>4 DEF Claim, Goto, Domains, InNobodysHand, InHand
  <2>5. LockHeld'
    BY <1>0, <1>4, UnlockedIdle DEF Claim, Goto, Domains, LockHeld
  <2>6. StartedKnown' /\ SweepReleased'
    BY <1>0, <1>4, <2>2, SchedulerIsWorker
    DEF Claim, Goto, Domains, CancelInv, StartedKnown, SweepReleased
  <2>7. RowsTogether' /\ FreshNotes' /\ CancelledErased'
    BY <2>1, <2>2, <2>3 DEF CancelInv, RowsTogether, FreshNotes, CancelledErased, Exists
  <2>8. UnreleasedUnsent'
    BY <2>1, <2>2, <2>3, <2>4 DEF CancelInv, UnreleasedUnsent
  <2>9. UnclaimedUnsent' /\ CancelledUnsent'
    BY <2>1, <2>2, <2>3, <2>4 DEF CancelInv, UnclaimedUnsent, CancelledUnsent, Exists
  <2>10. TrackedReleased'
    <3>1. UNCHANGED tracking
      BY <1>4 DEF Claim
    <3> QED
      BY <2>1, <2>2, <2>3, <3>1, DeliveryParts DEF CancelInv, TrackedReleased, Exists
  <2> QED
    BY <2>5, <2>6, <2>7, <2>8, <2>9, <2>10 DEF CancelInv
<1>5. ASSUME NEW w \in Workers, Reject(w) PROVE CancelInv'
  <2>1. pc[w] \in InHand /\ dstatus[current[w]] # "none"
    BY <1>5 DEF Reject, InHand
  <2>2. LockHeld'
    BY <1>0, <1>5, UnlockedIdle DEF Reject, NextDelivery, Goto, Domains, LockHeld
  <2> QED
    BY <1>5, <2>1, <2>2, RecordStep
    DEF Reject, accountVars, historyVars, DeliveryStatus, TerminalStatus
<1>6. ASSUME NEW w \in Workers, Send(w) PROVE CancelInv'
  <2> DEFINE d == current[w]
  <2>1. pc[w] \in InHand /\ dstatus[d] # "none"
    BY <1>6 DEF Send, InHand, CancelInv, LockHeld
  <2>2. d \in Deliveries /\ Exists(Note(d)) /\ cancelledAt[Note(d)] = 0 /\ frozenAt[Note(d)] # 0
    BY <2>1, HandOnLiveRow
  <2>3. /\ UNCHANGED <<nstatus, payload, cancelledAt, frozenAt, dstatus, accountStatus, writer,
                       current, started, batch, toFreeze>>
        /\ \A e \in Deliveries : e # d => accepted'[e] = accepted[e]
    BY <1>6 DEF Send, noteVars, deliveryVars, accountVars, historyVars, TypeOK, OtherTypes
  <2>4. HandsKept
    BY <1>0, <1>6 DEF Send, Goto, Domains, HandsKept, InNobodysHand, InHand
  <2>5. LockHeld' /\ StartedKnown' /\ SweepReleased'
    BY <1>0, <1>6, <2>3, SchedulerIsWorker
    DEF Send, Goto, Domains, CancelInv, LockHeld, StartedKnown, SweepReleased
  <2>6. RowsTogether' /\ FreshNotes' /\ CancelledErased'
    BY <2>3 DEF CancelInv, RowsTogether, FreshNotes, CancelledErased, Exists
  <2>7. UnreleasedUnsent' /\ CancelledUnsent'
    BY <2>2, <2>3, <2>4 DEF CancelInv, UnreleasedUnsent, CancelledUnsent, HandsKept, Exists
  <2>8. UnclaimedUnsent'
    BY <2>1, <2>2, <2>3, <2>4
    DEF CancelInv, UnclaimedUnsent, HandsKept, InNobodysHand, Exists
  <2>9. TrackedReleased'
    <3>1. UNCHANGED tracking
      BY <1>6 DEF Send, deliveryVars, leaseVars
    <3> QED
      BY <2>3, <3>1 DEF CancelInv, TrackedReleased, Exists
  <2> QED
    BY <2>5, <2>6, <2>7, <2>8, <2>9 DEF CancelInv
<1>7. ASSUME NEW w \in Workers, Commit(w) PROVE CancelInv'
  <2>1. pc[w] \in InHand /\ dstatus[current[w]] # "none"
    BY <1>7 DEF Commit, InHand, CancelInv, LockHeld
  <2>2. Outcome(w) \in DeliveryStatus \ {"none", "pending"}
    BY DEF Outcome, DeliveryStatus, OpenStatus, TerminalStatus
  <2>3. LockHeld'
    BY <1>0, <1>7 DEF Commit, NextDelivery, Goto, Domains, CancelInv, LockHeld
  <2>4. \A e \in Deliveries : tracking'[e] > 0 => tracking[e] > 0 \/ e = current[w]
    BY <1>0, <1>7 DEF Commit, Domains
  <2> QED
    BY <1>7, <2>1, <2>2, <2>3, <2>4, RecordStep DEF Commit, historyVars
<1>8. ASSUME LifecycleExpire PROVE CancelInv'
  <2>1. /\ UNCHANGED <<accountStatus, cancelledAt, frozenAt, accepted, current>>
        /\ pc[Scheduler] = "expiring"
        /\ \A n \in Notifications :
             /\ payload'[n] => payload[n]
             /\ nstatus'[n] = IF n \in toFreeze[Scheduler] THEN "discarded" ELSE nstatus[n]
        /\ \A n \in toFreeze[Scheduler] : Exists(n)
        /\ \A d \in Deliveries :
             dstatus'[d] = IF d \in batch[Scheduler] THEN "cancelled" ELSE dstatus[d]
    BY <1>8 DEF LifecycleExpire, accountVars, historyVars
  <2>2. \A n \in Notifications : Exists(n)' <=> Exists(n)
    BY <2>1 DEF Exists
  <2>3. \A d \in Deliveries : d \in batch[Scheduler] => Exists(Note(d)) /\ frozenAt[Note(d)] # 0
    BY <2>1 DEF CancelInv, SweepReleased
  <2>4. HandsKept
    BY <1>0, <1>8, SchedulerIsWorker
    DEF LifecycleExpire, Goto, Domains, HandsKept, InNobodysHand, InHand
  <2>5. LockHeld'
    <3>1. \A w \in Workers : pc[w] \notin {"sending", "sent"}
      BY <1>8, UnlockedIdle, SchedulerIsWorker
      DEF LifecycleExpire, CancelInv, LockHeld, Unlocked
    <3> QED
      BY <1>0, <1>8, <3>1 DEF LifecycleExpire, Goto, Domains, LockHeld
  <2>6. StartedKnown' /\ SweepReleased'
    BY <1>0, <1>8, SchedulerIsWorker
    DEF LifecycleExpire, Goto, Domains, CancelInv, StartedKnown, SweepReleased
  <2>7. RowsTogether' /\ FreshNotes' /\ CancelledErased'
    BY <2>1, <2>2, <2>3, DeliveryParts
    DEF CancelInv, RowsTogether, FreshNotes, CancelledErased
  <2>8. UnreleasedUnsent'
    BY <2>1, <2>3, <2>4 DEF CancelInv, UnreleasedUnsent, HandsKept
  <2>9. UnclaimedUnsent' /\ CancelledUnsent'
    BY <2>1, <2>2, <2>4, DeliveryParts
    DEF CancelInv, UnclaimedUnsent, CancelledUnsent, HandsKept
  <2>10. TrackedReleased'
    <3>1. UNCHANGED tracking
      BY <1>8 DEF LifecycleExpire
    <3> QED
      BY <2>1, <2>2, <3>1, DeliveryParts DEF CancelInv, TrackedReleased
  <2> QED
    BY <2>5, <2>6, <2>7, <2>8, <2>9, <2>10 DEF CancelInv
<1> QED
  BY <1>1, <1>2, <1>3, <1>4, <1>5, <1>6, <1>7, <1>8, CancelQuiet, CancelEdit
  DEF Next, CallMoves, WorkerStep, LifecycleStep, Workers

\* Whatever the interleaving of cancellation, release, claims, crashes and maintenance, a
\* cancelled message keeps no content and none of its notices is or was sent.
THEOREM CancelledIsNeverSent == Spec => []CancelledNeverSent
<1> DEFINE IInv == TypeOK /\ CurrentKnown /\ CancelInv
<1>1. Init => IInv
  BY TypeInit, CancelInit
<1>2. IInv /\ [Next]_vars => IInv'
  BY TypeNext, CancelNext
<1>3. IInv => CancelledNeverSent
  <2> SUFFICES ASSUME IInv, NEW n \in Notifications, Exists(n), cancelledAt[n] # 0
               PROVE  /\ ~payload[n] /\ nstatus[n] = "discarded"
                      /\ \A c \in Contacts : /\ dstatus[<<n, c>>] \in {"none", "cancelled"}
                                             /\ accepted[<<n, c>>] = 0
                      /\ \A w \in Workers : pc[w] \in Sending => Note(current[w]) # n
    BY DEF CancelledNeverSent
  <2>1. ~payload[n] /\ nstatus[n] = "discarded"
    BY DEF CancelInv, CancelledErased
  <2>2. \A c \in Contacts : dstatus[<<n, c>>] \in {"none", "cancelled"} /\ accepted[<<n, c>>] = 0
    BY DeliveryParts DEF CancelInv, CancelledUnsent
  <2>3. \A w \in Workers : pc[w] \in Sending => Note(current[w]) # n
    BY DEF CancelInv, CancelledUnsent, CurrentKnown, InNobodysHand, InHand, Sending
  <2> QED
    BY <2>1, <2>2, <2>3
<1> QED
  BY <1>1, <1>2, <1>3, PTL DEF Spec
=============================================================================
