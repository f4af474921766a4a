--------------------------- MODULE DeliveryProofs ---------------------------
(***************************************************************************)
(* Proofs about releases, leases, attempts, content and duplicates, for    *)
(* every instance of Relay.  RowInv, HandInv and CallInv are inductive     *)
(* together, relative to the types and CancelInv (RelayProofs); SendInv is *)
(* inductive relative to all of them.                                      *)
(***************************************************************************)
EXTENDS RelayProofs, FiniteSetTheorems

\* The tables and the workers' locals these proofs update
Tables ==
  /\ releaseAt \in [Notifications -> Nat] /\ expiresAt \in [Notifications -> Nat]
  /\ recipients \in [Notifications -> SUBSET People]
  /\ startedAt \in [Deliveries -> Nat] /\ until \in [Deliveries -> Nat]
  /\ attempts \in [Deliveries -> Nat] /\ seenAttempts \in [Workers -> Nat]
  /\ clock \in Nat \ {0}

LEMMA TypedTables == TypeOK => Domains /\ Tables
BY TypedDomains DEF TypeOK, NoteTypes, DeliveryTypes, WorkerTypes, OtherTypes, Tables

Times == /\ Delays \subseteq Nat /\ Retentions \subseteq Nat \ {0}
         /\ Lease \in Nat \ {0} /\ MaxAttempts \in Nat \ {0}

LEMMA TimesKnown == Times
BY NumberAssumption DEF NumberAssumption, Times

\* A step that keeps the rows, but for content it erases, and lets no time pass
\* backwards.
RowsStay ==
  /\ UNCHANGED <<nstatus, releaseAt, frozenAt, recipients, dstatus, startedAt, until, attempts>>
  /\ accountStatus' = "deleted" <=> accountStatus = "deleted"
  /\ clock' >= clock
  /\ \A n \in Notifications : /\ payload'[n] => payload[n]
                              /\ \/ expiresAt'[n] = expiresAt[n]
                                 \/ ~payload'[n] /\ expiresAt'[n] <= clock'

LEMMA RowsStayed ==
  ASSUME TypeOK, TypeOK', RowInv, RowsStay, SeenBounded' PROVE RowInv'
<1>0. Tables /\ Tables' /\ Domains /\ Domains'
  BY TypedTables DEF TypeOK, NoteTypes, DeliveryTypes, WorkerTypes, OtherTypes, Tables, Domains
<1>1. DeletedGone' /\ ContentKnown'
  BY DEF RowInv, RowsStay, DeletedGone, ContentKnown, Exists
<1>2. UnreleasedFree' /\ ToRecipients' /\ LeaseOnlyWhileClaimed'
  BY DEF RowInv, RowsStay, UnreleasedFree, ToRecipients, LeaseOnlyWhileClaimed
<1>3. ReleasedDue'
  BY <1>0 DEF RowInv, RowsStay, ReleasedDue, Exists, Tables, Domains
<1>4. AttemptsBounded'
  BY DEF RowInv, RowsStay, AttemptsBounded, SeenBounded, Sending, InHand
<1> QED
  BY <1>1, <1>2, <1>3, <1>4 DEF RowInv

\* The maintenance pass's findings stay true while it keeps them.
SweepStays ==
  pc'[Scheduler] = "expiring" =>
    pc[Scheduler] = "expiring" /\ UNCHANGED <<toFreeze[Scheduler], batch[Scheduler]>>

LEMMA SweepStayed ==
  ASSUME TypeOK, TypeOK', SweepDue, RowsStay, SweepStays PROVE SweepDue'
<1>0. Tables /\ Tables' /\ Domains /\ Domains'
  BY TypedTables DEF TypeOK, NoteTypes, DeliveryTypes, WorkerTypes, OtherTypes, Tables, Domains
<1> QED
  BY <1>0, SchedulerIsWorker DEF SweepDue, RowsStay, SweepStays, Exists, Tables, Domains

\* A worker's reads, claims it loses, sending and its end.
LEMMA WorkerQuiet ==
  ASSUME TypeOK, TypeOK', CurrentKnown, RowInv, HandInv, NEW w \in Workers,
         \/ StartCycle(w) \/ ListDue(w) \/ ReadClaim(w) \/ LoseClaim(w) \/ Authorize(w)
         \/ BeginSend(w) \/ Send(w) \/ FinishCycle(w) \/ Crash(w) \/ Fail(w)
         \/ \E n \in Notifications : SkipFreeze(w, n)
         \/ \E d \in Deliveries : SkipClaim(w, d)
  PROVE  RowInv' /\ HandInv'
<1>0. Domains /\ Tables
  BY TypedTables
<1>1. RowsStay
  <2>1. UNCHANGED <<clock, accountVars, noteVars, deliveryVars>>
    BY DEF StartCycle, ListDue, ReadClaim, LoseClaim, Authorize, BeginSend, Send,
           FinishCycle, Crash, Fail, SkipFreeze, SkipClaim
  <2> QED
    BY <1>0, <2>1
    DEF RowsStay, accountVars, noteVars, deliveryVars, leaseVars, Tables
<1>2. SweepStays
  BY <1>0, SchedulerIsWorker
  DEF StartCycle, ListDue, ReadClaim, LoseClaim, Authorize, BeginSend, Send, FinishCycle,
      Crash, Fail, SkipFreeze, SkipClaim, NextDelivery, Abandon, Goto, SweepStays, Domains
<1>3. StartedPast'
  BY <1>0
  DEF StartCycle, ListDue, ReadClaim, LoseClaim, Authorize, BeginSend, Send, FinishCycle,
      Crash, Fail, SkipFreeze, SkipClaim, NextDelivery, Abandon, HandInv, StartedPast,
      Domains, Tables
<1>4. CycleStarted'
  BY <1>0
  DEF StartCycle, ListDue, ReadClaim, LoseClaim, Authorize, BeginSend, Send, FinishCycle,
      Crash, Fail, SkipFreeze, SkipClaim, NextDelivery, Abandon, Goto, HandInv,
      CycleStarted, InHand, Domains, Tables
<1>5. SeenBounded'
  BY <1>0, TimesKnown
  DEF StartCycle, ListDue, ReadClaim, LoseClaim, Authorize, BeginSend, Send, FinishCycle,
      Crash, Fail, SkipFreeze, SkipClaim, NextDelivery, Abandon, Goto, HandInv,
      SeenBounded, InHand, Domains, Tables, Times, HoldsClaim, RowInv, AttemptsBounded,
      OpenStatus, CurrentKnown
<1> QED
  BY <1>1, <1>2, <1>3, <1>4, <1>5, RowsStayed, SweepStayed DEF HandInv

\* Steps that leave the workers alone.
LEMMA WorkersSame ==
  ASSUME TypeOK, TypeOK', RowInv, HandInv, RowsStay,
         UNCHANGED <<pc, started, toFreeze, batch, current, seenAttempts>>
  PROVE  RowInv' /\ HandInv'
<1>1. SweepStays /\ CycleStarted' /\ SeenBounded'
  BY DEF SweepStays, HandInv, CycleStarted, SeenBounded
<1>2. StartedPast'
  BY DEF RowsStay, HandInv, StartedPast, TypeOK, WorkerTypes, OtherTypes
<1> QED
  BY <1>1, <1>2, RowsStayed, SweepStayed DEF HandInv

\* A call that erases content writes a time it has read.
LEMMA CallExpiry ==
  ASSUME TypeOK, CallInv, CallMoves
  PROVE  \A n \in Notifications : \/ expiresAt'[n] = expiresAt[n]
                                  \/ ~payload'[n] /\ expiresAt'[n] <= clock
<1>0. Tables /\ Domains
  BY TypedTables
<1>1. ASSUME NEW e \in Callers, EraseIfComplete(e)
      PROVE  \A n \in Notifications : \/ expiresAt'[n] = expiresAt[n]
                                      \/ ~payload'[n] /\ expiresAt'[n] <= clock
  BY <1>0, <1>1 DEF EraseIfComplete, CallInv, CallExplained, Tables, Domains
<1>2. ASSUME NEW e \in Callers, CallStep(e), ~EraseIfComplete(e) PROVE UNCHANGED expiresAt
  BY <1>2
  DEF CallStep, noteVars, Check, Refuse, ConfirmRead, DisablePartner, ListMessages,
      NextMessage, Survey, LookUp, Weigh
<1> QED
  BY <1>1, <1>2
  DEF CallMoves, noteVars, ArriveToRead, ArriveToDisable, EnablePartner, WebCrash

LEMMA OthersQuiet ==
  ASSUME TypeOK, TypeOK', RowInv, HandInv, CallInv, CallMoves \/ Tick \/ UNCHANGED vars
  PROVE  RowInv' /\ HandInv'
<1>0. Tables /\ Domains
  BY TypedTables
<1>1. CASE CallMoves
  <2>1. /\ UNCHANGED <<pc, started, toFreeze, batch, current, seenAttempts>>
        /\ UNCHANGED <<clock, accountStatus, nstatus, releaseAt, frozenAt, recipients,
                       deliveryVars>>
    BY <1>1, CallShape DEF workerVars, localVars
  <2>2. RowsStay
    BY <1>0, <1>1, <2>1, CallErases, CallExpiry
    DEF RowsStay, deliveryVars, leaseVars, Tables, Domains
  <2> QED
    BY <2>1, <2>2, WorkersSame
<1>2. CASE Tick \/ UNCHANGED vars
  <2>1. clock' >= clock /\ UNCHANGED <<accountVars, noteVars, deliveryVars>>
    BY <1>0, <1>2 DEF Tick, vars, Tables
  <2>2. RowsStay
    BY <2>1 DEF RowsStay, accountVars, noteVars, deliveryVars, leaseVars
  <2>3. UNCHANGED <<pc, started, toFreeze, batch, current, seenAttempts>>
    BY <1>2 DEF Tick, vars, workerVars, localVars
  <2> QED
    BY <2>2, <2>3, WorkersSame
<1> QED
  BY <1>1, <1>2

\* The maintenance pass: it erases what is complete, then reads and erases what is past
\* its retention.
LEMMA MaintenanceRows ==
  ASSUME TypeOK, TypeOK', CancelInv, RowInv, HandInv, LifecycleStep
  PROVE  RowInv' /\ HandInv'
<1>0. Tables /\ Domains
  BY TypedTables
<1>1. ASSUME LifecycleErase PROVE RowInv' /\ HandInv'
  <2>1. RowsStay
    <3>1. \A n \in Notifications :
            /\ payload'[n] => payload[n]
            /\ \/ expiresAt'[n] = expiresAt[n]
               \/ ~payload'[n] /\ expiresAt'[n] = started[Scheduler]
      BY <1>0, <1>1 DEF LifecycleErase, Tables, Domains
    <3>2. accountStatus' = "deleted" <=> accountStatus = "deleted"
      BY <1>1 DEF LifecycleErase, LifecycleStages
    <3>3. UNCHANGED <<clock, nstatus, releaseAt, frozenAt, recipients, deliveryVars>>
      BY <1>1 DEF LifecycleErase
    <3>4. started[Scheduler] <= clock
      BY SchedulerIsWorker DEF HandInv, StartedPast
    <3> QED
      BY <1>0, <3>1, <3>2, <3>3, <3>4 DEF RowsStay, deliveryVars, leaseVars, Tables
  <2>2. SweepStays
    BY <1>0, <1>1, SchedulerIsWorker DEF LifecycleErase, Goto, SweepStays, Domains
  <2>3. StartedPast' /\ CycleStarted' /\ SeenBounded'
    BY <1>0, <1>1
    DEF LifecycleErase, Goto, localVars, HandInv, StartedPast, CycleStarted, SeenBounded,
        InHand, Domains
  <2> QED
    BY <2>1, <2>2, <2>3, RowsStayed, SweepStayed DEF HandInv
<1>2. ASSUME LifecycleRead PROVE RowInv' /\ HandInv'
  <2>1. UNCHANGED <<clock, accountVars, noteVars, deliveryVars>>
    BY <1>2 DEF LifecycleRead
  <2>2. RowsStay
    BY <1>0, <2>1 DEF RowsStay, accountVars, noteVars, deliveryVars, leaseVars, Tables
  <2>3. StartedPast' /\ CycleStarted' /\ SeenBounded'
    BY <1>0, <1>2
    DEF LifecycleRead, Goto, HandInv, StartedPast, CycleStarted, SeenBounded, InHand, Domains
  <2>4. SweepDue'
    <3>1. /\ toFreeze'[Scheduler] = Expired(started[Scheduler])
          /\ batch'[Scheduler] \subseteq {d \in Deliveries : dstatus[d] \in OpenStatus}
      BY <1>0, <1>2, SchedulerIsWorker DEF LifecycleRead, Domains
    <3>2. \A n \in toFreeze'[Scheduler] :
            /\ n \in Notifications /\ Exists(n)
            /\ releaseAt[n] <= expiresAt[n] /\ expiresAt[n] <= clock
      BY <1>0, <3>1, SchedulerIsWorker
      DEF Expired, RowInv, ContentKnown, HandInv, StartedPast, Tables, Domains
    <3>3. \A n \in Notifications : Exists(n)' <=> Exists(n)
      BY <2>1 DEF noteVars, Exists
    <3> QED
      BY <1>0, <2>1, <3>1, <3>2, <3>3 DEF SweepDue, noteVars, deliveryVars, OpenStatus, Tables
  <2> QED
    BY <2>2, <2>3, <2>4, RowsStayed DEF HandInv
<1>3. ASSUME LifecycleExpire PROVE RowInv' /\ HandInv'
  <2>1. /\ \A n \in Notifications : Exists(n)' <=> Exists(n)
        /\ \A n \in Notifications : payload'[n] => payload[n]
        /\ \A d \in Deliveries : dstatus'[d] = IF d \in batch[Scheduler] THEN "cancelled"
                                               ELSE dstatus[d]
        /\ \A d \in batch[Scheduler] : d \in Deliveries => dstatus[d] # "none"
    BY <1>3, DeliveryParts
    DEF LifecycleExpire, Exists, HandInv, SweepDue, CancelInv, SweepReleased
  <2>2. UNCHANGED <<accountStatus, releaseAt, expiresAt, frozenAt, recipients, startedAt,
                    until, attempts, clock>>
    BY <1>3 DEF LifecycleExpire, accountVars
  <2>3. StartedPast' /\ CycleStarted' /\ SeenBounded' /\ SweepDue'
    BY <1>0, <1>3, SchedulerIsWorker
    DEF LifecycleExpire, Goto, HandInv, StartedPast, CycleStarted, SeenBounded, SweepDue,
        InHand, Domains, Tables
  <2>4. DeletedGone' /\ ContentKnown' /\ UnreleasedFree' /\ ReleasedDue'
    BY <2>1, <2>2 DEF RowInv, DeletedGone, ContentKnown, UnreleasedFree, ReleasedDue
  <2>5. ToRecipients' /\ LeaseOnlyWhileClaimed'
    BY <2>1, <2>2 DEF RowInv, ToRecipients, LeaseOnlyWhileClaimed
  <2>6. AttemptsBounded'
    BY <2>1, <2>2, <2>3
    DEF RowInv, AttemptsBounded, SeenBounded, Sending, InHand, OpenStatus
  <2> QED
    BY <2>3, <2>4, <2>5, <2>6 DEF RowInv, HandInv
<1> QED
  BY <1>1, <1>2, <1>3 DEF LifecycleStep

-----------------------------------------------------------------------------
(* Steps that change rows. *)

LEMMA AcceptRows ==
  ASSUME TypeOK, TypeOK', CancelInv, RowInv, HandInv,
         NEW w \in Workers, NEW n \in Notifications, Accept(w, n)
  PROVE  RowInv' /\ HandInv'
<1>0. Tables /\ Domains /\ Tables'
  BY TypedTables DEF TypeOK, NoteTypes, DeliveryTypes, WorkerTypes, OtherTypes, Tables
<1>1. /\ ~Exists(n) /\ accountStatus # "deleted" /\ frozenAt[n] = 0
      /\ UNCHANGED <<clock, frozenAt, recipients, dstatus, startedAt, until, attempts,
                     accountStatus, started, toFreeze, batch, current, seenAttempts>>
  BY <1>0
  DEF Accept, Allows, AccountNow, CancelInv, FreshNotes, deliveryVars, leaseVars,
      accountVars, localVars
<1>2. /\ Exists(n)' /\ releaseAt'[n] <= expiresAt'[n]
      /\ \A m \in Notifications : m # n => /\ nstatus'[m] = nstatus[m]
                                           /\ payload'[m] = payload[m]
                                           /\ releaseAt'[m] = releaseAt[m]
                                           /\ expiresAt'[m] = expiresAt[m]
  BY <1>0, <1>1, TimesKnown DEF Accept, Exists, Tables, Domains, Times
<1>3. DeletedGone' /\ ContentKnown' /\ UnreleasedFree' /\ ReleasedDue'
  BY <1>1, <1>2
  DEF RowInv, DeletedGone, ContentKnown, UnreleasedFree, ReleasedDue, Exists
<1>4. ToRecipients' /\ LeaseOnlyWhileClaimed'
  BY <1>1 DEF RowInv, ToRecipients, LeaseOnlyWhileClaimed
<1>5. StartedPast' /\ CycleStarted' /\ SeenBounded'
  BY <1>0, <1>1
  DEF Accept, Goto, HandInv, StartedPast, CycleStarted, SeenBounded, InHand, Domains
<1>6. AttemptsBounded'
  BY <1>1, <1>5 DEF RowInv, AttemptsBounded, SeenBounded, Sending, InHand
<1>7. SweepDue'
  <2>1. pc'[Scheduler] = "expiring" => pc[Scheduler] = "expiring" /\ n \notin toFreeze[Scheduler]
    BY <1>0, <1>1, SchedulerIsWorker DEF Accept, Goto, HandInv, SweepDue, Domains
  <2>2. pc'[Scheduler] = "expiring" => \A d \in batch[Scheduler] : Note(d) # n
    BY <2>1, <1>0, <1>1, SchedulerIsWorker DEF CancelInv, SweepReleased, Domains
  <2> QED
    BY <1>0, <1>1, <1>2, <2>1, <2>2, DeliveryParts, SchedulerIsWorker
    DEF HandInv, SweepDue, Exists, Domains
<1> QED
  BY <1>3, <1>4, <1>5, <1>6, <1>7 DEF RowInv, HandInv

LEMMA CancelRows ==
  ASSUME TypeOK, TypeOK', CancelInv, RowInv, HandInv, NEW n \in Notifications, Cancel(n)
  PROVE  RowInv' /\ HandInv'
<1>0. Tables /\ Domains
  BY TypedTables
<1>1. UNCHANGED <<clock, accountStatus, releaseAt, expiresAt, frozenAt, recipients, startedAt,
                  until, attempts, pc, started, toFreeze, batch, current, seenAttempts>>
  BY DEF Cancel, accountVars, leaseVars, workerVars, localVars
<1>2. \A m \in Notifications : (Exists(m)' <=> Exists(m)) /\ (payload'[m] => payload[m])
  BY <1>0 DEF Cancel, Exists, Domains
<1>3. \A d \in Deliveries : \/ dstatus'[d] = dstatus[d]
                            \/ dstatus[d] = "pending" /\ dstatus'[d] = "cancelled"
  BY DeliveryParts DEF Cancel, NothingStarted
<1>4. DeletedGone' /\ ContentKnown' /\ UnreleasedFree' /\ ReleasedDue'
  BY <1>1, <1>2 DEF RowInv, DeletedGone, ContentKnown, UnreleasedFree, ReleasedDue
<1>5. ToRecipients' /\ LeaseOnlyWhileClaimed'
  BY <1>1, <1>3 DEF RowInv, ToRecipients, LeaseOnlyWhileClaimed
<1>6. AttemptsBounded'
  BY <1>1, <1>3 DEF RowInv, AttemptsBounded, OpenStatus
<1>7. StartedPast' /\ CycleStarted' /\ SeenBounded'
  BY <1>1 DEF HandInv, StartedPast, CycleStarted, SeenBounded
<1>8. SweepDue'
  BY <1>0, <1>1, <1>2, <1>3, DeliveryParts, SchedulerIsWorker DEF HandInv, SweepDue, Domains
<1> QED
  BY <1>4, <1>5, <1>6, <1>7, <1>8 DEF RowInv, HandInv

\* The release: recipients and pending deliveries appear together.
LEMMA FreezeRows ==
  ASSUME TypeOK, TypeOK', CancelInv, RowInv, HandInv,
         NEW w \in Workers, NEW n \in Notifications, Freeze(w, n)
  PROVE  RowInv' /\ HandInv'
<1>0. Tables /\ Domains
  BY TypedTables
<1>1. /\ Exists(n) /\ frozenAt[n] = 0 /\ releaseAt[n] <= started[w]
      /\ started[w] # 0 /\ started[w] <= clock
  BY DEF Freeze, StillFreezable, Released, HandInv, StartedPast, CycleStarted
<1>2. UNCHANGED <<clock, accountStatus, payload, releaseAt, expiresAt, startedAt, until,
                  attempts, pc, started, batch, current, seenAttempts>>
  BY DEF Freeze, accountVars, leaseVars
<1>3. /\ \A m \in Notifications : Exists(m)' <=> Exists(m)
      /\ \A m \in Notifications : m # n => /\ frozenAt'[m] = frozenAt[m]
                                           /\ recipients'[m] = recipients[m]
      /\ frozenAt'[n] = started[w]
      /\ recipients'[n] = {Owner} \cup EntitledPartners
  BY <1>0, <1>1 DEF Freeze, Exists, Domains, Tables
<1>4. \A d \in Deliveries :
        /\ Note(d) # n => dstatus'[d] = dstatus[d]
        /\ Note(d) = n =>
             /\ dstatus[d] = "none" /\ dstatus'[d] \in {"none", "pending"}
             /\ dstatus'[d] = "pending" => OwnerOf[Contact(d)] \in recipients'[n]
  BY <1>1, <1>3 DEF Freeze, CancelInv, UnreleasedUnsent
<1>5. DeletedGone' /\ ContentKnown'
  BY <1>2, <1>3 DEF RowInv, DeletedGone, ContentKnown
<1>6. UnreleasedFree' /\ ReleasedDue'
  BY <1>0, <1>1, <1>2, <1>3 DEF RowInv, UnreleasedFree, ReleasedDue, Domains, Tables
<1>7. ToRecipients'
  BY <1>3, <1>4, DeliveryParts DEF RowInv, ToRecipients
<1>8. \A d \in Deliveries : Note(d) = n => startedAt[d] = 0 /\ until[d] = 0 /\ attempts[d] = 0
  BY <1>1, DeliveryParts DEF RowInv, UnreleasedFree
<1>9. LeaseOnlyWhileClaimed'
  BY <1>2, <1>4, <1>8 DEF RowInv, LeaseOnlyWhileClaimed
<1>10. AttemptsBounded'
  BY <1>0, <1>2, <1>4, <1>8, TimesKnown DEF RowInv, AttemptsBounded, OpenStatus, Times
<1>11. StartedPast' /\ CycleStarted' /\ SeenBounded'
  BY <1>2 DEF HandInv, StartedPast, CycleStarted, SeenBounded
<1>12. SweepDue'
  <2>1. pc[Scheduler] = "expiring" => toFreeze'[Scheduler] = toFreeze[Scheduler]
    BY <1>0, SchedulerIsWorker DEF Freeze, Domains
  <2>2. pc[Scheduler] = "expiring" =>
          \A d \in batch[Scheduler] : d \in Deliveries /\ dstatus'[d] = dstatus[d]
    BY <1>0, <1>1, <1>4, SchedulerIsWorker DEF CancelInv, SweepReleased, Domains
  <2> QED
    BY <1>0, <1>2, <1>3, <2>1, <2>2, DeliveryParts, SchedulerIsWorker
    DEF HandInv, SweepDue, Domains
<1> QED
  BY <1>5, <1>6, <1>7, <1>9, <1>10, <1>11, <1>12 DEF RowInv, HandInv

LEMMA ClaimRows ==
  ASSUME TypeOK, TypeOK', CancelInv, RowInv, HandInv,
         NEW w \in Workers, NEW d \in Deliveries, Claim(w, d)
  PROVE  RowInv' /\ HandInv'
<1>0. Tables /\ Domains
  BY TypedTables
<1>1. /\ dstatus[d] \in OpenStatus /\ frozenAt[Note(d)] # 0
      /\ started[w] # 0 /\ pc[w] = "looping"
  BY DEF Claim, Due, Claimable, OpenStatus, CancelInv, UnreleasedUnsent, HandInv, CycleStarted
<1>2. UNCHANGED <<clock, accountStatus, nstatus, payload, releaseAt, expiresAt, frozenAt,
                  recipients, attempts, started, toFreeze, seenAttempts>>
  BY DEF Claim, accountVars, noteVars
<1>3. \A e \in Deliveries :
        /\ dstatus'[e] = IF e = d THEN "processing" ELSE dstatus[e]
        /\ startedAt'[e] = IF e = d THEN started[w] ELSE startedAt[e]
        /\ until'[e] = IF e = d THEN started[w] + Lease ELSE until[e]
  BY <1>0 DEF Claim, Domains, Tables
<1>4. DeletedGone' /\ ContentKnown' /\ ReleasedDue'
  BY <1>2 DEF RowInv, DeletedGone, ContentKnown, ReleasedDue, Exists
<1>5. UnreleasedFree'
  BY <1>1, <1>2, <1>3, DeliveryParts DEF RowInv, UnreleasedFree
<1>6. ToRecipients' /\ LeaseOnlyWhileClaimed'
  BY <1>1, <1>2, <1>3 DEF RowInv, ToRecipients, LeaseOnlyWhileClaimed, OpenStatus
<1>7. StartedPast' /\ CycleStarted' /\ SeenBounded'
  BY <1>0, <1>1, <1>2
  DEF Claim, Goto, HandInv, StartedPast, CycleStarted, SeenBounded, InHand, Domains
<1>8. AttemptsBounded'
  BY <1>1, <1>2, <1>3, <1>7 DEF RowInv, AttemptsBounded, SeenBounded, Sending, InHand, OpenStatus
<1>9. SweepDue'
  BY <1>0, <1>1, <1>2, <1>3, SchedulerIsWorker
  DEF Claim, Goto, HandInv, SweepDue, Exists, Domains
<1> QED
  BY <1>4, <1>5, <1>6, <1>7, <1>8, <1>9 DEF RowInv, HandInv

\* Recording a result clears the lease of the one delivery it moves.
LEMMA RecordRows ==
  ASSUME TypeOK, TypeOK', CancelInv, RowInv, HandInv,
         NEW w \in Workers, NEW d \in Deliveries,
         pc[w] \in InHand, dstatus[d] # "none", Exists(Note(d)), frozenAt[Note(d)] # 0,
         NEW s \in DeliveryStatus \ {"none", "pending", "processing"},
         dstatus' = [dstatus EXCEPT ![d] = s], ClearLease(d),
         NEW k \in Nat, attempts' = [attempts EXCEPT ![d] = k],
         k <= MaxAttempts, s = "retry_scheduled" => k < MaxAttempts,
         Restate(w, Note(d)), NextDelivery(w),
         UNCHANGED <<clock, accountStatus, payload, releaseAt, expiresAt, frozenAt, recipients>>
  PROVE  RowInv' /\ HandInv'
<1>0. Tables /\ Domains /\ Note(d) \in Notifications
  BY TypedTables, DeliveryParts
<1>1. \A n \in Notifications : Exists(n)' <=> Exists(n)
  BY <1>0, AggregateType DEF Restate, StatusWritten, Exists, Domains
<1>2. \A e \in Deliveries :
        /\ dstatus'[e] = IF e = d THEN s ELSE dstatus[e]
        /\ startedAt'[e] = IF e = d THEN 0 ELSE startedAt[e]
        /\ until'[e] = IF e = d THEN 0 ELSE until[e]
        /\ attempts'[e] = IF e = d THEN k ELSE attempts[e]
  BY <1>0 DEF ClearLease, Domains, Tables
<1>3. DeletedGone' /\ ContentKnown' /\ ReleasedDue'
  BY <1>1 DEF RowInv, DeletedGone, ContentKnown, ReleasedDue
<1>4. UnreleasedFree'
  BY <1>2, DeliveryParts DEF RowInv, UnreleasedFree
<1>5. ToRecipients' /\ LeaseOnlyWhileClaimed'
  BY <1>2 DEF RowInv, ToRecipients, LeaseOnlyWhileClaimed
<1>6. StartedPast' /\ CycleStarted' /\ SeenBounded'
  BY <1>0
  DEF NextDelivery, Goto, HandInv, StartedPast, CycleStarted, SeenBounded, InHand, Domains
<1>7. AttemptsBounded'
  <2>1. s \in OpenStatus => s = "retry_scheduled"
    BY DEF OpenStatus
  <2>2. \A e \in Deliveries : /\ attempts'[e] <= MaxAttempts
                              /\ dstatus'[e] \in OpenStatus => attempts'[e] < MaxAttempts
    BY <1>2, <2>1 DEF RowInv, AttemptsBounded
  <2>3. \A e \in Deliveries, v \in Workers :
          pc'[v] \in Sending /\ current'[v] = e => seenAttempts'[v] < MaxAttempts
    BY <1>6 DEF SeenBounded, Sending, InHand
  <2> QED
    BY <2>2, <2>3 DEF AttemptsBounded
<1>8. SweepDue'
  BY <1>0, <1>1, <1>2, DeliveryParts, SchedulerIsWorker
  DEF NextDelivery, Goto, HandInv, SweepDue, Domains
<1> QED
  BY <1>3, <1>4, <1>5, <1>6, <1>7, <1>8 DEF RowInv, HandInv

LEMMA RejectRows ==
  ASSUME TypeOK, TypeOK', CurrentKnown, CancelInv, RowInv, HandInv,
         NEW w \in Workers, Reject(w)
  PROVE  RowInv' /\ HandInv'
<1> DEFINE d == current[w]
<1>1. pc[w] \in InHand /\ dstatus[d] # "none"
  BY DEF Reject, InHand
<1>2. d \in Deliveries /\ Exists(Note(d)) /\ frozenAt[Note(d)] # 0
  BY <1>1, HandOnLiveRow
<1>3. /\ attempts[d] \in Nat /\ attempts[d] <= MaxAttempts
      /\ attempts' = [attempts EXCEPT ![d] = attempts[d]]
  BY <1>2 DEF Reject, RowInv, AttemptsBounded, TypeOK, DeliveryTypes
<1>4. "cancelled" \in DeliveryStatus \ {"none", "pending", "processing"}
  BY DEF DeliveryStatus, TerminalStatus
<1>5. UNCHANGED <<clock, accountStatus, payload, releaseAt, expiresAt, frozenAt, recipients>>
  BY DEF Reject, accountVars
<1> QED
  BY <1>1, <1>2, <1>3, <1>4, <1>5, RecordRows DEF Reject

LEMMA CommitRows ==
  ASSUME TypeOK, TypeOK', CurrentKnown, CancelInv, RowInv, HandInv,
         NEW w \in Workers, Commit(w)
  PROVE  RowInv' /\ HandInv'
<1> DEFINE d == current[w]
<1>1. pc[w] \in InHand /\ dstatus[d] # "none"
  BY DEF Commit, InHand, CancelInv, LockHeld
<1>2. d \in Deliveries /\ Exists(Note(d)) /\ frozenAt[Note(d)] # 0
  BY <1>1, HandOnLiveRow
<1>3. seenAttempts[w] \in Nat /\ seenAttempts[w] < MaxAttempts
  BY DEF Commit, HandInv, SeenBounded, InHand, TypeOK, WorkerTypes
<1>4. /\ seenAttempts[w] + 1 \in Nat /\ seenAttempts[w] + 1 <= MaxAttempts
      /\ Outcome(w) = "retry_scheduled" => seenAttempts[w] + 1 < MaxAttempts
  BY <1>3, TimesKnown DEF Outcome, Times
<1>5. Outcome(w) \in DeliveryStatus \ {"none", "pending", "processing"}
  BY DEF Outcome, DeliveryStatus, OpenStatus, TerminalStatus
<1>6. UNCHANGED <<clock, accountStatus, payload, releaseAt, expiresAt, frozenAt, recipients>>
  BY DEF Commit
<1> QED
  BY <1>1, <1>2, <1>4, <1>5, <1>6, RecordRows DEF Commit

\* The administrative changes.
LEMMA EditRows ==
  ASSUME TypeOK, TypeOK', CancelInv, RowInv, HandInv, Edit PROVE RowInv' /\ HandInv'
<1>0. Tables /\ Domains
  BY TypedTables
<1>1. UNCHANGED <<clock, pc, started, toFreeze, batch, current, seenAttempts>>
  BY DEF Edit, workerVars, localVars
<1>2. StartedPast' /\ CycleStarted' /\ SeenBounded'
  BY <1>1 DEF HandInv, StartedPast, CycleStarted, SeenBounded
<1>3. ASSUME UNCHANGED <<noteVars, deliveryVars>>,
             accountStatus' = "deleted" <=> accountStatus = "deleted"
      PROVE  RowInv' /\ HandInv'
  <2>1. RowsStay
    BY <1>0, <1>1, <1>3 DEF RowsStay, noteVars, deliveryVars, leaseVars, Tables
  <2> QED
    BY <1>1, <2>1, WorkersSame
<1>4. ASSUME NEW d \in Deliveries, Bounce(d) PROVE RowInv' /\ HandInv'
  <2>1. Exists(Note(d)) /\ Note(d) \in Notifications
    BY <1>4, DeliveryParts DEF Bounce, CancelInv, TrackedReleased
  <2>2. \A n \in Notifications : Exists(n)' <=> Exists(n)
    BY <1>0, <1>4, <2>1, AggregateType DEF Bounce, Exists, Domains
  <2>3. \A e \in Deliveries : dstatus'[e] = IF e = d THEN "permanent_failure" ELSE dstatus[e]
    BY <1>0, <1>4 DEF Bounce, Domains
  <2>4. UNCHANGED <<accountStatus, payload, releaseAt, expiresAt, frozenAt, recipients,
                    startedAt, until, attempts>>
    BY <1>4 DEF Bounce, leaseVars
  <2>5. DeletedGone' /\ ContentKnown' /\ UnreleasedFree' /\ ReleasedDue'
    BY <1>1, <2>2, <2>4 DEF RowInv, DeletedGone, ContentKnown, UnreleasedFree, ReleasedDue
  <2>6. ToRecipients' /\ LeaseOnlyWhileClaimed'
    <3>1. dstatus[d] # "none"
      BY <1>4 DEF Bounce, CancelInv, TrackedReleased
    <3> QED
      BY <2>3, <2>4, <3>1 DEF RowInv, ToRecipients, LeaseOnlyWhileClaimed
  <2>7. AttemptsBounded'
    BY <1>1, <2>3, <2>4 DEF RowInv, AttemptsBounded, OpenStatus
  <2>8. SweepDue'
    BY <1>0, <1>1, <2>2, <2>3, <2>4, DeliveryParts, SchedulerIsWorker
    DEF HandInv, SweepDue, Domains
  <2> QED
    BY <1>2, <2>5, <2>6, <2>7, <2>8 DEF RowInv, HandInv
<1>5. CASE DisableAdministratively \/ FinishReview
  BY <1>3, <1>5 DEF DisableAdministratively, FinishReview, ChangeAccount
<1>6. CASE DeleteAccount
  <2>1. /\ \A n \in Notifications : ~Exists(n)' /\ ~payload'[n] /\ recipients'[n] = {}
        /\ \A d \in Deliveries : dstatus'[d] = "none"
        /\ accountStatus' = "deleted"
        /\ UNCHANGED <<releaseAt, expiresAt, frozenAt, startedAt, until, attempts>>
    BY <1>6 DEF DeleteAccount, Exists, leaseVars
  <2>2. DeletedGone' /\ ContentKnown' /\ UnreleasedFree' /\ ReleasedDue'
    BY <2>1 DEF RowInv, DeletedGone, ContentKnown, UnreleasedFree, ReleasedDue
  <2>3. ToRecipients' /\ LeaseOnlyWhileClaimed'
    BY <2>1 DEF ToRecipients, LeaseOnlyWhileClaimed
  <2>4. AttemptsBounded'
    BY <1>1, <2>1 DEF RowInv, AttemptsBounded, OpenStatus
  <2>5. SweepDue'
    BY <1>0, <1>1, <2>1, DeliveryParts, SchedulerIsWorker DEF HandInv, SweepDue, Domains
  <2> QED
    BY <1>2, <2>2, <2>3, <2>4, <2>5 DEF RowInv, HandInv
<1>7. ASSUME NEW c \in Contacts, SetVerified(c) \/ DeleteContact(c) PROVE RowInv' /\ HandInv'
  BY <1>3, <1>7 DEF SetVerified, DeleteContact
<1>8. ASSUME NEW p \in Partners, DeletePartner(p) \/ SetPartnerEnrolled(p)
      PROVE  RowInv' /\ HandInv'
  BY <1>3, <1>8 DEF DeletePartner, SetPartnerEnrolled
<1> QED
  BY <1>4, <1>5, <1>6, <1>7, <1>8 DEF Edit

LEMMA RowsInit == Init => RowInv /\ HandInv
<1> SUFFICES ASSUME Init PROVE RowInv /\ HandInv
  OBVIOUS
<1>1. RowInv
  BY DeliveryParts, TimesKnown
  DEF Init, RowInv, DeletedGone, ContentKnown, UnreleasedFree, ReleasedDue, ToRecipients,
      LeaseOnlyWhileClaimed, AttemptsBounded, Exists, OpenStatus, Sending, Times
<1>2. HandInv
  BY SchedulerIsWorker
  DEF Init, HandInv, StartedPast, CycleStarted, SeenBounded, SweepDue, InHand
<1> QED
  BY <1>1, <1>2

LEMMA RowsNext ==
  ASSUME TypeOK, CurrentKnown, CancelInv, RowInv, HandInv, CallInv, [Next]_vars
  PROVE  RowInv' /\ HandInv'
<1>1. TypeOK'
  BY TypeNext
<1> QED
  BY <1>1, WorkerQuiet, OthersQuiet, MaintenanceRows, AcceptRows, CancelRows, FreezeRows,
     ClaimRows, RejectRows, CommitRows, EditRows
  DEF Next, CallMoves, WorkerStep, Workers

-----------------------------------------------------------------------------
(* What calls go by.  CallInv is inductive relative to the invariants above. *)

\* The state invariants every theorem about the relay rests on.
RelayInv == TypeOK /\ CurrentKnown /\ CancelInv /\ RowInv /\ HandInv /\ CallInv

\* Steps that change no message and no delivery.
Quiet ==
  \/ \E w \in Workers :
       \/ StartCycle(w) \/ ListDue(w) \/ ReadClaim(w) \/ LoseClaim(w) \/ Authorize(w)
       \/ BeginSend(w) \/ Send(w) \/ FinishCycle(w) \/ Crash(w) \/ Fail(w)
       \/ \E n \in Notifications : SkipFreeze(w, n)
       \/ \E d \in Deliveries : SkipClaim(w, d)
  \/ LifecycleRead \/ Tick \/ UNCHANGED vars

LEMMA QuietKeeps == Quiet => UNCHANGED <<accountVars, noteVars, deliveryVars>>
BY DEF Quiet, StartCycle, ListDue, ReadClaim, LoseClaim, Authorize, BeginSend, Send,
       FinishCycle, Crash, Fail, SkipFreeze, SkipClaim, LifecycleRead, Tick, vars

\* Recording a result ends a claim on an existing delivery.
LEMMA RecordEndsClaim ==
  ASSUME RelayInv, NEW w \in Workers, Reject(w) \/ Commit(w)
  PROVE  /\ UNCHANGED <<payload, releaseAt, expiresAt, cancelledAt, frozenAt, recipients,
                        readBy>>
         /\ \A n \in Notifications : Exists(n)' <=> Exists(n)
         /\ \A d \in Deliveries :
              \/ UNCHANGED <<dstatus[d], startedAt[d]>>
              \/ dstatus[d] # "none" /\ dstatus'[d] \notin {"none", "processing"}
<1>1. Outcome(w) \notin {"none", "processing"}
  BY DEF Outcome
<1>2. dstatus[current[w]] # "none" /\ pc[w] \in InHand
  BY DEF Reject, Commit, RelayInv, CancelInv, LockHeld, InHand
<1>3. Domains /\ Tables
  BY TypedTables DEF RelayInv
<1>4. current[w] \in Deliveries /\ Exists(Note(current[w]))
  BY <1>2, HandOnLiveRow DEF RelayInv
<1>5. \A n \in Notifications : Exists(n)' <=> Exists(n)
  <2>1. Restate(w, Note(current[w]))
    BY DEF Reject, Commit
  <2> QED
    BY <1>3, <1>4, <2>1, AggregateType, DeliveryParts DEF Restate, StatusWritten, Exists, Domains
<1> QED
  BY <1>1, <1>2, <1>3, <1>5 DEF Reject, Commit, ClearLease, Domains, Tables

\* What a step of Next is, as these proofs tell steps apart
LEMMA StepKinds ==
  ASSUME [Next]_vars
  PROVE  \/ Quiet \/ CallMoves \/ Edit \/ LifecycleErase \/ LifecycleExpire
         \/ \E w \in Workers : \/ Reject(w) \/ Commit(w)
                               \/ \E n \in Notifications : Freeze(w, n) \/ Accept(w, n)
                               \/ \E d \in Deliveries : Claim(w, d)
         \/ \E n \in Notifications : Cancel(n)
BY DEF Next, CallMoves, WorkerStep, LifecycleStep, Quiet, Workers

\* No step turns time or read marks back, and a released message keeps its recipients or
\* goes with its account.
PastKept ==
  /\ clock' >= clock
  /\ \A n \in Notifications : frozenAt[n] # 0 =>
       /\ frozenAt'[n] # 0
       /\ recipients'[n] \subseteq recipients[n] /\ readBy[n] \subseteq readBy'[n]
       /\ Exists(n)' => Exists(n) /\ recipients'[n] = recipients[n]

LEMMA PastStays == ASSUME RelayInv, [Next]_vars PROVE PastKept
<1>0. Domains /\ Tables /\ readBy \in [Notifications -> SUBSET People]
  BY TypedTables DEF RelayInv, TypeOK, NoteTypes
<1>1. ASSUME UNCHANGED <<clock, frozenAt, recipients, readBy>>,
             \A n \in Notifications : frozenAt[n] # 0 /\ Exists(n)' => Exists(n)
      PROVE  PastKept
  BY <1>0, <1>1 DEF PastKept, Tables
<1>2. CASE Quiet
  <2>1. clock' >= clock
    BY <1>0, <1>2
    DEF Quiet, StartCycle, ListDue, ReadClaim, LoseClaim, Authorize, BeginSend, Send,
        FinishCycle, Crash, Fail, SkipFreeze, SkipClaim, LifecycleRead, Tick, vars, Tables
  <2> QED
    BY <1>2, <2>1, QuietKeeps DEF noteVars, PastKept, Exists
<1>3. CASE CallMoves
  <2>1. ASSUME NEW e \in Callers, CallStep(e)
        PROVE  \A n \in Notifications : readBy[n] \subseteq readBy'[n]
    BY <1>0, <2>1
    DEF CallStep, noteVars, Check, Refuse, ConfirmRead, DisablePartner, ListMessages,
        NextMessage, Survey, LookUp, Weigh, EraseIfComplete
  <2>2. \A n \in Notifications : readBy[n] \subseteq readBy'[n]
    BY <1>3, <2>1 DEF CallMoves, noteVars, ArriveToRead, ArriveToDisable, EnablePartner, WebCrash
  <2> QED
    BY <1>0, <1>3, <2>2, CallShape DEF PastKept, Exists, Tables
<1>4. ASSUME NEW w \in Workers, Reject(w) \/ Commit(w) PROVE PastKept
  <2>1. UNCHANGED clock
    BY <1>4 DEF Reject, Commit
  <2> QED
    BY <1>1, <1>4, <2>1, RecordEndsClaim
<1>5. ASSUME NEW w \in Workers, NEW n \in Notifications, Freeze(w, n) PROVE PastKept
  <2>1. frozenAt[n] = 0 /\ UNCHANGED <<clock, readBy>>
    BY <1>5 DEF Freeze, StillFreezable
  <2>2. \A m \in Notifications : m # n => UNCHANGED <<nstatus[m], frozenAt[m], recipients[m]>>
    BY <1>0, <1>5 DEF Freeze, Domains, Tables
  <2> QED
    BY <1>0, <2>1, <2>2 DEF PastKept, Exists, Tables
<1>6. ASSUME NEW w \in Workers, NEW n \in Notifications, Accept(w, n) PROVE PastKept
  <2>1. frozenAt[n] = 0
    BY <1>6 DEF Accept, Allows, AccountNow, RelayInv, CancelInv, FreshNotes
  <2>2. \A m \in Notifications : m # n => nstatus'[m] = nstatus[m]
    BY <1>0, <1>6 DEF Accept, Domains
  <2>3. UNCHANGED <<clock, frozenAt, recipients, readBy>>
    BY <1>6 DEF Accept
  <2> QED
    BY <1>1, <2>1, <2>2, <2>3 DEF Exists
<1>7. ASSUME NEW w \in Workers, NEW d \in Deliveries, Claim(w, d) PROVE PastKept
  <2>1. UNCHANGED <<clock, noteVars>>
    BY <1>7 DEF Claim
  <2> QED
    BY <1>1, <2>1 DEF noteVars, Exists
<1>8. ASSUME NEW n \in Notifications, Cancel(n) PROVE PastKept
  <2>1. \A m \in Notifications : Exists(m)' => Exists(m)
    BY <1>0, <1>8 DEF Cancel, Exists, Domains
  <2>2. UNCHANGED <<clock, frozenAt, recipients, readBy>>
    BY <1>8 DEF Cancel
  <2> QED
    BY <1>1, <2>1, <2>2
<1>9. CASE LifecycleErase \/ LifecycleExpire
  <2>1. \A m \in Notifications : Exists(m)' => Exists(m)
    BY <1>0, <1>9 DEF LifecycleErase, LifecycleExpire, Exists, Domains
  <2>2. UNCHANGED <<clock, frozenAt, recipients, readBy>>
    BY <1>9 DEF LifecycleErase, LifecycleExpire
  <2> QED
    BY <1>1, <2>1, <2>2
<1>10. CASE Edit
  <2>1. UNCHANGED <<clock, frozenAt, readBy>>
    BY <1>10
    DEF Edit, Bounce, DisableAdministratively, FinishReview, ChangeAccount, DeleteAccount,
        SetVerified, DeleteContact, DeletePartner, SetPartnerEnrolled, noteVars
  <2>2. ASSUME NEW d \in Deliveries, Bounce(d) PROVE PastKept
    <3>1. Exists(Note(d)) /\ Note(d) \in Notifications
      BY <2>2, DeliveryParts DEF Bounce, RelayInv, CancelInv, TrackedReleased
    <3>2. \A m \in Notifications : Exists(m)' => Exists(m)
      BY <1>0, <2>2, <3>1 DEF Bounce, Exists, Domains
    <3> QED
      BY <1>1, <2>1, <2>2, <3>2 DEF Bounce
  <2>3. CASE DeleteAccount
    BY <1>0, <2>1, <2>3 DEF DeleteAccount, PastKept, Exists, Tables
  <2>4. ASSUME UNCHANGED noteVars PROVE PastKept
    BY <1>1, <2>1, <2>4 DEF noteVars, Exists
  <2> QED
    BY <1>10, <2>2, <2>3, <2>4
    DEF Edit, DisableAdministratively, FinishReview, ChangeAccount, SetVerified,
        DeleteContact, DeletePartner, SetPartnerEnrolled
<1> QED
  BY <1>2, <1>3, <1>4, <1>5, <1>6, <1>7, <1>8, <1>9, <1>10, StepKinds

\* A step leaves a call alone, but for what it lets it witness, or ends it.
CallLeft(e) ==
  \/ calls'[e] = NoCall
  \/ /\ calls'[e] = [calls[e] EXCEPT !.barred = calls'[e].barred]
     /\ calls[e].barred \subseteq calls'[e].barred
     /\ calls[e].step # "idle" => Barred(AccountNow)' \subseteq calls'[e].barred

\* While the maintenance pass erases, the scheduler's session keeps its rows.
SessionLeft ==
  calls'[Scheduler].step # "idle" => UNCHANGED <<pc[Scheduler], accountSeen[Scheduler]>>

LEMMA CallStays ==
  ASSUME TypeOK, TypeOK', PastKept, NEW e \in Callers, CallExplained(e), CallLeft(e),
         e = Scheduler => SessionLeft
  PROVE  CallExplained(e)'
<1>0. calls[e] \in Call /\ clock \in Nat /\ clock' \in Nat /\ clock' >= clock
  BY DEF TypeOK, OtherTypes, PastKept
<1>1. CASE calls'[e] = NoCall
  <2>1. /\ calls'[e].step = "idle" /\ calls'[e].goal = "none" /\ calls'[e].at = 0
    BY <1>1 DEF NoCall
  <2> QED
    BY <1>0, <2>1
    DEF CallExplained, BarredWitnessed, RowsWitnessed, DisabledWitnessed, FacedWitnessed,
        UnreadWitnessed
<1>2. CASE calls'[e] # NoCall
  <2>1. /\ calls[e].barred \subseteq calls'[e].barred
        /\ calls[e].step # "idle" => Barred(AccountNow)' \subseteq calls'[e].barred
        /\ calls'[e].step = calls[e].step /\ calls'[e].goal = calls[e].goal
        /\ calls'[e].person = calls[e].person /\ calls'[e].note = calls[e].note
        /\ calls'[e].account = calls[e].account /\ calls'[e].left = calls[e].left
        /\ calls'[e].facing = calls[e].facing /\ calls'[e].active = calls[e].active
        /\ calls'[e].at = calls[e].at
    BY <1>0, <1>2 DEF CallLeft, Call, CallRecord
  <2>2. calls'[e].at <= clock'
    <3>1. calls[e].at <= clock /\ calls[e].at \in Nat
      BY <1>0 DEF CallExplained, Call, CallRecord
    <3> QED
      BY <1>0, <2>1, <3>1
  <2>3. calls[e].step # "idle" => Kept(e)' = Kept(e)
    BY <2>1 DEF Kept, SessionLeft
  <2>4. BarredWitnessed(e)' /\ RowsWitnessed(e)'
    BY <2>1, <2>3 DEF CallExplained, BarredWitnessed, RowsWitnessed
  <2>5. DisabledWitnessed(e)' /\ FacedWitnessed(e)'
    BY <2>1 DEF CallExplained, DisabledWitnessed, FacedWitnessed
  <2>6. UnreadWitnessed(e)'
    <3>1. calls[e].step \in {"weighing", "facing"} => calls[e].note \in Notifications
      BY <1>0 DEF Call, AboutNoNote
    <3> QED
      BY <2>1, <3>1 DEF CallExplained, UnreadWitnessed, PastKept
  <2> QED
    BY <2>2, <2>4, <2>5, <2>6 DEF CallExplained
<1> QED
  BY <1>1, <1>2

\* Every step that neither belongs to a call nor begins the maintenance pass's erasures
LEMMA OthersLeaveCalls ==
  ASSUME RelayInv, [Next]_vars, ~CallMoves, ~LifecycleErase
  PROVE  SessionLeft /\ \A e \in Callers : CallLeft(e)
<1>0. Domains /\ calls \in [Callers -> Call] /\ Scheduler \in Callers
  BY TypedDomains DEF RelayInv, TypeOK, OtherTypes, Callers
<1>1. \A e \in Callers : calls[e].step # "idle" => Barred(AccountNow) \subseteq calls[e].barred
  BY DEF RelayInv, CallInv, CallExplained, BarredWitnessed
<1>2. ASSUME NEW e \in Callers, calls'[e] \in {NoCall, calls[e]},
             UNCHANGED <<accountStatus, adminLocked, partners, activePartners>>
      PROVE  CallLeft(e)
  <2>1. calls[e] = [calls[e] EXCEPT !.barred = calls[e].barred]
    BY <1>0 DEF Call, CallRecord
  <2>2. Barred(AccountNow)' = Barred(AccountNow)
    BY <1>2 DEF Barred, AccountNow, Allows
  <2> QED
    BY <1>1, <1>2, <2>1, <2>2 DEF CallLeft
<1>3. calls[Scheduler].step # "idle" => pc[Scheduler] = "sweeping"
  BY DEF RelayInv, CallInv, SweepCalls
<1>4. NoCall.step = "idle"
  BY DEF NoCall
<1>5. ASSUME NEW w \in Workers, pc[w] # "sweeping", UNCHANGED calls,
             \A v \in Workers \ {w} : UNCHANGED <<pc[v], accountSeen[v]>>
      PROVE  SessionLeft
  BY <1>3, <1>5, SchedulerIsWorker DEF SessionLeft
<1>6. ASSUME NEW w \in Workers,
             \/ StartCycle(w) \/ ListDue(w) \/ ReadClaim(w) \/ LoseClaim(w) \/ Authorize(w)
             \/ Reject(w) \/ BeginSend(w) \/ Send(w) \/ Commit(w) \/ FinishCycle(w)
             \/ \E n \in Notifications : Freeze(w, n) \/ SkipFreeze(w, n) \/ Accept(w, n)
             \/ \E d \in Deliveries : Claim(w, d) \/ SkipClaim(w, d)
      PROVE  SessionLeft /\ \A e \in Callers : CallLeft(e)
  <2>1. UNCHANGED <<calls, accountStatus, adminLocked, partners, activePartners>>
    BY <1>6
    DEF StartCycle, ListDue, ReadClaim, LoseClaim, Authorize, Reject, BeginSend, Send, Commit,
        FinishCycle, Freeze, SkipFreeze, Accept, Claim, SkipClaim, accountVars
  <2>2. pc[w] # "sweeping"
    BY <1>6
    DEF StartCycle, ListDue, ReadClaim, LoseClaim, Authorize, Reject, BeginSend, Send, Commit,
        FinishCycle, Freeze, SkipFreeze, Accept, Claim, SkipClaim
  <2>3. \A v \in Workers \ {w} : UNCHANGED <<pc[v], accountSeen[v]>>
    BY <1>0, <1>6
    DEF StartCycle, ListDue, ReadClaim, LoseClaim, Authorize, Reject, BeginSend, Send, Commit,
        FinishCycle, Freeze, SkipFreeze, Accept, Claim, SkipClaim, NextDelivery, Goto,
        localVars, RelayInv, TypeOK, WorkerTypes
  <2> QED
    BY <1>2, <1>5, <2>1, <2>2, <2>3
<1>7. ASSUME NEW w \in Workers, Crash(w) \/ Fail(w)
      PROVE  SessionLeft /\ \A e \in Callers : CallLeft(e)
  <2>1. /\ Abandon(w)
        /\ UNCHANGED <<accountStatus, adminLocked, partners, activePartners>>
    BY <1>7 DEF Crash, Fail, accountVars
  <2>2. \A e \in Callers : calls'[e] \in {NoCall, calls[e]}
    BY <2>1 DEF Abandon
  <2>3. w # Scheduler => UNCHANGED <<pc[Scheduler], accountSeen[Scheduler]>>
    BY <1>0, <2>1, SchedulerIsWorker DEF Abandon, Goto, RelayInv, TypeOK, WorkerTypes
  <2>4. w = Scheduler => calls'[Scheduler] = NoCall
    BY <1>0, <2>1 DEF Abandon
  <2> QED
    BY <1>2, <1>4, <2>1, <2>2, <2>3, <2>4 DEF SessionLeft
<1>8. CASE LifecycleRead \/ LifecycleExpire
  <2>1. /\ UNCHANGED <<calls, accountStatus, adminLocked, partners, activePartners>>
        /\ pc[Scheduler] # "sweeping" \/ calls[Scheduler] = NoCall
    BY <1>8 DEF LifecycleRead, LifecycleExpire, accountVars
  <2> QED
    BY <1>2, <1>3, <1>4, <2>1 DEF SessionLeft
<1>9. ASSUME \/ Tick \/ UNCHANGED vars \/ \E n \in Notifications : Cancel(n)
      PROVE  SessionLeft /\ \A e \in Callers : CallLeft(e)
  <2>1. UNCHANGED <<calls, accountStatus, adminLocked, partners, activePartners, pc, accountSeen>>
    BY <1>9 DEF Tick, vars, Cancel, accountVars, workerVars, localVars
  <2> QED
    BY <1>2, <2>1 DEF SessionLeft
<1>10. CASE Edit
  <2>1. calls' = Witnessed /\ UNCHANGED <<pc, accountSeen>>
    BY <1>10 DEF Edit, workerVars, localVars
  <2>2. ASSUME NEW e \in Callers, calls[e] # NoCall
        PROVE  CallLeft(e)
    <3>1. calls'[e] = [calls[e] EXCEPT !.barred = @ \cup Barred(AccountNow)']
      BY <2>1, <2>2 DEF Witnessed
    <3>2. calls'[e].barred = calls[e].barred \cup Barred(AccountNow)'
      BY <1>0, <3>1 DEF Call, CallRecord
    <3> QED
      BY <3>1, <3>2 DEF CallLeft
  <2>3. \A e \in Callers : calls[e] = NoCall => calls'[e] = NoCall
    BY <2>1 DEF Witnessed
  <2> QED
    BY <2>1, <2>2, <2>3 DEF SessionLeft, CallLeft
<1> QED
  BY <1>6, <1>7, <1>8, <1>9, <1>10 DEF Next, CallMoves, WorkerStep, LifecycleStep, Workers

\* A call that goes on to its next message, or ends there
LEMMA GoesOn ==
  ASSUME NEW e \in Callers, NEW call \in Call, NEW kept \in AccountSnapshot,
         calls'[e] = AfterErasure(call, kept),
         e = Scheduler => accountSeen'[Scheduler] = kept, clock' \in Nat,
         Barred(AccountNow)' \subseteq call.barred,
         kept # NoAccountSeen /\ ~Allows(kept) => People \subseteq call.barred,
         call.goal = "disable" => call.person \in call.barred
  PROVE  CallExplained(e)'
<1>1. CASE call.todo = {}
  <2>1. /\ calls'[e].step = "idle" /\ calls'[e].goal = "none" /\ calls'[e].at = 0
    BY <1>1 DEF NoCall, AfterErasure
  <2> QED
    BY <2>1
    DEF CallExplained, BarredWitnessed, RowsWitnessed, DisabledWitnessed, FacedWitnessed,
        UnreadWitnessed
<1>2. CASE call.todo # {}
  <2>1. /\ calls'[e].step = "next" /\ calls'[e].goal = call.goal
        /\ calls'[e].person = call.person /\ calls'[e].account = kept
        /\ calls'[e].at = 0 /\ calls'[e].barred = call.barred
    BY <1>2 DEF AfterErasure, Call, CallRecord
  <2>2. Kept(e)' \in {NoAccountSeen, kept}
    BY <2>1 DEF Kept
  <2> QED
    BY <2>1, <2>2
    DEF CallExplained, BarredWitnessed, RowsWitnessed, DisabledWitnessed, FacedWitnessed,
        UnreadWitnessed
<1> QED
  BY <1>1, <1>2

\* A call's next step leaves the other calls alone and the database's rows of who may read,
\* but for a partner it disables.
LEMMA StepLeaves ==
  ASSUME RelayInv, NEW e \in Callers, CallStep(e)
  PROVE  \A other \in Callers \ {e} : CallLeft(other)
<1>0. calls \in [Callers -> Call]
  BY DEF RelayInv, TypeOK, OtherTypes
<1>1. \A f \in Callers :
        /\ calls[f] = [calls[f] EXCEPT !.barred = calls[f].barred]
        /\ calls[f].step # "idle" => Barred(AccountNow) \subseteq calls[f].barred
  BY <1>0
  DEF RelayInv, CallInv, CallExplained, BarredWitnessed, Call, CallRecord
<1>2. CASE DisablePartner(e)
  <2> SUFFICES ASSUME NEW f \in Callers \ {e}, calls[f] # NoCall PROVE CallLeft(f)
    BY <1>0, <1>2 DEF DisablePartner, Witnessed, CallLeft
  <2>1. calls'[f] = [calls[f] EXCEPT !.barred = @ \cup Barred(AccountNow)']
    BY <1>2 DEF DisablePartner, Witnessed
  <2>2. calls'[f].barred = calls[f].barred \cup Barred(AccountNow)'
    BY <1>0, <2>1 DEF Call, CallRecord
  <2> QED
    BY <2>1, <2>2 DEF CallLeft
<1>3. CASE ~DisablePartner(e)
  <2>1. \A f \in Callers \ {e} : calls'[f] = calls[f]
    BY <1>0, <1>3
    DEF CallStep, Proceed, Stop, Check, Refuse, ConfirmRead, ListMessages, NextMessage,
        Survey, LookUp, Weigh, EraseIfComplete
  <2>2. UNCHANGED <<accountStatus, adminLocked, partners, activePartners>>
    BY <1>3
    DEF CallStep, accountVars, Check, Refuse, ConfirmRead, ListMessages, NextMessage,
        Survey, LookUp, Weigh, EraseIfComplete
  <2>3. Barred(AccountNow)' = Barred(AccountNow)
    BY <2>2 DEF Barred, AccountNow, Allows
  <2> QED
    BY <1>1, <2>1, <2>3 DEF CallLeft
<1> QED
  BY <1>2, <1>3

\* What a call that takes a step knows
LEMMA CallKnows ==
  ASSUME RelayInv, NEW e \in Callers, CallStep(e)
  PROVE  /\ calls[e] \in Call /\ calls[e].step # "idle"
         /\ Barred(AccountNow) \subseteq calls[e].barred
         /\ ~Allows(AccountNow) => People \subseteq calls[e].barred
         /\ \A p \in Partners : p \notin partners \cap activePartners => p \in calls[e].barred
         /\ calls[e].step \notin {"account", "row", "disabling"} /\ calls[e].goal = "disable" =>
              calls[e].person \in calls[e].barred
         /\ \A account \in {calls[e].account, Kept(e)} \ {NoAccountSeen} :
              ~Allows(account) => People \subseteq calls[e].barred
<1>1. calls[e] \in Call /\ CallExplained(e)
  BY DEF RelayInv, TypeOK, OtherTypes, CallInv
<1>2. calls[e].step # "idle"
  BY DEF CallStep, Checks, Check, Refuse, ConfirmRead, DisablePartner, ListMessages,
         NextMessage, Survey, LookUp, Weigh, EraseIfComplete
<1>3. Barred(AccountNow) \subseteq calls[e].barred
  BY <1>1, <1>2 DEF CallExplained, BarredWitnessed
<1>4. ~Allows(AccountNow) => People \subseteq calls[e].barred
  BY <1>3 DEF Barred
<1>5. \A p \in Partners : p \notin partners \cap activePartners => p \in calls[e].barred
  BY <1>3 DEF Barred, People
<1> QED
  BY <1>1, <1>2, <1>3, <1>4, <1>5 DEF CallExplained, RowsWitnessed, DisabledWitnessed

\* Checks that read nothing but what is so now, a mark, a withdrawal that everybody witnesses
LEMMA RequestExplained ==
  ASSUME RelayInv, NEW e \in Callers, CallStep(e),
         Check(e) \/ Refuse(e) \/ ConfirmRead(e) \/ DisablePartner(e) \/ ListMessages(e)
  PROVE  CallExplained(e)'
<1> DEFINE call == calls[e]
<1>0. /\ call \in Call /\ calls \in [Callers -> Call] /\ clock \in Nat
      /\ partners \subseteq Partners /\ activePartners \subseteq Partners
      /\ UNCHANGED <<clock, accountStatus, adminLocked, partners>>
      /\ CallExplained(e)
  BY CallShape DEF CallMoves, RelayInv, TypeOK, OtherTypes, AccountTypes, CallInv
<1>1. e # Scheduler
  <2>1. calls[Scheduler].step \in {"idle", "next", "surveying", "weighing", "facing"}
    BY DEF RelayInv, CallInv, SweepCalls
  <2>2. calls[e].step \in Checks \cup {"marking", "disabling", "listing"}
    BY DEF Check, Refuse, ConfirmRead, DisablePartner, ListMessages
  <2> QED
    BY <2>1, <2>2 DEF Checks
<1>2. CASE Check(e)
  <2> DEFINE keeps == call.step = "account" /\ (call.goal = "disable" \/ call.person = Owner)
  <2>1. /\ calls'[e].step = Following(call) /\ calls'[e].goal = call.goal
        /\ calls'[e].person = call.person /\ calls'[e].barred = call.barred
        /\ calls'[e].account = IF keeps THEN AccountNow ELSE call.account
        /\ calls'[e].active = (call.step = "row" /\ call.person \in activePartners)
        /\ calls'[e].at \in {call.at, clock}
        /\ UNCHANGED activePartners
    BY <1>0, <1>2 DEF Check, Proceed, Call, CallRecord, accountVars
  <2>2. /\ call.step \in Checks /\ Passes(call)
        /\ Following(call) \notin {"idle", "weighing", "facing", "listing"}
    BY <1>2 DEF Check, Checks, Following
  <2>3. Barred(AccountNow)' = Barred(AccountNow)
    BY <1>0, <2>1 DEF Barred, AccountNow, Allows
  <2>4. calls'[e].at <= clock'
    BY <1>0, <2>1 DEF CallExplained, Call, CallRecord
  <2>5. BarredWitnessed(e)'
    BY <2>1, <2>3, CallKnows DEF BarredWitnessed
  <2>6. RowsWitnessed(e)'
    BY <1>1, <2>1, CallKnows DEF RowsWitnessed, Kept
  <2>7. DisabledWitnessed(e)'
    <3> SUFFICES ASSUME call.goal = "disable"
                 PROVE  \/ calls'[e].step = "row"
                        \/ calls'[e].step = "disabling" /\ calls'[e].active
                        \/ call.person \in call.barred
      BY <2>1 DEF DisabledWitnessed
    <3>1. CASE call.step = "account"
      BY <2>1, <3>1 DEF Following
    <3>2. CASE call.step = "row"
      <4>1. calls'[e].step = "disabling" /\ call.person \in Partners
        BY <1>0, <2>1, <2>2, <3>2 DEF Following, Passes
      <4> QED
        BY <2>1, <3>2, <4>1, CallKnows
    <3>3. CASE call.step \notin {"account", "row"}
      BY <2>2, <3>3, CallKnows DEF Checks
    <3> QED
      BY <3>1, <3>2, <3>3
  <2>8. FacedWitnessed(e)' /\ UnreadWitnessed(e)'
    BY <2>1, <2>2 DEF FacedWitnessed, UnreadWitnessed
  <2> QED
    BY <2>4, <2>5, <2>6, <2>7, <2>8 DEF CallExplained
<1>3. CASE Refuse(e)
  <2>1. /\ calls'[e].step = "idle" /\ calls'[e].goal = "none" /\ calls'[e].at = 0
    BY <1>0, <1>3 DEF Refuse, Stop, NoCall
  <2> QED
    BY <1>0, <2>1
    DEF CallExplained, BarredWitnessed, RowsWitnessed, DisabledWitnessed, FacedWitnessed,
        UnreadWitnessed
<1>4. CASE ConfirmRead(e) \/ DisablePartner(e)
  <2>1. /\ calls'[e].step \in {"surveying", "listing"} /\ calls'[e].goal = call.goal
        /\ calls'[e].person = call.person /\ calls'[e].account = call.account
        /\ calls'[e].at = call.at /\ call.barred \subseteq calls'[e].barred
        /\ Barred(AccountNow)' \subseteq calls'[e].barred
    <3>1. CASE ConfirmRead(e)
      <4>1. UNCHANGED activePartners
        BY <3>1 DEF ConfirmRead, accountVars
      <4>2. Barred(AccountNow)' = Barred(AccountNow)
        BY <1>0, <4>1 DEF Barred, AccountNow, Allows
      <4> QED
        BY <1>0, <3>1, <4>2, CallKnows DEF ConfirmRead, Proceed, Call, CallRecord
    <3>2. CASE DisablePartner(e)
      <4>1. call # NoCall
        BY <3>2 DEF DisablePartner, NoCall
      <4>2. Witnessed[e] = [call EXCEPT !.barred = @ \cup Barred(AccountNow)']
        BY <4>1 DEF Witnessed
      <4>3. calls' = [Witnessed EXCEPT ![e].step = "listing", ![e].active = FALSE]
        BY <3>2 DEF DisablePartner
      <4>4. Witnessed \in [Callers -> Call]
        BY <1>0, WitnessedType
      <4>5. calls'[e] = [Witnessed[e] EXCEPT !.step = "listing", !.active = FALSE]
        BY <4>3, <4>4 DEF Call, CallRecord
      <4> QED
        BY <1>0, <4>2, <4>5 DEF Call, CallRecord
    <3> QED
      BY <1>4, <3>1, <3>2
  <2>2. DisabledWitnessed(e)'
    <3> SUFFICES ASSUME call.goal = "disable" PROVE call.person \in calls'[e].barred
      BY <2>1 DEF DisabledWitnessed
    <3>1. CASE DisablePartner(e) /\ call.active
      <4>1. call.person \in partners /\ activePartners' = activePartners \ {call.person}
        BY <3>1 DEF DisablePartner
      <4>2. call.person \in Barred(AccountNow)'
        BY <1>0, <4>1 DEF Barred, People
      <4> QED
        BY <2>1, <4>2
    <3>2. CASE ConfirmRead(e) \/ ~call.active
      <4>1. call.step \in {"marking", "disabling"} /\ (call.step = "disabling" => ~call.active)
        BY <1>4, <3>2 DEF ConfirmRead, DisablePartner
      <4>2. call.person \in call.barred
        BY <1>0, <4>1 DEF CallExplained, DisabledWitnessed
      <4> QED
        BY <2>1, <4>2
    <3> QED
      BY <1>4, <3>1, <3>2
  <2>3. BarredWitnessed(e)' /\ FacedWitnessed(e)' /\ UnreadWitnessed(e)'
    BY <2>1 DEF BarredWitnessed, FacedWitnessed, UnreadWitnessed
  <2>4. RowsWitnessed(e)'
    BY <1>1, <2>1, CallKnows DEF RowsWitnessed, Kept
  <2>5. calls'[e].at <= clock'
    BY <1>0, <2>1 DEF CallExplained
  <2> QED
    BY <2>2, <2>3, <2>4, <2>5 DEF CallExplained
<1>5. CASE ListMessages(e)
  <2> DEFINE next == [call EXCEPT !.todo = {n \in Notifications : call.person \in recipients[n]}]
  <2>1. /\ next \in Call /\ call.account \in AccountSnapshot
        /\ next.barred = call.barred /\ next.goal = call.goal /\ next.person = call.person
    BY <1>0 DEF Call, CallRecord, AboutNoNote
  <2>2. calls'[e] = AfterErasure(next, call.account)
    BY <1>0, <1>5 DEF ListMessages, Proceed
  <2>3. Barred(AccountNow)' = Barred(AccountNow)
    BY <1>5 DEF ListMessages, accountVars, Barred, AccountNow, Allows
  <2>4. call.step = "listing"
    BY <1>5 DEF ListMessages
  <2> HIDE DEF next
  <2> QED
    BY <1>0, <1>1, <2>1, <2>2, <2>3, <2>4, CallKnows, GoesOn
<1> QED
  BY <1>2, <1>3, <1>4, <1>5

\* The walk through the messages and their unread recipients
LEMMA ErasureExplained ==
  ASSUME RelayInv, NEW e \in Callers, CallStep(e),
         \/ Survey(e) \/ Weigh(e) \/ EraseIfComplete(e)
         \/ \E n \in Notifications : NextMessage(e, n)
         \/ \E p \in People : LookUp(e, p)
  PROVE  CallExplained(e)'
<1> DEFINE call == calls[e]
<1>0. /\ call \in Call /\ calls \in [Callers -> Call] /\ clock \in Nat
      /\ UNCHANGED <<clock, accountStatus, adminLocked, partners, nstatus, recipients,
                     frozenAt, workerVars>>
      /\ CallExplained(e) /\ Kept(e) \in AccountSnapshot
  BY CallShape, KeptType DEF CallMoves, RelayInv, TypeOK, OtherTypes, CallInv
<1>1. call.step \in {"next", "surveying", "weighing", "facing"} /\ UNCHANGED activePartners
  BY DEF Survey, Weigh, EraseIfComplete, NextMessage, LookUp, accountVars
<1>2. Barred(AccountNow)' = Barred(AccountNow)
  BY <1>0, <1>1 DEF Barred, AccountNow, Allows
<1>3. UNCHANGED accountSeen
  BY <1>0 DEF workerVars, localVars
<1>4. call.goal = "disable" => call.person \in call.barred
  BY <1>1, CallKnows
<1>5. ASSUME calls'[e] = AfterErasure(call, Kept(e)) PROVE CallExplained(e)'
  <2>1. e = Scheduler => accountSeen'[Scheduler] = Kept(e)
    BY <1>3 DEF Kept
  <2> QED
    BY <1>0, <1>2, <1>4, <1>5, <2>1, CallKnows, GoesOn
\* a step that stays within the message being weighed
<1>6. ASSUME NEW next \in Call, calls'[e] = next,
             next.step \in {"surveying", "weighing", "facing"},
             next.goal = call.goal, next.person = call.person, next.barred = call.barred,
             next.account \in {call.account, Kept(e)}
               \/ (~Allows(next.account) => People \subseteq call.barred),
             next.at <= clock, UnreadWitnessed(e)', FacedWitnessed(e)'
      PROVE  CallExplained(e)'
  <2>1. BarredWitnessed(e)' /\ DisabledWitnessed(e)'
    BY <1>2, <1>4, <1>6, CallKnows DEF BarredWitnessed, DisabledWitnessed
  <2>2. Kept(e)' \in {NoAccountSeen, next.account, Kept(e)}
    BY <1>3, <1>6 DEF Kept
  <2>3. RowsWitnessed(e)'
    BY <1>6, <2>2, CallKnows DEF RowsWitnessed
  <2> QED
    BY <1>0, <1>6, <2>1, <2>3 DEF CallExplained
<1>7. ASSUME NEW n \in Notifications, NextMessage(e, n) PROVE CallExplained(e)'
  <2> DEFINE next == calls'[e]
  <2>1. /\ next.step = "surveying" /\ next.goal = call.goal /\ next.person = call.person
        /\ next.barred = call.barred /\ next.account = call.account
        /\ next.at = IF e = Scheduler THEN started[Scheduler] ELSE clock
    BY <1>0, <1>7 DEF NextMessage, Proceed, Call, CallRecord
  <2>2. next \in Call
    BY CallTypes DEF CallMoves, RelayInv
  <2>3. next.at <= clock
    BY <1>0, <2>1, SchedulerIsWorker DEF RelayInv, HandInv, StartedPast
  <2>4. UnreadWitnessed(e)' /\ FacedWitnessed(e)'
    BY <2>1 DEF UnreadWitnessed, FacedWitnessed
  <2> HIDE DEF next
  <2> QED
    BY <1>6, <2>1, <2>2, <2>3, <2>4 DEF next
<1>8. CASE Survey(e)
  <2> DEFINE unread == recipients[call.note] \ readBy[call.note]
             next == [call EXCEPT !.step = "weighing", !.left = unread]
  <2>1. call.note \in Notifications /\ UNCHANGED readBy
    BY <1>0, <1>8 DEF Survey, Call, AboutNoNote, noteVars
  <2>2. CASE payload[call.note] /\ recipients[call.note] # {}
    <3>1. calls'[e] = next
      BY <1>0, <1>8, <2>2 DEF Survey, Proceed
    <3>2. /\ next.step = "weighing" /\ next.goal = call.goal /\ next.person = call.person
          /\ next.barred = call.barred /\ next.account = call.account /\ next.at = call.at
          /\ next.note = call.note /\ next.left = unread
      BY <1>0 DEF Call, CallRecord
    <3>3. next \in Call
      BY <3>1, CallTypes DEF CallMoves, RelayInv
    <3>4. frozenAt[call.note] # 0
      BY <2>1, <2>2 DEF RelayInv, RowInv, UnreleasedFree
    <3>5. UnreadWitnessed(e)' /\ FacedWitnessed(e)'
      <4> HIDE DEF next
      <4> QED
        BY <1>0, <2>1, <2>2, <3>1, <3>2, <3>4 DEF UnreadWitnessed, FacedWitnessed
    <3> HIDE DEF next
    <3> QED
      BY <1>0, <1>6, <3>1, <3>2, <3>3, <3>5 DEF CallExplained
  <2>3. CASE ~(payload[call.note] /\ recipients[call.note] # {})
    BY <1>0, <1>5, <1>8, <2>3 DEF Survey, Proceed
  <2> QED
    BY <2>2, <2>3
<1>9. ASSUME NEW p \in People, LookUp(e, p) PROVE CallExplained(e)'
  <2> DEFINE next == calls'[e]
             found == p = Owner \/ p \in partners \/ RowKept(call, p)
  <2>1. call.step = "weighing" /\ UNCHANGED readBy
    BY <1>9 DEF LookUp, noteVars
  <2>2. /\ next.goal = call.goal /\ next.person = call.person /\ next.at = call.at
        /\ next.barred = call.barred /\ next.note = call.note
        /\ found => /\ next.step = "facing" /\ next.facing = p
                    /\ next.left = call.left /\ next.account = call.account
                    /\ next.active = (p = Owner \/ (p \in activePartners /\ ~RowKept(call, p)))
        /\ ~found => /\ next.step = "weighing" /\ next.left = call.left \ {p}
                     /\ next.account = Kept(e)
    BY <1>0, <1>9 DEF LookUp, Proceed, Call, CallRecord
  <2>3. next \in Call
    BY <1>9, CallTypes DEF CallMoves, CallStep, RelayInv
  <2>4. ~found => p \in call.barred
    BY CallKnows DEF People
  <2>5. found => FacedWitnessed(e)'
    BY <1>4, <2>2, CallKnows DEF FacedWitnessed, RowKept, People
  <2>6. ~found => FacedWitnessed(e)'
    BY <2>2 DEF FacedWitnessed
  <2>7. UnreadWitnessed(e)'
    <3>1. UnreadWitnessed(e)
      BY <1>0 DEF CallExplained
    <3> HIDE DEF found, next
    <3> QED
      BY <1>0, <2>1, <2>2, <2>4, <3>1 DEF UnreadWitnessed, Exists, next
  <2>8. next.at <= clock
    BY <1>0, <2>2 DEF CallExplained
  <2> HIDE DEF found, next
  <2> QED
    BY <1>6, <2>2, <2>3, <2>5, <2>6, <2>7, <2>8 DEF next
<1>10. CASE Weigh(e)
  <2> DEFINE account == IF call.account = NoAccountSeen THEN AccountNow ELSE call.account
             next == [call EXCEPT !.step = "weighing", !.left = @ \ {call.facing},
                                  !.facing = Owner, !.active = FALSE, !.account = account]
  <2>1. call.step = "facing" /\ UNCHANGED readBy
    BY <1>10 DEF Weigh, noteVars
  <2>2. CASE Blocks(call, account)
    BY <1>0, <1>5, <1>10, <2>2 DEF Weigh, Proceed
  <2>3. CASE ~Blocks(call, account)
    <3>1. calls'[e] = next
      BY <1>0, <1>10, <2>3 DEF Weigh, Proceed
    <3>2. /\ next.step = "weighing" /\ next.goal = call.goal /\ next.person = call.person
          /\ next.barred = call.barred /\ next.account = account /\ next.at = call.at
          /\ next.note = call.note /\ next.left = call.left \ {call.facing}
      BY <1>0 DEF Call, CallRecord
    <3>3. next \in Call
      BY <3>1, CallTypes DEF CallMoves, RelayInv
    <3>4. ~Allows(account) => People \subseteq call.barred
      BY CallKnows
    <3>5. call.facing \in call.barred
      <4>1. call.facing \in People /\ FacedWitnessed(e)
        BY <1>0 DEF Call, CallRecord, CallExplained
      <4> QED
        BY <2>1, <2>3, <3>4, <4>1 DEF Blocks, FacedWitnessed
    <3>6. FacedWitnessed(e)'
      BY <3>1, <3>2 DEF FacedWitnessed
    <3>7. UnreadWitnessed(e)'
      <4>1. UnreadWitnessed(e)
        BY <1>0 DEF CallExplained
      <4> HIDE DEF next
      <4> QED
        BY <1>0, <2>1, <3>1, <3>2, <3>5, <4>1 DEF UnreadWitnessed, Exists
    <3>8. next.at <= clock
      BY <1>0, <3>2 DEF CallExplained
    <3> HIDE DEF next, account
    <3> QED
      BY <1>6, <3>1, <3>2, <3>3, <3>4, <3>6, <3>7, <3>8
  <2> QED
    BY <2>2, <2>3
<1>11. CASE EraseIfComplete(e)
  BY <1>0, <1>5, <1>11 DEF EraseIfComplete, Proceed
<1> QED
  BY <1>7, <1>8, <1>9, <1>10, <1>11

\* The maintenance pass's first erasure begins a call that goes by the account as it is now.
LEMMA SweepBegins ==
  ASSUME RelayInv, TypeOK', LifecycleErase PROVE CallInv'
<1>0. /\ calls \in [Callers -> Call] /\ Scheduler \in Callers /\ Scheduler \in Workers
      /\ accountSeen \in [Workers -> AccountSnapshot] /\ pc \in [Workers -> Labels]
      /\ clock' \in Nat
  BY SchedulerIsWorker DEF RelayInv, TypeOK, OtherTypes, WorkerTypes, Callers
<1>1. pc[Scheduler] = "maintaining" /\ calls[Scheduler].step = "idle" /\ pc'[Scheduler] = "sweeping"
  BY <1>0 DEF LifecycleErase, Goto, RelayInv, CallInv, SweepCalls
<1>2. PastKept
  BY PastStays DEF Next, LifecycleStep
<1>3. \A e \in Callers : CallExplained(e)
  BY DEF RelayInv, CallInv
<1>4. \A e \in Callers :
        /\ calls[e] = NoCall => Witnessed[e] = NoCall
        /\ calls[e] # NoCall =>
             Witnessed[e] = [calls[e] EXCEPT !.barred = @ \cup Barred(AccountNow)']
  BY DEF Witnessed
<1>5. ASSUME NEW e \in Callers, calls'[e] = Witnessed[e] PROVE CallLeft(e)
  <2>1. CASE calls[e] = NoCall
    BY <1>4, <1>5, <2>1 DEF CallLeft
  <2>2. CASE calls[e] # NoCall
    <3>1. calls'[e] = [calls[e] EXCEPT !.barred = @ \cup Barred(AccountNow)']
      BY <1>4, <1>5, <2>2
    <3>2. calls'[e].barred = calls[e].barred \cup Barred(AccountNow)'
      BY <1>0, <3>1 DEF Call, CallRecord
    <3> QED
      BY <3>1, <3>2 DEF CallLeft
  <2> QED
    BY <2>1, <2>2
<1>6. CASE calls' = Witnessed
  <2>1. calls'[Scheduler].step = "idle"
    BY <1>0, <1>1, <1>4, <1>6 DEF Call, CallRecord, NoCall
  <2>2. SessionLeft
    BY <2>1 DEF SessionLeft
  <2> QED
    BY <1>0, <1>1, <1>2, <1>3, <1>5, <1>6, <2>1, <2>2, CallStays
    DEF RelayInv, CallInv, SweepCalls
<1>7. CASE calls' # Witnessed
  <2> DEFINE account == [status |-> accountStatus', locked |-> adminLocked]
  <2>1. PICK todo \in SUBSET Notifications, kept \in {NoAccountSeen, account} :
          /\ accountSeen' = [accountSeen EXCEPT ![Scheduler] = kept]
          /\ calls' = [Witnessed EXCEPT ![Scheduler] =
                         AfterErasure([NoCall EXCEPT
                           !.goal = "sweep", !.todo = todo,
                           !.account = kept, !.barred = Barred(account)], kept)]
    BY <1>7 DEF LifecycleErase, Complete
  <2>2. account = AccountNow' /\ account \in AccountSnapshot /\ Barred(account) \subseteq People
    BY DEF LifecycleErase, AccountNow, AccountSnapshot, TypeOK, AccountTypes, Barred
  <2>3. NoAccountSeen \in AccountSnapshot
    BY DEF NoAccountSeen, AccountSnapshot
  <2>4. UNCHANGED <<partners, activePartners>>
    BY DEF LifecycleErase
  <2>5. Barred(AccountNow)' = Barred(account)
    BY <2>2, <2>4 DEF Barred
  <2> DEFINE call == [NoCall EXCEPT !.goal = "sweep", !.todo = todo, !.account = kept,
                                    !.barred = Barred(account)]
  <2>6. ~Allows(account) => People \subseteq Barred(account)
    BY DEF Barred
  <2> HIDE DEF account
  <2>7. call \in Call /\ call.barred = Barred(account) /\ call.goal = "sweep"
    BY <2>2, <2>3, NoCallType DEF Call, CallRecord, AboutNoNote, NoCall
  <2>8. Witnessed \in [Callers -> Call]
    BY <1>0, WitnessedType
  <2>9. calls'[Scheduler] = AfterErasure(call, kept) /\ accountSeen'[Scheduler] = kept
    BY <1>0, <2>1, <2>8
  <2>10. kept \in AccountSnapshot /\ (kept # NoAccountSeen => kept = account)
    BY <2>2, <2>3
  <2>11. CallExplained(Scheduler)'
    <3> HIDE DEF call
    <3> QED
      BY <1>0, <2>5, <2>6, <2>7, <2>9, <2>10, GoesOn
  <2>12. \A e \in Callers \ {Scheduler} : CallExplained(e)'
    <3>1. \A e \in Callers \ {Scheduler} : calls'[e] = Witnessed[e]
      BY <2>1, <2>8
    <3>2. ASSUME NEW e \in Callers \ {Scheduler}, CallLeft(e), CallExplained(e)
          PROVE  CallExplained(e)'
      <4> QED
        BY <1>2, <3>2, CallStays DEF RelayInv
    <3> QED
      BY <1>3, <1>5, <3>1, <3>2
  <2>13. calls'[Scheduler].step \in {"idle", "next"}
    BY <2>7, <2>9 DEF AfterErasure, NoCall, Call, CallRecord
  <2> QED
    BY <1>1, <2>11, <2>12, <2>13 DEF CallInv, SweepCalls
<1> QED
  BY <1>6, <1>7

LEMMA CallInit == Init => CallInv
<1> SUFFICES ASSUME Init PROVE CallInv
  OBVIOUS
<1>1. /\ \A e \in Callers : calls[e] = NoCall
      /\ Scheduler \in Callers /\ clock = 1
  BY DEF Init, Callers
<1>2. NoCall.step = "idle" /\ NoCall.goal = "none" /\ NoCall.at = 0
  BY DEF NoCall
<1> QED
  BY <1>1, <1>2
  DEF CallInv, SweepCalls, CallExplained, BarredWitnessed, RowsWitnessed, DisabledWitnessed,
      FacedWitnessed, UnreadWitnessed

LEMMA CallNext == ASSUME RelayInv, TypeOK', [Next]_vars PROVE CallInv'
<1>0. /\ calls \in [Callers -> Call] /\ Scheduler \in Callers /\ PastKept
      /\ \A e \in Callers : CallExplained(e)
  BY PastStays DEF RelayInv, TypeOK, OtherTypes, Callers, CallInv
<1>1. CASE LifecycleErase
  BY <1>1, SweepBegins
<1>2. CASE ~CallMoves /\ ~LifecycleErase
  <2>1. SessionLeft /\ \A e \in Callers : CallLeft(e)
    BY <1>2, OthersLeaveCalls
  <2>2. \A e \in Callers : CallExplained(e)'
    BY <1>0, <2>1, CallStays DEF RelayInv
  <2>3. calls'[Scheduler].step \in {"idle", calls[Scheduler].step}
    <3>1. CallLeft(Scheduler)
      BY <1>0, <2>1
    <3> QED
      BY <1>0, <3>1 DEF CallLeft, NoCall, Call, CallRecord
  <2> QED
    BY <2>1, <2>2, <2>3 DEF CallInv, SweepCalls, SessionLeft, RelayInv
<1>3. CASE CallMoves
  <2>0. UNCHANGED <<pc, accountSeen, accountStatus, adminLocked, partners>>
    BY <1>3, CallShape DEF workerVars, localVars
  <2>1. SessionLeft
    BY <2>0 DEF SessionLeft
  <2>2. ASSUME NEW e \in Callers, calls'[e] \in {NoCall, calls[e]},
               Barred(AccountNow)' \subseteq Barred(AccountNow)
        PROVE  CallExplained(e)'
    <3>1. calls[e] = [calls[e] EXCEPT !.barred = calls[e].barred]
      BY <1>0 DEF Call, CallRecord
    <3>2. CallLeft(e)
      BY <1>0, <2>2, <3>1 DEF CallLeft, CallExplained, BarredWitnessed
    <3> QED
      BY <1>0, <2>1, <3>2, CallStays DEF RelayInv
  <2>3. UNCHANGED activePartners => Barred(AccountNow)' = Barred(AccountNow)
    BY <2>0 DEF Barred, AccountNow, Allows
  \* a request that begins
  <2>4. ASSUME NEW v \in Visitors, NEW call \in Call, Proceed(v, call),
               UNCHANGED activePartners, call.step \in {"partner", "account"},
               call.goal = "disable" => call.step = "account",
               call.account = NoAccountSeen, call.at = 0, call.barred = Barred(AccountNow)
        PROVE  CallInv'
    <3>1. /\ calls'[v] = call /\ v \in Callers /\ v # Scheduler
          /\ \A e \in Callers \ {v} : calls'[e] = calls[e]
      BY <1>0, <2>4, IdentityAssumption DEF Proceed, Callers, IdentityAssumption
    <3>2. Kept(v)' = NoAccountSeen
      BY <2>4, <3>1 DEF Kept
    <3>3. CallExplained(v)'
      BY <2>3, <2>4, <3>1, <3>2
      DEF CallExplained, BarredWitnessed, RowsWitnessed, DisabledWitnessed, FacedWitnessed,
          UnreadWitnessed, TypeOK, OtherTypes
    <3>4. \A e \in Callers : CallExplained(e)'
      BY <2>2, <2>3, <2>4, <3>1, <3>3
    <3> QED
      BY <1>0, <2>0, <3>1, <3>4 DEF CallInv, SweepCalls, RelayInv
  <2>5. ASSUME NEW v \in Visitors, NEW p \in People, NEW n \in Notifications,
               ArriveToRead(v, p, n)
        PROVE  CallInv'
    <3> DEFINE call == [NoCall EXCEPT !.step = IF p = Owner THEN "account" ELSE "partner",
                                      !.goal = "read", !.person = p, !.note = n,
                                      !.barred = Barred(AccountNow)]
    <3>1. Proceed(v, call) /\ UNCHANGED activePartners
      BY <2>5 DEF ArriveToRead, accountVars
    <3>2. /\ call.step \in {"partner", "account"} /\ call.goal = "read"
          /\ call.account = NoAccountSeen /\ call.at = 0 /\ call.barred = Barred(AccountNow)
      BY DEF NoCall
    <3>3. call \in Call
      <4>1. calls' \in [Callers -> Call] /\ v \in Callers
        BY <1>3, CallTypes DEF RelayInv, Callers
      <4>2. calls'[v] = call
        BY <1>0, <3>1, <4>1 DEF Proceed
      <4> QED
        BY <4>1, <4>2
    <3> HIDE DEF call
    <3> QED
      BY <2>4, <3>1, <3>2, <3>3
  <2>6. ASSUME NEW v \in Visitors, NEW p \in Partners, ArriveToDisable(v, p) PROVE CallInv'
    <3> DEFINE call == [NoCall EXCEPT !.step = "account", !.goal = "disable", !.person = p,
                                      !.barred = Barred(AccountNow)]
    <3>1. Proceed(v, call) /\ UNCHANGED activePartners
      BY <2>6 DEF ArriveToDisable, accountVars
    <3>2. /\ call.step = "account"
          /\ call.account = NoAccountSeen /\ call.at = 0 /\ call.barred = Barred(AccountNow)
      BY DEF NoCall
    <3>3. call \in Call
      <4>1. calls' \in [Callers -> Call] /\ v \in Callers
        BY <1>3, CallTypes DEF RelayInv, Callers
      <4>2. calls'[v] = call
        BY <1>0, <3>1, <4>1 DEF Proceed
      <4> QED
        BY <4>1, <4>2
    <3> HIDE DEF call
    <3> QED
      BY <2>4, <3>1, <3>2, <3>3
  <2>7. ASSUME NEW p \in Partners, EnablePartner(p) PROVE CallInv'
    <3>1. calls' = calls /\ activePartners \subseteq activePartners'
      BY <2>7 DEF EnablePartner
    <3>2. Barred(AccountNow)' \subseteq Barred(AccountNow)
      BY <2>0, <3>1 DEF Barred, AccountNow, Allows
    <3> QED
      BY <2>0, <2>2, <3>1, <3>2 DEF CallInv, SweepCalls, RelayInv
  <2>8. CASE WebCrash
    <3>1. /\ \A e \in Callers : calls'[e] \in {NoCall, calls[e]}
          /\ calls'[Scheduler] = calls[Scheduler] /\ UNCHANGED activePartners
      BY <1>0, <2>8 DEF WebCrash, accountVars
    <3> QED
      BY <2>0, <2>2, <2>3, <3>1 DEF CallInv, SweepCalls, RelayInv
  <2>9. ASSUME NEW e \in Callers, CallStep(e) PROVE CallInv'
    <3>1. CallExplained(e)'
      BY <2>9, RequestExplained, ErasureExplained DEF CallStep
    <3>2. \A f \in Callers \ {e} : CallExplained(f)'
      BY <1>0, <2>1, <2>9, StepLeaves, CallStays DEF RelayInv
    <3>3. SweepCalls'
      <4>1. CASE e # Scheduler
        <5>1. CallLeft(Scheduler)
          BY <1>0, <2>9, <4>1, StepLeaves
        <5>2. calls'[Scheduler].step \in {"idle", calls[Scheduler].step}
          BY <1>0, <5>1 DEF CallLeft, NoCall, Call, CallRecord
        <5> QED
          BY <2>0, <5>2 DEF RelayInv, CallInv, SweepCalls
      <4>2. CASE e = Scheduler
        <5>1. /\ calls[e].step \in {"next", "surveying", "weighing", "facing"}
              /\ pc[Scheduler] = "sweeping" /\ calls[e] \in Call
          BY <1>0, <2>9, <4>2, CallKnows DEF RelayInv, CallInv, SweepCalls
        <5>2. \/ Survey(e) \/ Weigh(e) \/ EraseIfComplete(e)
              \/ \E n \in Notifications : NextMessage(e, n)
              \/ \E p \in People : LookUp(e, p)
          BY <2>9, <5>1
          DEF CallStep, Checks, Check, Refuse, ConfirmRead, DisablePartner, ListMessages
        <5>3. AfterErasure(calls[e], Kept(e)).step \in {"idle", "next"}
          BY <5>1 DEF AfterErasure, NoCall, Call, CallRecord
        <5>4. calls'[e].step \in {"idle", "next", "surveying", "weighing", "facing"}
          <6>1. CASE Survey(e)
            <7> DEFINE next == [calls[e] EXCEPT !.step = "weighing",
                                  !.left = recipients[calls[e].note] \ readBy[calls[e].note]]
            <7>1. calls'[e] \in {AfterErasure(calls[e], Kept(e)), next}
              BY <1>0, <6>1 DEF Survey, Proceed
            <7>2. next.step = "weighing"
              BY <5>1 DEF Call, CallRecord
            <7> QED
              BY <5>3, <7>1, <7>2
          <6>2. CASE EraseIfComplete(e)
            <7>1. calls'[e] = AfterErasure(calls[e], Kept(e))
              BY <1>0, <6>2 DEF EraseIfComplete, Proceed
            <7> QED
              BY <5>3, <7>1
          <6>3. CASE Weigh(e)
            <7> DEFINE account == IF calls[e].account = NoAccountSeen THEN AccountNow
                                  ELSE calls[e].account
                       next == [calls[e] EXCEPT !.step = "weighing",
                                  !.left = @ \ {calls[e].facing}, !.facing = Owner,
                                  !.active = FALSE, !.account = account]
            <7>1. calls'[e] \in {AfterErasure(calls[e], Kept(e)), next}
              BY <1>0, <6>3 DEF Weigh, Proceed
            <7>2. next.step = "weighing"
              BY <5>1 DEF Call, CallRecord
            <7> QED
              BY <5>3, <7>1, <7>2
          <6>4. ASSUME NEW n \in Notifications, NextMessage(e, n)
                PROVE  calls'[e].step = "surveying"
            BY <1>0, <5>1, <6>4 DEF Proceed, NextMessage, Call, CallRecord
          <6>5. ASSUME NEW p \in People, LookUp(e, p)
                PROVE  calls'[e].step \in {"weighing", "facing"}
            BY <1>0, <5>1, <6>5 DEF Proceed, LookUp, Call, CallRecord
          <6> QED
            BY <5>2, <6>1, <6>2, <6>3, <6>4, <6>5
        <5> QED
          BY <2>0, <4>2, <5>1, <5>4 DEF SweepCalls
      <4> QED
        BY <4>1, <4>2
    <3> QED
      BY <3>1, <3>2, <3>3 DEF CallInv
  <2> QED
    BY <1>3, <2>5, <2>6, <2>7, <2>8, <2>9 DEF CallMoves
<1> QED
  BY <1>1, <1>2, <1>3

LEMMA RelayInvNext == RelayInv /\ [Next]_vars => RelayInv'
<1> SUFFICES ASSUME RelayInv, [Next]_vars PROVE RelayInv'
  OBVIOUS
<1>1. TypeOK' /\ CurrentKnown' /\ CancelInv'
  BY TypeNext, CancelNext DEF RelayInv
<1>2. RowInv' /\ HandInv'
  BY RowsNext DEF RelayInv
<1>3. CallInv'
  BY <1>1, CallNext
<1> QED
  BY <1>1, <1>2, <1>3 DEF RelayInv

LEMMA RelayInvariant == Spec => []RelayInv
<1>1. Init => RelayInv
  BY TypeInit, CancelInit, RowsInit, CallInit DEF RelayInv
<1> QED
  BY <1>1, RelayInvNext, PTL DEF Spec

-----------------------------------------------------------------------------
(* What a run checks on a small instance, for every instance. *)

\* No notice leaves before the release time of its message, and each goes to a contact of
\* a recipient fixed at the release: one that was accepted has a row that was claimed, so
\* its message is released and its contact belongs to a recipient.
THEOREM SendingFollowsRelease == Spec => []SentOnlyAfterRelease
<1>1. RelayInv => SentOnlyAfterRelease
  <2> SUFFICES ASSUME RelayInv, NEW d \in Deliveries, accepted[d] > 0, Exists(Note(d))
               PROVE  /\ releaseAt[Note(d)] <= clock
                      /\ frozenAt[Note(d)] >= releaseAt[Note(d)]
                      /\ OwnerOf[Contact(d)] \in recipients[Note(d)]
    BY DEF SentOnlyAfterRelease
  <2>1. dstatus[d] # "none" /\ frozenAt[Note(d)] # 0
    BY DEF RelayInv, CancelInv, UnclaimedUnsent, UnreleasedUnsent
  <2>2. releaseAt[Note(d)] <= frozenAt[Note(d)] /\ frozenAt[Note(d)] <= clock
    BY <2>1, DeliveryParts DEF RelayInv, RowInv, ReleasedDue
  <2>3. OwnerOf[Contact(d)] \in recipients[Note(d)]
    BY <2>1 DEF RelayInv, RowInv, ToRecipients
  <2> QED
    BY <2>2, <2>3, TypedTables, DeliveryParts DEF RelayInv, Tables, Domains
<1> QED
  BY <1>1, RelayInvariant, PTL

\* A claimed delivery has the lease of its claim, and one that waits for an attempt or was
\* delivered has none, also when a delivery report or the end of the retention overtakes
\* the claim and leaves its lease behind.
THEOREM LeasesMatchClaims == Spec => []LeaseOnlyWhileClaimed
<1>1. RelayInv => LeaseOnlyWhileClaimed
  BY DEF RelayInv, RowInv
<1> QED
  BY <1>1, RelayInvariant, PTL

\* The counter of attempts stays within the limit and an open delivery has an attempt left,
\* whoever takes over whose claim.  The counter only: an attempt whose commit was lost is
\* not in it.
THEOREM AttemptsStayBounded == Spec => []AttemptsBounded
<1>1. RelayInv => AttemptsBounded
  BY DEF RelayInv, RowInv
<1> QED
  BY <1>1, RelayInvariant, PTL

\* Only Claim takes over a processing delivery, and only one whose lease had run out when
\* the worker's cycle began.
LEMMA LeasesKept == RelayInv /\ [Next]_vars => KeepsLeases
<1> SUFFICES ASSUME RelayInv, [Next]_vars, NEW d \in Deliveries,
                    dstatus[d] = "processing", dstatus'[d] = "processing",
                    startedAt'[d] # startedAt[d]
             PROVE  until[d] <= clock
  BY DEF KeepsLeases
<1>0. Domains /\ Tables
  BY TypedTables DEF RelayInv
<1>1. ~Quiet
  BY QuietKeeps DEF deliveryVars, leaseVars
<1>2. ASSUME NEW w \in Workers PROVE ~Reject(w) /\ ~Commit(w)
  BY RecordEndsClaim
<1>3. ASSUME NEW w \in Workers, NEW e \in Deliveries, Claim(w, e) PROVE until[d] <= clock
  <2>1. d = e
    BY <1>0, <1>3 DEF Claim, Tables
  <2>2. until[d] <= started[w]
    BY <1>3, <2>1 DEF Claim, Due, Claimable
  <2>3. started[w] <= clock
    BY DEF RelayInv, HandInv, StartedPast
  <2> QED
    BY <1>0, <2>2, <2>3 DEF Domains, Tables
<1>4. ASSUME \/ Edit \/ LifecycleErase \/ LifecycleExpire
             \/ \E n \in Notifications : \/ Cancel(n)
                                         \/ \E w \in Workers : Freeze(w, n) \/ Accept(w, n)
      PROVE  UNCHANGED startedAt
  BY <1>4
  DEF Edit, Bounce, DisableAdministratively, FinishReview, ChangeAccount, DeleteAccount,
      SetVerified, DeleteContact, DeletePartner, SetPartnerEnrolled, LifecycleErase,
      LifecycleExpire, Cancel, Freeze, Accept, deliveryVars, leaseVars
<1>5. CallMoves => UNCHANGED startedAt
  BY CallShape DEF deliveryVars, leaseVars
<1> QED
  BY <1>1, <1>2, <1>3, <1>4, <1>5, StepKinds

\* A live lease excludes other claims, whatever the worker that holds it does.
THEOREM LiveLeaseIsKept == Spec => LiveLeaseKept
<1>1. RelayInv /\ [Next]_vars => [KeepsLeases]_vars
  BY LeasesKept
<1> QED
  BY <1>1, RelayInvariant, PTL DEF Spec, LiveLeaseKept

\* The freeze is conditional on no earlier freeze, a released message is never accepted
\* again, and what is recorded belongs to deliveries of the release.
LEMMA ReleaseKept == RelayInv /\ [Next]_vars => KeepsRelease
<1> SUFFICES ASSUME RelayInv, [Next]_vars, NEW n \in Notifications, Exists(n)', frozenAt[n] # 0
             PROVE  /\ frozenAt'[n] = frozenAt[n] /\ releaseAt'[n] = releaseAt[n]
                    /\ recipients'[n] = recipients[n]
                    /\ payload'[n] => payload[n]
                    /\ \A c \in Contacts :
                         dstatus[<<n, c>>] = "none" => dstatus'[<<n, c>>] = "none"
  BY DEF KeepsRelease
<1> DEFINE Goal == /\ frozenAt'[n] = frozenAt[n] /\ releaseAt'[n] = releaseAt[n]
                   /\ recipients'[n] = recipients[n]
                   /\ payload'[n] => payload[n]
                   /\ \A c \in Contacts :
                        dstatus[<<n, c>>] = "none" => dstatus'[<<n, c>>] = "none"
<1>0. Domains /\ Tables
  BY TypedTables DEF RelayInv
<1>1. CASE Quiet
  BY <1>1, QuietKeeps DEF noteVars, deliveryVars
<1>2. ASSUME NEW w \in Workers, NEW m \in Notifications, Accept(w, m) PROVE Goal
  <2>1. m # n
    BY <1>2 DEF Accept, Allows, AccountNow, RelayInv, CancelInv, FreshNotes
  <2> QED
    BY <1>0, <1>2, <2>1 DEF Accept, deliveryVars, Domains, Tables
<1>3. ASSUME NEW w \in Workers, NEW m \in Notifications, Freeze(w, m) PROVE Goal
  <2>1. m # n
    BY <1>3 DEF Freeze, StillFreezable
  <2>2. \A c \in Contacts : dstatus'[<<n, c>>] = dstatus[<<n, c>>]
    BY <1>3, <2>1, DeliveryParts DEF Freeze
  <2> QED
    BY <1>0, <1>3, <2>1, <2>2 DEF Freeze, Domains, Tables
<1>4. ASSUME NEW w \in Workers, NEW d \in Deliveries, Claim(w, d) PROVE Goal
  <2>1. dstatus[d] # "none"
    BY <1>4 DEF Claim, Due, Claimable
  <2> QED
    BY <1>0, <1>4, <2>1, DeliveryParts DEF Claim, noteVars, Domains
<1>5. ASSUME NEW w \in Workers, Reject(w) \/ Commit(w) PROVE Goal
  BY <1>5, RecordEndsClaim, DeliveryParts
<1>6. ASSUME NEW m \in Notifications, Cancel(m) PROVE Goal
  BY <1>0, <1>6, DeliveryParts DEF Cancel, Domains
<1>7. CASE CallMoves
  BY <1>0, <1>7, CallShape, CallErases DEF deliveryVars, Domains
<1>8. CASE LifecycleErase
  BY <1>0, <1>8 DEF LifecycleErase, deliveryVars, Domains
<1>9. CASE LifecycleExpire
  <2>1. \A c \in Contacts : <<n, c>> \in batch[Scheduler] => dstatus[<<n, c>>] # "none"
    BY <1>9, DeliveryParts
    DEF LifecycleExpire, RelayInv, HandInv, SweepDue, CancelInv, SweepReleased
  <2> QED
    BY <1>9, <2>1, DeliveryParts DEF LifecycleExpire
<1>10. CASE Edit
  <2>1. ~DeleteAccount
    BY DEF DeleteAccount, Exists
  <2>2. ASSUME NEW d \in Deliveries, Bounce(d) PROVE Goal
    <3>1. dstatus[d] # "none"
      BY <2>2 DEF Bounce, RelayInv, CancelInv, TrackedReleased
    <3> QED
      BY <1>0, <2>2, <3>1, DeliveryParts DEF Bounce, Domains
  <2>3. ASSUME UNCHANGED <<noteVars, deliveryVars>> PROVE Goal
    BY <2>3 DEF noteVars, deliveryVars
  <2> QED
    BY <1>10, <2>1, <2>2, <2>3
    DEF Edit, DisableAdministratively, FinishReview, ChangeAccount, SetVerified,
        DeleteContact, DeletePartner, SetPartnerEnrolled
<1> QED
  BY <1>1, <1>2, <1>3, <1>4, <1>5, <1>6, <1>7, <1>8, <1>9, <1>10, StepKinds

\* A release is made once and never changes, however freezes of both processes, cancellations
\* and the maintenance pass interleave.
THEOREM ReleaseIsMadeOnce == Spec => ReleaseIsFinal
<1>1. RelayInv /\ [Next]_vars => [KeepsRelease]_vars
  BY ReleaseKept
<1> QED
  BY <1>1, RelayInvariant, PTL DEF Spec, ReleaseIsFinal

LEMMA ContentKept == RelayInv /\ [Next]_vars => KeepsContent
<1> DEFINE Goal(n) ==
      \/ cancelledAt'[n] # 0
      \/ expiresAt[n] <= clock
      \/ /\ recipients[n] # {}
         /\ \E e \in Callers : /\ Acts(e)
                               /\ recipients[n] \ readBy[n]
                                  \subseteq calls[e].barred \cup Barred(AccountNow)'
<1> SUFFICES ASSUME RelayInv, [Next]_vars, NEW n \in Notifications,
                    Exists(n), Exists(n)', payload[n], ~payload'[n]
             PROVE  Goal(n)
  BY DEF KeepsContent
<1>0. Domains /\ Tables
  BY TypedTables DEF RelayInv
<1>1. ~Quiet
  BY QuietKeeps DEF noteVars
<1>2. ASSUME NEW m \in Notifications, Cancel(m) PROVE Goal(n)
  <2>1. m = n
    BY <1>0, <1>2 DEF Cancel, Domains
  <2>2. PICK now \in 1..clock : cancelledAt' = [cancelledAt EXCEPT ![n] = now]
    BY <1>2, <2>1 DEF Cancel
  <2> QED
    BY <1>0, <2>2 DEF Domains
<1>3. CASE CallMoves
  <2>1. PICK e \in Callers : EraseIfComplete(e)
    BY <1>3
    DEF CallMoves, CallStep, noteVars, ArriveToRead, ArriveToDisable, EnablePartner, WebCrash,
        Check, Refuse, ConfirmRead, DisablePartner, ListMessages, NextMessage, Survey, LookUp,
        Weigh
  <2>2. /\ calls[e].step = "weighing" /\ calls[e].left = {} /\ calls[e].note = n
        /\ calls'[e] = AfterErasure(calls[e], Kept(e))
    BY <1>0, <2>1 DEF EraseIfComplete, Proceed, Domains, RelayInv, TypeOK, OtherTypes
  <2>3. AfterErasure(calls[e], Kept(e)).step \in {"idle", "next"}
    BY DEF AfterErasure, NoCall, RelayInv, TypeOK, OtherTypes, Call, CallRecord
  <2>4. recipients[n] # {} /\ recipients[n] \ readBy[n] \subseteq calls[e].barred
    BY <2>2 DEF RelayInv, CallInv, CallExplained, UnreadWitnessed
  <2> QED
    BY <2>2, <2>3, <2>4 DEF Acts
<1>4. CASE LifecycleErase
  <2> DEFINE account == [status |-> accountStatus', locked |-> adminLocked]
  <2>1. n \in Complete(account, started[Scheduler])
    BY <1>0, <1>4 DEF LifecycleErase, Domains
  <2>2. Barred(AccountNow)' = Barred(account)
    BY <1>4 DEF LifecycleErase, Barred, AccountNow
  <2>3. recipients[n] # {} /\ recipients[n] \ readBy[n] \subseteq Barred(AccountNow)'
    <3> HIDE DEF account
    <3> QED
      BY <2>1, <2>2 DEF Complete, Erasable
  <2>4. Acts(Scheduler) /\ Scheduler \in Callers
    BY <1>0, <1>4, SchedulerIsWorker DEF LifecycleErase, Goto, Acts, Callers, Domains
  <2> QED
    BY <2>3, <2>4
<1>5. CASE LifecycleExpire
  BY <1>0, <1>5, SchedulerIsWorker DEF LifecycleExpire, RelayInv, HandInv, SweepDue, Domains
<1>6. ASSUME Edit PROVE UNCHANGED payload
  BY <1>6
  DEF Edit, Bounce, DisableAdministratively, FinishReview, ChangeAccount, DeleteAccount,
      SetVerified, DeleteContact, DeletePartner, SetPartnerEnrolled, noteVars, Exists
<1>7. ASSUME NEW w \in Workers,
             \/ Reject(w) \/ Commit(w)
             \/ \E m \in Notifications : Freeze(w, m) \/ Accept(w, m)
             \/ \E d \in Deliveries : Claim(w, d)
      PROVE  payload'[n]
  BY <1>0, <1>7 DEF Reject, Commit, Freeze, Accept, Claim, noteVars, Domains
<1> HIDE DEF Goal
<1> QED
  BY <1>1, <1>2, <1>3, <1>4, <1>5, <1>6, <1>7, StepKinds

\* Content goes only by cancellation, at the end of its retention, or by a call during which
\* every recipient without a confirmation was barred, whatever the rows it goes by and
\* however other requests and the maintenance pass interleave with it.
THEOREM ContentIsKept == Spec => ContentKeptForReaders
<1>1. RelayInv /\ [Next]_vars => [KeepsContent]_vars
  BY ContentKept
<1> QED
  BY <1>1, RelayInvariant, PTL DEF Spec, ContentKeptForReaders

-----------------------------------------------------------------------------
(* Duplicates: whoever may still bring an acceptance is accounted for. *)

Counts ==
  /\ accepted \in [Deliveries -> Nat] /\ doubtful \in [Deliveries -> Nat]
  /\ overtaken \in [Deliveries -> Nat]
  /\ result \in [Workers -> {"none", "ok", "temporary", "permanent"}]
  /\ Lease \in Nat

LEMMA TypedCounts == TypeOK => Counts /\ Domains /\ Tables
BY TypedTables, TimesKnown DEF TypeOK, WorkerTypes, OtherTypes, Counts, Times

\* There are finitely many workers.
LEMMA FewerWorkers ==
  ASSUME NEW S \in SUBSET Workers, NEW T \in SUBSET S
  PROVE  /\ IsFiniteSet(S) /\ Cardinality(S) \in Nat /\ Cardinality(T) \in Nat
         /\ Cardinality(T) <= Cardinality(S)
         /\ T # S => Cardinality(T) + 1 <= Cardinality(S)
<1>1. IsFiniteSet(Workers)
  BY IdentityAssumption, FS_AddElement, IsFiniteSet(WebWorkers \cup {Scheduler}),
     WebWorkers \cup {Scheduler} = Workers
  DEF IdentityAssumption, Workers
<1>2. IsFiniteSet(S)
  BY <1>1, FS_Subset
<1>3. IsFiniteSet(T) /\ Cardinality(T) <= Cardinality(S) /\ (Cardinality(S) = Cardinality(T) => S = T)
  BY <1>2, FS_Subset
<1>4. Cardinality(S) \in Nat /\ Cardinality(T) \in Nat
  BY <1>2, <1>3, FS_CardinalityType
<1> QED
  BY <1>2, <1>3, <1>4

Heard(w) == pc[w] = "sent" /\ result[w] = "ok"

\* A step that adds no try and no acceptance, and after which a delivery waits for an
\* attempt, or its claimer has left it, only if it was so before, a try has ended, an
\* acceptance was lost or the delivery is new.
NoNewTry ==
  /\ UNCHANGED <<accepted, overtaken>>
  /\ \A d \in Deliveries :
       /\ doubtful'[d] \in Nat /\ doubtful'[d] >= doubtful[d]
       /\ Trying(d)' \subseteq Trying(d)
       /\ dstatus'[d] = "processing" =>
            /\ dstatus[d] = "processing"
            /\ \/ ClaimAtWork(d) => ClaimAtWork(d)'
               \/ Trying(d)' # Trying(d)
               \/ doubtful'[d] > doubtful[d]
       /\ dstatus'[d] \in {"pending", "retry_scheduled"} =>
            \/ dstatus[d] \in {"pending", "retry_scheduled"}
            \/ Trying(d)' # Trying(d)
            \/ accepted[d] = 0 /\ InNobodysHand(d)

LEMMA NoNewTryKeeps == ASSUME TypeOK, SendInv, NoNewTry PROVE SendInv'
<1>0. Counts
  BY TypedCounts
<1> SUFFICES ASSUME NEW d \in Deliveries
             PROVE  /\ accepted'[d] + Cardinality(Trying(d)') <= 1 + Excess(d)'
                    /\ dstatus'[d] \in {"pending", "retry_scheduled"} => RoomForTry(d)'
                    /\ dstatus'[d] = "processing" => RoomForTry(d)' \/ ClaimAtWork(d)'
  BY DEF SendInv, TriesExplained, RoomWhileOpen
<1> DEFINE before == Cardinality(Trying(d))
           after  == Cardinality(Trying(d)')
<1>1. Trying(d) \in SUBSET Workers /\ Trying(d)' \in SUBSET Trying(d)
  BY DEF Trying, NoNewTry
<1>2. before \in Nat /\ after \in Nat /\ after <= before /\ (Trying(d)' # Trying(d) => after + 1 <= before)
  BY <1>1, FewerWorkers
<1>3. /\ accepted[d] \in Nat /\ doubtful[d] \in Nat /\ overtaken[d] \in Nat
      /\ accepted'[d] = accepted[d] /\ overtaken'[d] = overtaken[d]
      /\ doubtful'[d] \in Nat /\ doubtful'[d] >= doubtful[d]
  BY <1>0 DEF Counts, NoNewTry
<1>4. accepted[d] + before <= 1 + doubtful[d] + overtaken[d]
  BY <1>3, <1>2 DEF SendInv, TriesExplained, Excess
<1>5. RoomForTry(d)' <=> accepted[d] + after <= doubtful'[d] + overtaken[d]
  BY <1>3 DEF RoomForTry, Excess
<1>6. RoomForTry(d) <=> accepted[d] + before <= doubtful[d] + overtaken[d]
  BY DEF RoomForTry, Excess
<1>7. Trying(d)' # Trying(d) \/ doubtful'[d] > doubtful[d] \/ RoomForTry(d) => RoomForTry(d)'
  <2> HIDE DEF before, after
  <2> QED
    BY <1>2, <1>3, <1>4, <1>5, <1>6
<1>8. accepted[d] = 0 /\ InNobodysHand(d) => RoomForTry(d)
  <2> SUFFICES ASSUME accepted[d] = 0, InNobodysHand(d) PROVE RoomForTry(d)
    OBVIOUS
  <2>1. Trying(d) = {}
    BY DEF InNobodysHand, Trying
  <2>2. before = 0
    BY <2>1, FS_EmptySet
  <2> HIDE DEF before, after
  <2> QED
    BY <1>3, <1>6, <2>2
<1>9. accepted'[d] + after <= 1 + Excess(d)'
  <2> HIDE DEF before, after
  <2> QED
    BY <1>2, <1>3, <1>4 DEF Excess
<1>10. ASSUME dstatus'[d] \in {"pending", "retry_scheduled"} PROVE RoomForTry(d)'
  BY <1>7, <1>8, <1>10 DEF NoNewTry, SendInv, RoomWhileOpen
<1>11. ASSUME dstatus'[d] = "processing" PROVE RoomForTry(d)' \/ ClaimAtWork(d)'
  BY <1>7, <1>11 DEF NoNewTry, SendInv, RoomWhileOpen
<1> QED
  BY <1>9, <1>10, <1>11

\* A step that leaves what every worker has in hand
SameHands ==
  \A w \in Workers :
    /\ pc'[w] \in InHand <=> pc[w] \in InHand
    /\ pc[w] \in InHand =>
         /\ current'[w] = current[w] /\ started'[w] = started[w]
         /\ Heard(w)' <=> Heard(w)

LEMMA SameHandsTry ==
  ASSUME TypeOK, SameHands, UNCHANGED <<startedAt, accepted, doubtful, overtaken>>,
         \A d \in Deliveries :
           /\ dstatus'[d] = "processing" => dstatus[d] = "processing"
           /\ dstatus'[d] \in {"pending", "retry_scheduled"} =>
                \/ dstatus[d] \in {"pending", "retry_scheduled"}
                \/ accepted[d] = 0 /\ InNobodysHand(d)
  PROVE  NoNewTry
<1>0. Counts
  BY TypedCounts
<1>1. ASSUME NEW d \in Deliveries
      PROVE  Trying(d)' = Trying(d) /\ (ClaimAtWork(d) => ClaimAtWork(d)')
  BY DEF SameHands, Trying, ClaimAtWork, Heard
<1> QED
  BY <1>0, <1>1 DEF NoNewTry, Counts

\* A worker leaves the delivery it has in hand: its try ends, or its acceptance is recorded
\* or lost.
LeavesHand(w) ==
  /\ pc[w] \in InHand /\ pc'[w] \notin InHand
  /\ \A v \in Workers \ {w} : UNCHANGED <<pc[v], current[v], started[v], result[v]>>
  /\ UNCHANGED <<accepted, overtaken>>
  /\ \A d \in Deliveries :
       /\ doubtful'[d] \in Nat /\ doubtful'[d] >= doubtful[d]
       /\ d # current[w] => UNCHANGED <<dstatus[d], startedAt[d]>>
       /\ d = current[w] =>
            /\ dstatus'[d] = "processing" => dstatus[d] = "processing"
            /\ Heard(w) => \/ dstatus'[d] \notin OpenStatus
                           \/ dstatus'[d] = dstatus[d] /\ doubtful'[d] > doubtful[d]

LEMMA LeavesHandTry == ASSUME NEW w \in Workers, LeavesHand(w) PROVE NoNewTry
<1> SUFFICES ASSUME NEW d \in Deliveries
             PROVE  /\ Trying(d)' \subseteq Trying(d)
                    /\ dstatus'[d] = "processing" =>
                         /\ dstatus[d] = "processing"
                         /\ \/ ClaimAtWork(d) => ClaimAtWork(d)'
                            \/ Trying(d)' # Trying(d)
                            \/ doubtful'[d] > doubtful[d]
                    /\ dstatus'[d] \in {"pending", "retry_scheduled"} =>
                         \/ dstatus[d] \in {"pending", "retry_scheduled"}
                         \/ Trying(d)' # Trying(d)
  BY DEF LeavesHand, NoNewTry
<1>1. Trying(d)' \subseteq Trying(d)
  BY DEF LeavesHand, Trying, Heard
<1>2. CASE d # current[w]
  <2>1. ClaimAtWork(d) => ClaimAtWork(d)'
    BY <1>2 DEF LeavesHand, ClaimAtWork
  <2> QED
    BY <1>1, <1>2, <2>1 DEF LeavesHand
<1>3. CASE d = current[w] /\ ~Heard(w)
  <2>1. w \in Trying(d) /\ w \notin Trying(d)'
    BY <1>3 DEF LeavesHand, Trying, Heard
  <2> QED
    BY <1>1, <1>3, <2>1 DEF LeavesHand
<1>4. CASE d = current[w] /\ Heard(w)
  BY <1>1, <1>4 DEF LeavesHand, OpenStatus
<1> QED
  BY <1>2, <1>3, <1>4

\* Steps that leave the workers' deliveries alone
LEMMA QuietTries ==
  ASSUME RelayInv,
         \/ CallMoves \/ Edit \/ LifecycleRead \/ LifecycleErase \/ LifecycleExpire \/ Tick
         \/ UNCHANGED vars
         \/ \E n \in Notifications : \/ Cancel(n)
                                     \/ \E w \in Workers : Freeze(w, n) \/ Accept(w, n)
  PROVE  NoNewTry
<1>0. Counts /\ Domains /\ Tables
  BY TypedCounts DEF RelayInv
<1> DEFINE StatusesKept ==
      \A d \in Deliveries :
        /\ dstatus'[d] = "processing" => dstatus[d] = "processing"
        /\ dstatus'[d] \in {"pending", "retry_scheduled"} =>
             \/ dstatus[d] \in {"pending", "retry_scheduled"}
             \/ accepted[d] = 0 /\ InNobodysHand(d)
<1>1. ASSUME UNCHANGED <<workerVars, deliveryVars, historyVars>> PROVE NoNewTry
  BY <1>1, SameHandsTry
  DEF RelayInv, SameHands, Heard, workerVars, localVars, deliveryVars, leaseVars, historyVars
<1>2. CASE CallMoves \/ Tick \/ UNCHANGED vars
  BY <1>1, <1>2, CallShape DEF Tick, vars
<1>3. CASE LifecycleRead \/ LifecycleErase \/ LifecycleExpire
  <2>1. /\ pc[Scheduler] \notin InHand /\ pc'[Scheduler] \notin InHand
        /\ \A w \in Workers : w # Scheduler => pc'[w] = pc[w] /\ started'[w] = started[w]
        /\ UNCHANGED <<current, result>>
    BY <1>0, <1>3, SchedulerIsWorker
    DEF LifecycleRead, LifecycleErase, LifecycleExpire, Goto, InHand, Domains
  <2>2. UNCHANGED <<startedAt, accepted, doubtful, overtaken>>
    BY <1>3
    DEF LifecycleRead, LifecycleErase, LifecycleExpire, deliveryVars, leaseVars, historyVars
  <2>3. \A d \in Deliveries : dstatus'[d] \in {dstatus[d], "cancelled"}
    BY <1>3 DEF LifecycleRead, LifecycleErase, LifecycleExpire, deliveryVars
  <2>4. SameHands
    BY <2>1 DEF SameHands, Heard
  <2> QED
    BY <2>2, <2>3, <2>4, SameHandsTry DEF RelayInv
<1>4. ASSUME NEW n \in Notifications, Cancel(n) PROVE NoNewTry
  <2>1. UNCHANGED <<workerVars, leaseVars, historyVars>>
    BY <1>4 DEF Cancel
  <2>2. \A d \in Deliveries : dstatus'[d] \in {dstatus[d], "cancelled"}
    BY <1>4 DEF Cancel
  <2> QED
    BY <2>1, <2>2, SameHandsTry
    DEF RelayInv, SameHands, Heard, workerVars, localVars, leaseVars, historyVars
<1>5. ASSUME NEW w \in Workers, NEW n \in Notifications, Freeze(w, n) PROVE NoNewTry
  <2>1. UNCHANGED <<pc, started, current, result, leaseVars, historyVars>>
    BY <1>5 DEF Freeze
  <2>2. \A d \in Deliveries : dstatus'[d] = dstatus[d] \/ (Note(d) = n /\ dstatus'[d] = "pending")
    BY <1>5 DEF Freeze
  <2>3. \A d \in Deliveries : Note(d) = n => accepted[d] = 0 /\ InNobodysHand(d)
    BY <1>5 DEF Freeze, StillFreezable, RelayInv, CancelInv, UnreleasedUnsent
  <2> QED
    BY <2>1, <2>2, <2>3, SameHandsTry DEF RelayInv, SameHands, Heard, leaseVars, historyVars
<1>6. ASSUME NEW w \in Workers, NEW n \in Notifications, Accept(w, n) PROVE NoNewTry
  <2>1. /\ UNCHANGED <<localVars, deliveryVars, historyVars>>
        /\ \A v \in Workers : pc'[v] = pc[v] \/ (pc[v] \notin InHand /\ pc'[v] \notin InHand)
    BY <1>0, <1>6 DEF Accept, Goto, InHand, Domains
  <2>2. SameHands
    BY <2>1 DEF SameHands, Heard, localVars, InHand
  <2> QED
    BY <2>1, <2>2, SameHandsTry DEF RelayInv, deliveryVars, leaseVars, historyVars
<1>7. CASE Edit
  <2>1. UNCHANGED <<workerVars, historyVars>>
    BY <1>7 DEF Edit
  <2>2. UNCHANGED startedAt
    BY <1>7
    DEF Edit, Bounce, DisableAdministratively, FinishReview, ChangeAccount, DeleteAccount,
        SetVerified, DeleteContact, DeletePartner, SetPartnerEnrolled, deliveryVars, leaseVars
  <2>3. \A d \in Deliveries : dstatus'[d] \in {dstatus[d], "permanent_failure", "none"}
    BY <1>0, <1>7
    DEF Edit, Bounce, DisableAdministratively, FinishReview, ChangeAccount, DeleteAccount,
        SetVerified, DeleteContact, DeletePartner, SetPartnerEnrolled, deliveryVars, Domains
  <2> QED
    BY <2>1, <2>2, <2>3, SameHandsTry
    DEF RelayInv, SameHands, Heard, workerVars, localVars, historyVars
<1> QED
  BY <1>2, <1>3, <1>4, <1>5, <1>6, <1>7

\* A worker's steps but for claiming and sending
LEMMA WorkerTries ==
  ASSUME RelayInv, NEW w \in Workers,
         \/ StartCycle(w) \/ ListDue(w) \/ ReadClaim(w) \/ LoseClaim(w) \/ Authorize(w)
         \/ BeginSend(w) \/ FinishCycle(w) \/ Crash(w) \/ Fail(w) \/ Reject(w) \/ Commit(w)
         \/ \E n \in Notifications : SkipFreeze(w, n)
         \/ \E d \in Deliveries : SkipClaim(w, d)
  PROVE  NoNewTry
<1>0. Counts /\ Domains /\ Tables
  BY TypedCounts DEF RelayInv
<1> DEFINE OthersSame ==
      \A v \in Workers \ {w} : UNCHANGED <<pc[v], current[v], started[v], result[v]>>
<1>1. CASE \/ StartCycle(w) \/ ListDue(w) \/ ReadClaim(w) \/ Authorize(w) \/ BeginSend(w)
           \/ FinishCycle(w)
           \/ \E n \in Notifications : SkipFreeze(w, n)
           \/ \E d \in Deliveries : SkipClaim(w, d)
  <2>1. UNCHANGED <<deliveryVars, historyVars>>
    BY <1>1
    DEF StartCycle, ListDue, ReadClaim, Authorize, BeginSend, FinishCycle, SkipFreeze, SkipClaim
  <2>2. /\ OthersSame /\ pc[w] # "sent" /\ pc'[w] # "sent"
        /\ \/ pc[w] \notin InHand /\ pc'[w] \notin InHand
           \/ /\ pc[w] \in InHand /\ pc'[w] \in InHand
              /\ current'[w] = current[w] /\ started'[w] = started[w]
    BY <1>0, <1>1
    DEF StartCycle, ListDue, ReadClaim, Authorize, BeginSend, FinishCycle, SkipFreeze, SkipClaim,
        Goto, InHand, Domains
  <2>3. SameHands
    BY <2>2 DEF SameHands, Heard
  <2> QED
    BY <2>1, <2>3, SameHandsTry DEF RelayInv, deliveryVars, leaseVars, historyVars
<1>2. CASE Crash(w) \/ Fail(w)
  <2>1. /\ OthersSame /\ pc'[w] \notin InHand
        /\ UNCHANGED <<deliveryVars, accepted, overtaken>>
    BY <1>0, <1>2 DEF Crash, Fail, Abandon, Goto, historyVars, InHand, Domains, Counts
  <2>2. \A d \in Deliveries :
          /\ doubtful'[d] \in Nat /\ doubtful'[d] >= doubtful[d]
          /\ Heard(w) /\ d = current[w] => doubtful'[d] > doubtful[d]
    BY <1>0, <1>2 DEF Crash, Fail, RowGone, historyVars, Heard, Counts
  <2>3. CASE pc[w] \in InHand
    <3>1. LeavesHand(w)
      BY <2>1, <2>2, <2>3 DEF LeavesHand, deliveryVars, leaseVars
    <3> QED
      BY <3>1, LeavesHandTry
  <2>4. CASE pc[w] \notin InHand
    <3>1. SameHands
      BY <2>1, <2>4 DEF SameHands, Heard
    <3>2. UNCHANGED doubtful
      BY <1>2, <2>4 DEF Crash, Fail, InHand, historyVars
    <3> QED
      BY <2>1, <3>1, <3>2, SameHandsTry DEF RelayInv, deliveryVars, leaseVars
  <2> QED
    BY <2>3, <2>4
<1>3. CASE LoseClaim(w) \/ Reject(w) \/ Commit(w)
  <2>1. /\ OthersSame /\ pc[w] \in InHand /\ pc'[w] \notin InHand
        /\ UNCHANGED historyVars
    BY <1>0, <1>3 DEF LoseClaim, Reject, Commit, NextDelivery, Goto, InHand, Domains, Counts
  <2>2. \A d \in Deliveries : d # current[w] => UNCHANGED <<dstatus[d], startedAt[d]>>
    BY <1>0, <1>3
    DEF LoseClaim, Reject, Commit, ClearLease, deliveryVars, leaseVars, Domains, Tables
  <2>3. ASSUME current[w] \in Deliveries
        PROVE  /\ dstatus'[current[w]] = "processing" => dstatus[current[w]] = "processing"
               /\ Heard(w) => dstatus'[current[w]] \notin OpenStatus
    BY <1>0, <1>3, <2>3
    DEF LoseClaim, Reject, Commit, Outcome, deliveryVars, Heard, OpenStatus, Domains
  <2>4. LeavesHand(w)
    BY <1>0, <2>1, <2>2, <2>3 DEF LeavesHand, historyVars, Counts
  <2> QED
    BY <2>4, LeavesHandTry
<1> QED
  BY <1>1, <1>2, <1>3

\* What SendInv says of one delivery
Explained(d) ==
  /\ accepted[d] + Cardinality(Trying(d)) <= 1 + Excess(d)
  /\ dstatus[d] \in {"pending", "retry_scheduled"} => RoomForTry(d)
  /\ dstatus[d] = "processing" => RoomForTry(d) \/ ClaimAtWork(d)

LEMMA SendInvParts == SendInv <=> \A d \in Deliveries : Explained(d)
BY DEF SendInv, TriesExplained, RoomWhileOpen, Explained

\* Acceptances and tries on one side, losses and takeovers on the other, move together.
LEMMA BalanceKept ==
  ASSUME NEW d \in Deliveries, Counts, Counts', Explained(d), dstatus'[d] = dstatus[d],
         ClaimAtWork(d) => ClaimAtWork(d)',
         accepted'[d] + Cardinality(Trying(d)') + Excess(d)
           = accepted[d] + Cardinality(Trying(d)) + Excess(d)'
  PROVE  Explained(d)'
<1> DEFINE before == Cardinality(Trying(d))
           after  == Cardinality(Trying(d)')
<1>1. before \in Nat /\ after \in Nat
  <2>1. Trying(d) \in SUBSET Workers /\ Trying(d)' \in SUBSET Workers
    BY DEF Trying
  <2> QED
    BY <2>1, FewerWorkers
<1>2. /\ accepted[d] \in Nat /\ accepted'[d] \in Nat /\ Excess(d) \in Nat /\ Excess(d)' \in Nat
  BY DEF Counts, Excess
<1>3. accepted'[d] + after + Excess(d) = accepted[d] + before + Excess(d)'
  OBVIOUS
<1> HIDE DEF before, after
<1>4. accepted[d] + before <= 1 + Excess(d) => accepted'[d] + after <= 1 + Excess(d)'
  BY <1>1, <1>2, <1>3
<1>5. accepted[d] + before <= Excess(d) => accepted'[d] + after <= Excess(d)'
  BY <1>1, <1>2, <1>3
<1>6. RoomForTry(d) => RoomForTry(d)'
  BY <1>5 DEF RoomForTry, before, after
<1> QED
  BY <1>4, <1>6 DEF Explained, before, after

\* An acceptance the worker hears of ends its try; one it does not hear of is lost.
LEMMA SendTry ==
  ASSUME RelayInv, TypeOK', SendInv, NEW w \in Workers, Send(w), NEW e \in Deliveries
  PROVE  Explained(e)'
<1> DEFINE d == current[w]
<1>0. Counts /\ Domains /\ Tables /\ Counts'
  BY TypedCounts DEF RelayInv, TypeOK, WorkerTypes, OtherTypes, Counts
<1>1. /\ UNCHANGED <<dstatus, startedAt, started, current, overtaken>>
      /\ pc[w] = "sending" /\ pc'[w] = "sent"
      /\ \A v \in Workers : v # w => pc'[v] = pc[v] /\ result'[v] = result[v]
  BY <1>0 DEF Send, Goto, deliveryVars, leaseVars, historyVars, Domains, Counts
<1>2. d \in Deliveries
  BY <1>1 DEF RelayInv, CurrentKnown, InHand
<1>3. ClaimAtWork(e) => ClaimAtWork(e)'
  BY <1>1 DEF ClaimAtWork, InHand
<1>4. CASE e # d
  <2>1. accepted'[e] = accepted[e] /\ doubtful'[e] = doubtful[e]
    BY <1>0, <1>2, <1>4 DEF Send, historyVars, Counts
  <2>2. Trying(e)' = Trying(e)
    BY <1>1, <1>4 DEF Trying, InHand
  <2>3. Explained(e) /\ Excess(e)' = Excess(e)
    BY <1>1, <2>1, SendInvParts DEF Excess
  <2> QED
    BY <1>0, <1>1, <1>3, <2>1, <2>2, <2>3, BalanceKept
<1>5. CASE e = d /\ result'[w] # "ok"
  <2>1. \/ accepted'[d] = accepted[d] /\ doubtful'[d] = doubtful[d]
        \/ accepted'[d] = accepted[d] + 1 /\ doubtful'[d] = doubtful[d] + 1
    <3>1. PICK outcome \in {"ok", "temporary", "permanent"} :
            /\ result' = [result EXCEPT ![w] = outcome]
            /\ \/ outcome = "ok"
               \/ /\ accepted' = [accepted EXCEPT ![d] = @ + 1]
                  /\ doubtful' = [doubtful EXCEPT ![d] = @ + 1]
               \/ UNCHANGED <<accepted, doubtful>>
      BY DEF Send, historyVars
    <3>2. outcome # "ok"
      BY <1>0, <1>5, <3>1 DEF Counts
    <3> QED
      BY <1>0, <1>2, <3>1, <3>2 DEF Counts
  <2>2. Trying(d)' = Trying(d)
    BY <1>1, <1>5 DEF Trying, InHand
  <2>3. Explained(d)
    BY <1>2, SendInvParts
  <2>4. Cardinality(Trying(d)) \in Nat
    BY FewerWorkers, Trying(d) \in SUBSET Workers DEF Trying
  <2>5. accepted'[d] + Cardinality(Trying(d)') + Excess(d)
          = accepted[d] + Cardinality(Trying(d)) + Excess(d)'
    BY <1>0, <1>1, <1>2, <2>1, <2>2, <2>4 DEF Excess, Counts
  <2> QED
    BY <1>0, <1>1, <1>2, <1>3, <1>5, <2>3, <2>5, BalanceKept
<1>6. CASE e = d /\ result'[w] = "ok"
  <2>1. accepted'[d] = accepted[d] + 1 /\ doubtful'[d] = doubtful[d]
    BY <1>0, <1>2, <1>6 DEF Send, historyVars, Counts
  <2>2. Trying(d)' = Trying(d) \ {w} /\ w \in Trying(d)
    BY <1>1, <1>6 DEF Trying, InHand
  <2>3. Explained(d)
    BY <1>2, SendInvParts
  <2>4. /\ Trying(d) \in SUBSET Workers /\ IsFiniteSet(Trying(d))
        /\ Cardinality(Trying(d)) \in Nat
    BY FewerWorkers, Trying(d) \in SUBSET Workers DEF Trying
  <2>5. Cardinality(Trying(d)') = Cardinality(Trying(d)) - 1 /\ Cardinality(Trying(d)') \in Nat
    BY <2>2, <2>4, FS_RemoveElement, FewerWorkers, Trying(d)' \in SUBSET Workers
  <2>6. accepted'[d] + Cardinality(Trying(d)') + Excess(d)
          = accepted[d] + Cardinality(Trying(d)) + Excess(d)'
    BY <1>0, <1>1, <1>2, <2>1, <2>4, <2>5 DEF Excess, Counts
  <2> QED
    BY <1>0, <1>1, <1>2, <1>3, <1>6, <2>3, <2>6, BalanceKept
<1> QED
  BY <1>4, <1>5, <1>6

\* A claim is a new try: of a delivery that waits, after its claimer has left it, or of one
\* whose claimer has outlived its lease.
LEMMA ClaimTry ==
  ASSUME RelayInv, TypeOK', SendInv, NEW w \in Workers, NEW d \in Deliveries, Claim(w, d),
         NEW e \in Deliveries
  PROVE  Explained(e)'
<1>0. Counts /\ Domains /\ Tables /\ Counts'
  BY TypedCounts DEF RelayInv, TypeOK, WorkerTypes, OtherTypes, Counts
<1>1. /\ UNCHANGED <<started, accepted, doubtful, result>>
      /\ \A c \in Deliveries : c # d => UNCHANGED <<dstatus[c], startedAt[c], overtaken[c]>>
      /\ dstatus'[d] = "processing" /\ startedAt'[d] = started[w]
      /\ overtaken'[d] = IF OutlivedInHand(d) THEN overtaken[d] + 1 ELSE overtaken[d]
  BY <1>0 DEF Claim, Domains, Tables, Counts
<1>2. /\ pc[w] = "looping" /\ pc'[w] = "claimed" /\ current'[w] = d
      /\ \A v \in Workers : v # w => pc'[v] = pc[v] /\ current'[v] = current[v]
  BY <1>0 DEF Claim, Goto, Domains
<1>3. Explained(e)
  BY SendInvParts
<1>4. CASE e # d
  <2>1. Trying(e)' = Trying(e) /\ (ClaimAtWork(e) => ClaimAtWork(e)')
    BY <1>1, <1>2, <1>4 DEF Trying, ClaimAtWork, InHand
  <2>2. Excess(e)' = Excess(e) /\ dstatus'[e] = dstatus[e]
    BY <1>1, <1>4 DEF Excess
  <2> QED
    BY <1>0, <1>1, <1>3, <2>1, <2>2, BalanceKept
<1>5. CASE e = d
  <2>1. Trying(d)' = Trying(d) \cup {w} /\ w \notin Trying(d) /\ ClaimAtWork(d)'
    BY <1>1, <1>2 DEF Trying, ClaimAtWork, InHand
  <2>2. IsFiniteSet(Trying(d)) /\ Cardinality(Trying(d)) \in Nat
    BY FewerWorkers, Trying(d) \in SUBSET Workers DEF Trying
  <2>3. Cardinality(Trying(d)') = Cardinality(Trying(d)) + 1
    BY <2>1, <2>2, FS_AddElement
  <2>4. RoomForTry(d) \/ OutlivedInHand(d)
    <3>1. CASE dstatus[d] \in {"pending", "retry_scheduled"}
      BY <1>3, <1>5, <3>1 DEF Explained
    <3>2. ASSUME dstatus[d] = "processing", ClaimAtWork(d) PROVE OutlivedInHand(d)
      <4>1. PICK v \in Workers : pc[v] \in InHand /\ current[v] = d /\ started[v] = startedAt[d]
        BY <3>2 DEF ClaimAtWork
      <4>2. until[d] = startedAt[d] + Lease
        BY <3>2 DEF RelayInv, RowInv, LeaseOnlyWhileClaimed
      <4>3. until[d] <= started[w] /\ started[w] <= clock
        BY <3>2 DEF Claim, Due, Claimable, RelayInv, HandInv, StartedPast
      <4>4. started[v] + Lease <= clock
        BY <1>0, <4>1, <4>2, <4>3 DEF Domains, Tables, Counts
      <4> QED
        BY <4>1, <4>4 DEF OutlivedInHand
    <3>3. dstatus[d] \in {"pending", "retry_scheduled", "processing"}
      BY DEF Claim, Due, Claimable
    <3> QED
      BY <1>3, <1>5, <3>1, <3>2, <3>3 DEF Explained
  <2>5. /\ accepted[d] + Cardinality(Trying(d)) <= 1 + doubtful[d] + overtaken[d]
        /\ RoomForTry(d) => accepted[d] + Cardinality(Trying(d)) <= doubtful[d] + overtaken[d]
    BY <1>0, <1>3, <1>5, <2>2 DEF Explained, RoomForTry, Excess, Counts
  <2>6. accepted'[d] + Cardinality(Trying(d)') <= 1 + doubtful'[d] + overtaken'[d]
    BY <1>0, <1>1, <2>2, <2>3, <2>4, <2>5 DEF Counts
  <2>7. accepted'[d] + Cardinality(Trying(d)') <= 1 + Excess(d)'
    BY <1>0, <2>2, <2>3, <2>6 DEF Excess, Counts
  <2> QED
    BY <1>1, <1>5, <2>1, <2>7 DEF Explained
<1> QED
  BY <1>4, <1>5

LEMMA SendNext == ASSUME RelayInv, TypeOK', SendInv, [Next]_vars PROVE SendInv'
<1>1. ASSUME NEW w \in Workers, Send(w) PROVE SendInv'
  BY <1>1, SendTry DEF SendInv, TriesExplained, RoomWhileOpen, Explained
<1>2. ASSUME NEW w \in Workers, NEW d \in Deliveries, Claim(w, d) PROVE SendInv'
  BY <1>2, ClaimTry DEF SendInv, TriesExplained, RoomWhileOpen, Explained
<1>3. CASE \/ CallMoves \/ Edit \/ LifecycleRead \/ LifecycleErase \/ LifecycleExpire \/ Tick
           \/ UNCHANGED vars
           \/ \E n \in Notifications : \/ Cancel(n)
                                       \/ \E w \in Workers : Freeze(w, n) \/ Accept(w, n)
  BY <1>3, QuietTries, NoNewTryKeeps DEF RelayInv
<1>4. ASSUME NEW w \in Workers,
             \/ StartCycle(w) \/ ListDue(w) \/ ReadClaim(w) \/ LoseClaim(w) \/ Authorize(w)
             \/ BeginSend(w) \/ FinishCycle(w) \/ Crash(w) \/ Fail(w) \/ Reject(w) \/ Commit(w)
             \/ \E n \in Notifications : SkipFreeze(w, n)
             \/ \E d \in Deliveries : SkipClaim(w, d)
      PROVE  SendInv'
  BY <1>4, WorkerTries, NoNewTryKeeps DEF RelayInv
<1> QED
  BY <1>1, <1>2, <1>3, <1>4, StepKinds DEF Quiet

LEMMA SendInit == Init => SendInv
<1> SUFFICES ASSUME Init, NEW d \in Deliveries PROVE Explained(d)
  BY SendInvParts
<1>1. Trying(d) = {}
  BY DEF Init, Trying, InHand
<1> QED
  BY <1>1, FS_EmptySet DEF Init, Explained, Excess, RoomForTry

\* SMTP accepts a notice again only after an acceptance was lost or its claim was taken over
\* from a worker that had outlived its lease, however long cycles last, whoever crashes and
\* however often the claim changes hands.
THEOREM OneNoticePerLoss == Spec => []DuplicatesExplained
<1>1. Init => SendInv
  BY SendInit
<1>2. RelayInv /\ TypeOK' /\ SendInv /\ [Next]_vars => SendInv'
  BY SendNext
<1>3. RelayInv => TypeOK
  BY DEF RelayInv
<1>4. TypeOK /\ SendInv => DuplicatesExplained
  <2> SUFFICES ASSUME TypeOK, SendInv, NEW d \in Deliveries
               PROVE  accepted[d] <= 1 + doubtful[d] + overtaken[d]
    BY DEF DuplicatesExplained
  <2>1. Cardinality(Trying(d)) \in Nat
    BY FewerWorkers, Trying(d) \in SUBSET Workers DEF Trying
  <2>2. accepted[d] \in Nat /\ doubtful[d] \in Nat /\ overtaken[d] \in Nat
    BY TypedCounts DEF Counts
  <2>3. accepted[d] + Cardinality(Trying(d)) <= 1 + Excess(d)
    BY DEF SendInv, TriesExplained
  <2> QED
    BY <2>1, <2>2, <2>3 DEF Excess
<1> QED
  BY <1>1, <1>2, <1>3, <1>4, RelayInvariant, PTL DEF Spec
=============================================================================
