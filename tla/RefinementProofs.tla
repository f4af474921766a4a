-------------------------- MODULE RefinementProofs --------------------------
(***************************************************************************)
(* Relay implements MessagePromise: every step of a process, an            *)
(* administrator or a failure is one step of the promise or leaves what it *)
(* speaks of alone.                                                        *)
(***************************************************************************)
EXTENDS RelayRefinement, DeliveryProofs

\* The promise's life and told, message by message
Lives == [n \in Notifications |-> Life(n)]
Informed(n) == {c \in Contacts : accepted[<<n, c>>] > 0}
Told == [n \in Notifications |-> Informed(n)]

\* What Life depends on, but for the account
SameLife(n) ==
  /\ Exists(n)' <=> Exists(n)
  /\ cancelledAt'[n] # 0 <=> cancelledAt[n] # 0
  /\ payload'[n] <=> payload[n]
  /\ frozenAt'[n] # 0 <=> frozenAt[n] # 0

SameAccount == accountStatus' = "deleted" <=> accountStatus = "deleted"

LEMMA LifeKept ==
  ASSUME SameAccount, NEW n, SameLife(n) PROVE Life(n)' = Life(n)
BY DEF SameAccount, SameLife, Life

LEMMA ToldKept == UNCHANGED accepted => Told' = Told
BY DEF Told, Informed

\* The promise's readings, and whether a call has found its message with its content
Readings == [n \in Notifications |-> ReadingNow(n)]
HasRead(call) == call.step \in {"recredential", "reaccount", "marking"}

NoNewReader == \A n \in Notifications : ReadingNow(n)' \subseteq ReadingNow(n)

LEMMA ReadingsKept ==
  ASSUME \A v \in Visitors :
           \/ ~HasRead(calls'[v]) /\ ~HasRead(calls[v])
           \/ /\ HasRead(calls'[v]) <=> HasRead(calls[v])
              /\ calls'[v].note = calls[v].note /\ calls'[v].person = calls[v].person
  PROVE  Readings' = Readings /\ NoNewReader
<1>1. \A n \in Notifications : ReadingNow(n)' = ReadingNow(n)
  BY DEF ReadingNow, HasRead
<1> QED
  BY <1>1 DEF Readings, NoNewReader

LEMMA ReadersKept ==
  ASSUME \A v \in Visitors : HasRead(calls'[v]) =>
           HasRead(calls[v]) /\ calls'[v].note = calls[v].note /\ calls'[v].person = calls[v].person
  PROVE  NoNewReader
BY DEF NoNewReader, ReadingNow, HasRead

\* A step that leaves the calls alone, but for what it lets them witness, or ends them
LEMMA CallsLeft ==
  ASSUME RelayInv, \A v \in Visitors : CallLeft(v) PROVE NoNewReader
<1> SUFFICES ASSUME NEW v \in Visitors, HasRead(calls'[v])
             PROVE  /\ HasRead(calls[v])
                    /\ calls'[v].note = calls[v].note /\ calls'[v].person = calls[v].person
  BY ReadersKept
<1>1. calls[v] \in Call
  BY DEF RelayInv, TypeOK, OtherTypes, Callers
<1>2. calls'[v] # NoCall
  BY DEF HasRead, NoCall
<1>3. calls'[v] = [calls[v] EXCEPT !.barred = calls'[v].barred]
  BY <1>2 DEF CallLeft
<1>4. /\ calls'[v].step = calls[v].step
      /\ calls'[v].note = calls[v].note /\ calls'[v].person = calls[v].person
  BY <1>1, <1>3 DEF Call, CallRecord
<1> QED
  BY <1>4 DEF HasRead

\* A step that lets every call witness what it has changed
LEMMA WitnessedReadings ==
  ASSUME RelayInv, \A v \in Visitors : calls'[v] = Witnessed[v]
  PROVE  Readings' = Readings
<1> SUFFICES ASSUME NEW v \in Visitors
             PROVE  /\ calls'[v].step = calls[v].step
                    /\ calls'[v].note = calls[v].note /\ calls'[v].person = calls[v].person
  BY ReadingsKept DEF HasRead
<1>1. calls[v] \in Call /\ v \in Callers
  BY DEF RelayInv, TypeOK, OtherTypes, Callers
<1>2. \/ calls'[v] = NoCall /\ calls[v] = NoCall
      \/ calls'[v] = [calls[v] EXCEPT !.barred = @ \cup Barred(AccountNow)']
  BY <1>1 DEF Witnessed
<1> QED
  BY <1>1, <1>2 DEF Call, CallRecord

LEMMA SameReadings == UNCHANGED calls => Readings' = Readings
BY DEF Readings, ReadingNow

\* A step that changes nothing the promise speaks of, except that readings may end
Quietly == \E rest \in [Notifications -> SUBSET People] : Promise!Drop(rest)

LEMMA StaysQuiet ==
  ASSUME SameAccount, \A n \in Notifications : SameLife(n), NoNewReader,
         UNCHANGED <<clock, releaseAt, recipients, readBy, accepted>>
  PROVE  Quietly
<1>1. Lives' = Lives
  BY LifeKept DEF Lives
<1>2. Told' = Told
  BY ToldKept
<1>3. Readings' \in [Notifications -> SUBSET People]
  BY DEF Readings, ReadingNow
<1>4. Promise!Drop(Readings')
  BY <1>1, <1>2 DEF Promise!Drop, NoNewReader, Readings, Lives, Told, Informed
<1> QED
  BY <1>3, <1>4 DEF Quietly

\* A message whose content is there is not cancelled and its account is; once it has
\* recipients it is released and due.
LEMMA WithContent ==
  ASSUME RelayInv, NEW n \in Notifications, payload[n]
  PROVE  /\ Exists(n) /\ accountStatus # "deleted" /\ cancelledAt[n] = 0
         /\ Life(n) = IF frozenAt[n] # 0 THEN "released" ELSE "waiting"
         /\ recipients[n] # {} => frozenAt[n] # 0 /\ releaseAt[n] <= clock
<1>1. Exists(n) /\ accountStatus # "deleted" /\ cancelledAt[n] = 0
  BY DEF RelayInv, RowInv, ContentKnown, DeletedGone, CancelInv, CancelledErased
<1>2. recipients[n] # {} => frozenAt[n] # 0
  BY DEF RelayInv, RowInv, UnreleasedFree
<1>3. Domains /\ Tables
  BY TypedTables DEF RelayInv
<1> QED
  BY <1>1, <1>2, <1>3 DEF RelayInv, RowInv, ReleasedDue, Life, Domains, Tables

LEMMA PromiseInit == Init => Promise!Init
<1> SUFFICES ASSUME Init PROVE Promise!Init
  OBVIOUS
<1>1. \A n \in Notifications : Life(n) = "absent"
  BY DEF Init, Life, Exists
<1>2. \A n \in Notifications : Informed(n) = {}
  BY DeliveryParts DEF Init, Informed
<1>3. \A n \in Notifications : ReadingNow(n) = {}
  BY DEF Init, ReadingNow, NoCall, Callers
<1> QED
  BY <1>1, <1>2, <1>3 DEF Init, Promise!Init, Informed

\* Erasing the content of messages that are due is a step of the promise.
LEMMA ErasesDue ==
  ASSUME RelayInv, SameAccount, NEW gone \in SUBSET Notifications,
         \A n \in gone : payload[n] /\ releaseAt[n] <= clock /\ ~payload'[n],
         \A n \in gone : Exists(n)' /\ UNCHANGED cancelledAt[n],
         \A n \in Notifications \ gone : SameLife(n),
         UNCHANGED <<clock, releaseAt, recipients, readBy, accepted>>, Readings' = Readings
  PROVE  Promise!Erase(gone)
<1>1. \A n \in gone : Lives[n] \in {"waiting", "released"} /\ releaseAt[n] <= clock
  BY WithContent DEF Lives
<1>2. Lives' = [n \in Notifications |-> IF n \in gone THEN "erased" ELSE Lives[n]]
  <2>1. \A n \in gone : Life(n)' = "erased"
    BY WithContent DEF SameAccount, Life
  <2> QED
    BY <2>1, LifeKept DEF Lives
<1>3. Told' = Told
  BY ToldKept
<1> QED
  BY <1>1, <1>2, <1>3 DEF Promise!Erase, Lives, Readings, Told, Informed

-----------------------------------------------------------------------------
(* Each step of the relay is a step of the promise. *)

LEMMA AcceptPromised ==
  ASSUME RelayInv, NEW w \in Workers, NEW n \in Notifications, Accept(w, n)
  PROVE  Promise!Accept(n)
<1>0. Domains /\ Tables
  BY TypedTables DEF RelayInv
<1>1. /\ ~Exists(n) /\ accountStatus # "deleted" /\ cancelledAt[n] = 0 /\ frozenAt[n] = 0
      /\ UNCHANGED <<clock, accountStatus, cancelledAt, frozenAt, recipients, readBy, accepted>>
  BY DEF Accept, Allows, AccountNow, RelayInv, CancelInv, FreshNotes, accountVars, historyVars
<1>2. /\ Exists(n)' /\ payload'[n]
      /\ \A m \in Notifications : m # n => nstatus'[m] = nstatus[m] /\ payload'[m] = payload[m]
  BY <1>0 DEF Accept, Exists, Domains
<1>3. releaseAt'[n] >= clock /\ releaseAt' = [releaseAt EXCEPT ![n] = releaseAt'[n]]
  BY <1>0, TimesKnown DEF Accept, Tables, Times
<1>4. Lives[n] = "absent" /\ Lives' = [Lives EXCEPT ![n] = "waiting"]
  <2>1. Life(n) = "absent" /\ Life(n)' = "waiting"
    BY <1>1, <1>2 DEF Life
  <2>2. \A m \in Notifications : m # n => Life(m)' = Life(m)
    BY <1>1, <1>2, LifeKept DEF SameAccount, SameLife, Exists
  <2> QED
    BY <2>1, <2>2 DEF Lives
<1> QED
  BY <1>1, <1>3, <1>4, ToldKept, SameReadings
  DEF Accept, Promise!Accept, Promise!Become, Lives, Readings, Told, Informed

LEMMA CancelPromised ==
  ASSUME RelayInv, NEW n \in Notifications, Cancel(n) PROVE Promise!Cancel(n)
<1>0. Domains /\ Tables
  BY TypedTables DEF RelayInv
<1>1. /\ Exists(n) /\ accountStatus # "deleted" /\ cancelledAt[n] = 0
      /\ UNCHANGED <<clock, accountStatus, frozenAt, releaseAt, recipients, readBy, accepted>>
  BY DEF Cancel, Exists, RelayInv, RowInv, DeletedGone, accountVars, historyVars
<1>2. /\ Exists(n)' /\ cancelledAt'[n] # 0
      /\ \A m \in Notifications : m # n => SameLife(m)
  BY <1>0, <1>1 DEF Cancel, Exists, SameLife, Domains
<1>3. Lives[n] \in {"waiting", "released", "erased"} /\ Lives' = [Lives EXCEPT ![n] = "cancelled"]
  <2>1. Life(n) \in {"waiting", "released", "erased"} /\ Life(n)' = "cancelled"
    BY <1>1, <1>2 DEF Life
  <2>2. \A m \in Notifications : m # n => Life(m)' = Life(m)
    BY <1>1, <1>2, LifeKept DEF SameAccount
  <2> QED
    BY <2>1, <2>2 DEF Lives
<1>4. Told[n] = {}
  <2>1. \A c \in Contacts : accepted[<<n, c>>] = 0
    BY <1>1, DeliveryParts DEF Cancel, NothingStarted, RelayInv, CancelInv, UnclaimedUnsent
  <2> QED
    BY <2>1 DEF Told, Informed
<1> QED
  BY <1>1, <1>3, <1>4, ToldKept, SameReadings
  DEF Cancel, Promise!Cancel, Promise!Become, Lives, Readings, Told, Informed

LEMMA FreezePromised ==
  ASSUME RelayInv, NEW w \in Workers, NEW n \in Notifications, Freeze(w, n)
  PROVE  \E people \in SUBSET People : Promise!Release(n, people)
<1>0. Domains /\ Tables /\ recipients'[n] \in SUBSET People
  BY TypedTables DEF RelayInv, Freeze, Tables, People, EntitledPartners, TypeOK, AccountTypes
<1>1. /\ payload[n] /\ frozenAt[n] = 0 /\ started[w] # 0
      /\ releaseAt[n] <= started[w] /\ started[w] <= clock
  BY DEF Freeze, StillFreezable, Released, RelayInv, HandInv, StartedPast, CycleStarted
<1>2. UNCHANGED <<clock, accountStatus, payload, cancelledAt, releaseAt, readBy, accepted>>
  BY DEF Freeze, accountVars, historyVars
<1>3. /\ Exists(n)' /\ frozenAt'[n] # 0
      /\ \A m \in Notifications : m # n => SameLife(m)
  BY <1>0, <1>1, <1>2 DEF Freeze, Exists, SameLife, Domains
<1>4. Lives[n] = "waiting" /\ Lives' = [Lives EXCEPT ![n] = "released"]
  <2>1. Life(n) = "waiting" /\ Life(n)' = "released"
    BY <1>1, <1>2, <1>3, WithContent DEF Life
  <2>2. \A m \in Notifications : m # n => Life(m)' = Life(m)
    BY <1>2, <1>3, LifeKept DEF SameAccount
  <2> QED
    BY <2>1, <2>2 DEF Lives
<1>5. releaseAt[n] <= clock
  BY <1>0, <1>1 DEF Tables, Domains
<1>6. recipients' = [recipients EXCEPT ![n] = recipients'[n]]
  BY <1>0 DEF Freeze, Tables
<1>7. Promise!Release(n, recipients'[n])
  BY <1>2, <1>4, <1>5, <1>6, ToldKept, SameReadings
  DEF Freeze, Promise!Release, Promise!Become, Lives, Readings, Told, Informed
<1> QED
  BY <1>0, <1>7

LEMMA SendPromised ==
  ASSUME RelayInv, NEW w \in Workers, Send(w), NEW d \in Deliveries, current[w] = d
  PROVE  Quietly \/ Promise!Announce(Note(d), Contact(d))
<1> DEFINE n == Note(d)
<1>0. Counts
  BY TypedCounts DEF RelayInv
<1>1. /\ d \in Deliveries /\ Exists(n) /\ frozenAt[n] # 0 /\ cancelledAt[n] = 0
      /\ dstatus[d] # "none" /\ n \in Notifications /\ Contact(d) \in Contacts
      /\ d = <<n, Contact(d)>>
  BY HandOnLiveRow, DeliveryParts DEF Send, InHand, RelayInv, CancelInv, LockHeld
<1>2. UNCHANGED <<clock, accountStatus, nstatus, payload, cancelledAt, frozenAt, releaseAt,
                  recipients, readBy>>
  BY DEF Send, accountVars, noteVars
<1>3. SameAccount /\ \A m \in Notifications : SameLife(m)
  BY <1>2 DEF SameAccount, SameLife, Exists
<1>4. UNCHANGED accepted \/ accepted' = [accepted EXCEPT ![d] = accepted[d] + 1]
  BY DEF Send, historyVars
<1>5. CASE accepted' = [accepted EXCEPT ![d] = accepted[d] + 1]
  <2>1. Lives' = Lives
    BY <1>3, LifeKept DEF Lives
  <2>2. Lives[n] \in {"released", "erased"}
    BY <1>1 DEF Lives, Life, RelayInv, RowInv, DeletedGone
  <2>3. Told' = [Told EXCEPT ![n] = Told[n] \cup {Contact(d)}]
    <3>1. \A e \in Deliveries : accepted'[e] > 0 <=> (accepted[e] > 0 \/ e = d)
      BY <1>0, <1>1, <1>5 DEF Counts
    <3>2. \A m \in Notifications :
            Informed(m)' = IF m = n THEN Informed(m) \cup {Contact(d)} ELSE Informed(m)
      BY <1>1, <3>1, DeliveryParts DEF Informed
    <3> QED
      BY <1>1, <3>2 DEF Told
  <2>4. OwnerOf[Contact(d)] \in recipients[n]
    BY <1>1 DEF RelayInv, RowInv, ToRecipients
  <2> QED
    BY <1>2, <2>1, <2>2, <2>3, <2>4, SameReadings
    DEF Send, Promise!Announce, Lives, Readings, Told, Informed
<1>6. CASE UNCHANGED accepted
  <2>1. NoNewReader
    BY DEF Send, NoNewReader, ReadingNow
  <2> QED
    BY <1>2, <1>3, <1>6, <2>1, StaysQuiet
<1> QED
  BY <1>4, <1>5, <1>6

\* Finding a message with its content opens it.
LEMMA OpenPromised ==
  ASSUME RelayInv, NEW v \in Visitors, Check(v), calls[v].step = "message"
  PROVE  /\ calls[v].note \in Notifications /\ calls[v].person \in People
         /\ Promise!Open(calls[v].note, calls[v].person)
<1> DEFINE n == calls[v].note
           p == calls[v].person
<1>0. calls \in [Callers -> Call] /\ v \in Callers
  BY DEF RelayInv, TypeOK, OtherTypes, Callers
<1>1. n \in Notifications /\ p \in People
  BY <1>0 DEF Call, CallRecord, AboutNoNote
<1>2. payload[n] /\ p \in recipients[n]
  BY DEF Check, Passes, MayRead
<1>3. Lives[n] = "released"
  BY <1>1, <1>2, WithContent DEF Lives
<1>4. /\ HasRead(calls'[v]) /\ calls'[v].note = n /\ calls'[v].person = p
      /\ \A u \in Visitors \ {v} : calls'[u] = calls[u]
  <2>1. calls' = [calls EXCEPT ![v] = calls'[v]] /\ calls'[v].step = Following(calls[v])
        /\ calls'[v].note = n /\ calls'[v].person = p
    BY <1>0 DEF Check, Proceed, Call, CallRecord
  <2>2. Following(calls[v]) \in {"recredential", "marking"}
    BY DEF Following
  <2> QED
    BY <1>0, <2>1, <2>2 DEF HasRead, Callers
<1>5. Readings' = [Readings EXCEPT ![n] = Readings[n] \cup {p}]
  <2>1. ~HasRead(calls[v])
    BY DEF HasRead
  <2>2. \A m \in Notifications :
          ReadingNow(m)' = IF m = n THEN ReadingNow(m) \cup {p} ELSE ReadingNow(m)
    BY <1>1, <1>4, <2>1 DEF ReadingNow, HasRead
  <2> QED
    BY <1>1, <2>2 DEF Readings
<1>6. SameAccount /\ \A m \in Notifications : SameLife(m)
  BY DEF Check, accountVars, noteVars, SameAccount, SameLife, Exists
<1>7. Lives' = Lives
  BY <1>6, LifeKept DEF Lives
<1> QED
  BY <1>1, <1>2, <1>3, <1>5, <1>7, ToldKept
  DEF Check, noteVars, historyVars, Promise!Open, Lives, Readings, Told, Informed

\* The read mark is the promise's confirmation of who has opened the message, or arrives
\* after its account has gone.
LEMMA ReadPromised ==
  ASSUME RelayInv, NEW v \in Visitors, ConfirmRead(v)
  PROVE  Quietly \/ \E n \in Notifications, p \in People : Promise!Read(n, p)
<1>0. calls \in [Callers -> Call] /\ v \in Callers
      /\ readBy \in [Notifications -> SUBSET People]
  BY DEF RelayInv, TypeOK, NoteTypes, OtherTypes, Callers
<1>1. PICK n \in Notifications, p \in People :
        n = calls[v].note /\ p = calls[v].person /\ calls[v].step = "marking"
  BY <1>0 DEF ConfirmRead, Checks, Call, CallRecord, AboutNoNote
<1>2. SameAccount /\ \A m \in Notifications : SameLife(m)
  BY DEF ConfirmRead, accountVars, SameAccount, SameLife, Exists
<1>3. /\ ~HasRead(calls'[v])
      /\ \A u \in Visitors \ {v} : calls'[u] = calls[u]
  <2>1. calls' = [calls EXCEPT ![v] = calls'[v]] /\ calls'[v].step = "surveying"
    BY <1>0 DEF ConfirmRead, Proceed, Call, CallRecord
  <2> QED
    BY <1>0, <2>1 DEF HasRead, Callers
<1>4. NoNewReader
  BY <1>3, ReadersKept
<1>5. CASE p \notin recipients[n]
  <2>1. UNCHANGED readBy
    BY <1>0, <1>1, <1>5 DEF ConfirmRead
  <2> QED
    BY <1>1, <1>2, <1>4, <2>1, StaysQuiet DEF ConfirmRead, historyVars
<1>6. CASE p \in recipients[n]
  <2>1. readBy' = [readBy EXCEPT ![n] = readBy[n] \cup {p}]
    BY <1>0, <1>1, <1>6 DEF ConfirmRead
  <2>2. p \in Readings[n]
    BY <1>1 DEF Readings, ReadingNow
  <2>3. Readings' \in {Readings, [Readings EXCEPT ![n] = Readings[n] \ {p}]}
    <3>1. \A m \in Notifications \ {n} : ReadingNow(m)' = ReadingNow(m)
      BY <1>1, <1>3 DEF ReadingNow, HasRead
    <3>2. ReadingNow(n)' \subseteq ReadingNow(n)
      BY <1>1, <1>4 DEF NoNewReader
    <3>3. ReadingNow(n) \ {p} \subseteq ReadingNow(n)'
      BY <1>1, <1>3 DEF ReadingNow, HasRead
    <3>4. ReadingNow(n)' = ReadingNow(n) \/ ReadingNow(n)' = ReadingNow(n) \ {p}
      BY <3>2, <3>3
    <3>5. CASE ReadingNow(n)' = ReadingNow(n)
      <4>1. Readings' = Readings
        BY <3>1, <3>5 DEF Readings
      <4> QED
        BY <4>1
    <3>6. CASE ReadingNow(n)' = ReadingNow(n) \ {p}
      <4>1. Readings' = [Readings EXCEPT ![n] = Readings[n] \ {p}]
        BY <1>1, <3>1, <3>6 DEF Readings
      <4> QED
        BY <4>1
    <3> QED
      BY <3>4, <3>5, <3>6
  <2>4. Lives' = Lives
    BY <1>2, LifeKept DEF Lives
  <2> QED
    BY <1>1, <1>6, <2>1, <2>2, <2>3, <2>4, ToldKept
    DEF ConfirmRead, historyVars, Promise!Read, Lives, Readings, Told, Informed
<1> QED
  BY <1>1, <1>5, <1>6

\* The other steps of a request that speak of no message
LEMMA CallPromised ==
  ASSUME RelayInv, CallMoves,
         ~\E e \in Callers : EraseIfComplete(e) \/ ConfirmRead(e),
         ~\E v \in Visitors : Check(v) /\ calls[v].step = "message"
  PROVE  Quietly
<1>0. calls \in [Callers -> Call] /\ Visitors \subseteq Callers
  BY DEF RelayInv, TypeOK, OtherTypes, Callers
<1>1. UNCHANGED <<payload, readBy>>
  BY DEF CallMoves, CallStep, noteVars, ArriveToRead, ArriveToDisable, EnablePartner, WebCrash,
         Check, Refuse, DisablePartner, ListMessages, NextMessage, Survey, LookUp, Weigh
<1>2. SameAccount /\ \A n \in Notifications : SameLife(n)
  BY <1>1, CallShape DEF SameAccount, SameLife, Exists
<1>3. NoNewReader
  <2>1. ASSUME NEW e \in Callers, CallStep(e), ~Check(e), ~ConfirmRead(e), ~EraseIfComplete(e)
        PROVE  ~HasRead(calls'[e]) /\ \A v \in Visitors \ {e} : CallLeft(v)
    <3>1. /\ calls[e] \in Call /\ NoCall.step = "idle"
          /\ \A call \in Call : \A kept : AfterErasure(call, kept).step \in {"idle", "next"}
      BY <1>0 DEF AfterErasure, NoCall, Call, CallRecord
    <3>2. calls'[e].step \in {"idle", "listing", "surveying", "next", "weighing", "facing"}
      <4>1. CASE Refuse(e)
        BY <1>0, <3>1, <4>1 DEF Refuse, Stop
      <4>2. CASE DisablePartner(e)
        <5>1. calls[e] # NoCall /\ calls' = [Witnessed EXCEPT ![e].step = "listing", ![e].active = FALSE]
          BY <3>1, <4>2 DEF DisablePartner
        <5>2. Witnessed[e] = [calls[e] EXCEPT !.barred = @ \cup Barred(AccountNow)']
          BY <5>1 DEF Witnessed
        <5>3. calls'[e] = [Witnessed[e] EXCEPT !.step = "listing", !.active = FALSE]
          BY <5>1 DEF Witnessed
        <5>4. calls'[e].step = "listing"
          BY <3>1, <5>2, <5>3 DEF Call, CallRecord
        <5> QED
          BY <5>4
      <4>3. CASE ListMessages(e)
        BY <1>0, <3>1, <4>3 DEF ListMessages, Proceed, AfterErasure, NoCall, Call, CallRecord
      <4>4. CASE Survey(e)
        BY <1>0, <3>1, <4>4 DEF Survey, Proceed, Call, CallRecord
      <4>5. CASE Weigh(e)
        BY <1>0, <3>1, <4>5 DEF Weigh, Proceed, Call, CallRecord
      <4>6. ASSUME NEW p \in People, LookUp(e, p)
            PROVE  calls'[e].step \in {"weighing", "facing"}
        BY <1>0, <3>1, <4>6 DEF LookUp, Proceed, Call, CallRecord
      <4>7. ASSUME NEW n \in Notifications, NextMessage(e, n)
            PROVE  calls'[e].step = "surveying"
        BY <1>0, <3>1, <4>7 DEF NextMessage, Proceed, Call, CallRecord
      <4> QED
        BY <2>1, <4>1, <4>2, <4>3, <4>4, <4>5, <4>6, <4>7 DEF CallStep
    <3> QED
      BY <1>0, <2>1, <3>2, StepLeaves DEF HasRead
  <2>2. ASSUME NEW v \in Visitors, Check(v), calls[v].step # "message"
        PROVE  HasRead(calls'[v]) =>
                 HasRead(calls[v]) /\ calls'[v].note = calls[v].note
                 /\ calls'[v].person = calls[v].person
    <3>1. calls[v] \in Call /\ calls'[v].step = Following(calls[v])
          /\ calls'[v].note = calls[v].note /\ calls'[v].person = calls[v].person
      BY <1>0, <2>2 DEF Check, Proceed, Call, CallRecord
    <3>2. Following(calls[v]) \in {"recredential", "reaccount", "marking"} => HasRead(calls[v])
      BY <2>2 DEF Check, Checks, Following, HasRead
    <3> QED
      BY <3>1, <3>2 DEF HasRead
  <2>3. ASSUME NEW e \in Callers, CallStep(e) PROVE NoNewReader
    <3>1. ~ConfirmRead(e) /\ ~EraseIfComplete(e) /\ \A v \in Visitors \ {e} : CallLeft(v)
      BY <1>0, <2>3, StepLeaves
    <3>2. \A v \in Visitors \ {e} : HasRead(calls'[v]) =>
            HasRead(calls[v]) /\ calls'[v].note = calls[v].note
            /\ calls'[v].person = calls[v].person
      <4> SUFFICES ASSUME NEW v \in Visitors \ {e}, calls'[v] # NoCall
                   PROVE  calls'[v].step = calls[v].step /\ calls'[v].note = calls[v].note
                          /\ calls'[v].person = calls[v].person
        BY DEF HasRead, NoCall
      <4>1. calls[v] \in Call /\ calls'[v] = [calls[v] EXCEPT !.barred = calls'[v].barred]
        BY <1>0, <3>1 DEF CallLeft
      <4> QED
        BY <4>1 DEF Call, CallRecord
    <3> QED
      BY <2>1, <2>2, <2>3, <3>1, <3>2, ReadersKept
  <2>4. ASSUME NEW v \in Visitors, NEW p, NEW n, ArriveToRead(v, p, n) \/ ArriveToDisable(v, p)
        PROVE  NoNewReader
    <3>1. \A u \in Visitors \ {v} : calls'[u] = calls[u]
      BY <1>0, <2>4 DEF ArriveToRead, ArriveToDisable, Proceed
    <3>2. calls'[v].step \in {"account", "partner"}
      <4>1. CASE ArriveToRead(v, p, n)
        BY <1>0, <4>1 DEF ArriveToRead, Proceed, NoCall
      <4>2. CASE ArriveToDisable(v, p)
        BY <1>0, <4>2 DEF ArriveToDisable, Proceed, NoCall
      <4> QED
        BY <2>4, <4>1, <4>2
    <3>3. ~HasRead(calls'[v])
      BY <3>2 DEF HasRead
    <3> QED
      BY <3>1, <3>3, ReadersKept
  <2>5. ASSUME (\E p \in Partners : EnablePartner(p)) \/ WebCrash PROVE NoNewReader
    <3>1. \A v \in Visitors : calls'[v] \in {NoCall, calls[v]}
      BY <1>0, <2>5 DEF EnablePartner, WebCrash
    <3> QED
      BY <3>1, ReadersKept DEF HasRead, NoCall
  <2> QED
    BY <2>3, <2>4, <2>5 DEF CallMoves
<1> QED
  BY <1>1, <1>2, <1>3, CallShape, StaysQuiet DEF historyVars

\* Steps that leave the messages alone, and those that change only how a message's
\* deliveries stand
LEMMA QuietPromised ==
  ASSUME RelayInv, [Next]_vars, Quiet, ~\E w \in Workers : Send(w)
  PROVE  Quietly \/ Promise!Tick
<1>1. CASE Tick
  <2>1. SameAccount /\ \A n \in Notifications : SameLife(n)
    BY <1>1 DEF Tick, accountVars, noteVars, SameAccount, SameLife, Exists
  <2>2. Lives' = Lives
    BY <2>1, LifeKept DEF Lives
  <2> QED
    BY <1>1, <2>2, ToldKept, SameReadings
    DEF Tick, noteVars, historyVars, Promise!Tick, Lives, Readings, Told, Informed
<1>2. CASE ~Tick
  <2>1. UNCHANGED <<clock, accountVars, noteVars, accepted>>
    BY <1>2
    DEF Quiet, StartCycle, ListDue, ReadClaim, LoseClaim, Authorize, BeginSend, FinishCycle,
        Crash, Fail, SkipFreeze, SkipClaim, LifecycleRead, vars, historyVars
  <2>2. \A e \in Callers : calls'[e] \in {NoCall, calls[e]}
    BY <1>2
    DEF Quiet, StartCycle, ListDue, ReadClaim, LoseClaim, Authorize, BeginSend, FinishCycle,
        Crash, Fail, SkipFreeze, SkipClaim, LifecycleRead, vars, Abandon
  <2>3. NoNewReader
    BY <2>2, ReadersKept DEF HasRead, NoCall, Callers
  <2> QED
    BY <2>1, <2>3, StaysQuiet DEF accountVars, noteVars, SameAccount, SameLife, Exists
<1> QED
  BY <1>1, <1>2

LEMMA WorkPromised ==
  ASSUME RelayInv, NEW w \in Workers,
         Reject(w) \/ Commit(w) \/ \E d \in Deliveries : Claim(w, d)
  PROVE  Quietly
<1>1. UNCHANGED <<clock, accountStatus, payload, cancelledAt, frozenAt, releaseAt, recipients,
                  readBy, accepted, calls>>
  BY DEF Reject, Commit, Claim, accountVars, noteVars, historyVars
<1>2. \A n \in Notifications : Exists(n)' <=> Exists(n)
  <2>1. ASSUME \E d \in Deliveries : Claim(w, d) PROVE UNCHANGED nstatus
    BY <2>1 DEF Claim, noteVars
  <2> QED
    BY <2>1, RecordEndsClaim DEF Exists
<1>3. NoNewReader
  BY <1>1 DEF NoNewReader, ReadingNow
<1> QED
  BY <1>1, <1>2, <1>3, StaysQuiet DEF SameAccount, SameLife

\* A call that finds a message complete erases it, if nobody has done so before.
LEMMA EraseIfCompletePromised ==
  ASSUME RelayInv, NEW e \in Callers, EraseIfComplete(e)
  PROVE  Quietly \/ \E gone \in SUBSET Notifications : Promise!Erase(gone)
<1>0. Domains /\ Tables /\ calls \in [Callers -> Call]
  BY TypedTables DEF RelayInv, TypeOK, OtherTypes
<1>1. /\ UNCHANGED <<clock, accountStatus, nstatus, cancelledAt, frozenAt, releaseAt,
                     recipients, readBy, accepted>>
      /\ calls[e].step = "weighing"
  BY DEF EraseIfComplete, accountVars, historyVars
<1>2. PICK n \in Notifications : n = calls[e].note /\ frozenAt[n] # 0
  BY <1>0, <1>1 DEF Call, AboutNoNote, Checks, RelayInv, CallInv, CallExplained, UnreadWitnessed
<1>3. \A m \in Notifications : payload'[m] <=> (payload[m] /\ m # n)
  BY <1>0, <1>2 DEF EraseIfComplete, Domains
<1>4. Readings' = Readings
  <2>1. /\ calls'[e] = AfterErasure(calls[e], Kept(e))
        /\ \A u \in Callers \ {e} : calls'[u] = calls[u]
    BY <1>0 DEF EraseIfComplete, Proceed
  <2>2. AfterErasure(calls[e], Kept(e)).step \in {"idle", "next"}
    BY <1>0 DEF AfterErasure, NoCall, Call, CallRecord
  <2>3. ~HasRead(calls[e]) /\ ~HasRead(calls'[e])
    BY <1>1, <2>1, <2>2 DEF HasRead
  <2> QED
    BY <2>1, <2>3, ReadingsKept DEF Callers
<1>5. CASE payload[n]
  <2>1. releaseAt[n] <= clock /\ Exists(n) /\ Exists(n)' /\ SameAccount
    <3>1. Exists(n) /\ accountStatus # "deleted"
      BY <1>2, <1>5, WithContent
    <3>2. releaseAt[n] <= frozenAt[n] /\ frozenAt[n] <= clock
      BY <1>2, <3>1 DEF RelayInv, RowInv, ReleasedDue
    <3>3. releaseAt[n] <= clock
      BY <1>0, <1>2, <3>2 DEF Tables, Domains
    <3> QED
      BY <1>1, <3>1, <3>3 DEF SameAccount, Exists
  <2>2. \A m \in Notifications \ {n} : SameLife(m)
    BY <1>1, <1>3 DEF SameLife, Exists
  <2>3. /\ \A m \in {n} : payload[m] /\ releaseAt[m] <= clock /\ ~payload'[m]
        /\ \A m \in {n} : Exists(m)' /\ UNCHANGED cancelledAt[m]
    BY <1>1, <1>2, <1>3, <1>5, <2>1
  <2>4. {n} \in SUBSET Notifications /\ Promise!Erase({n})
    <3>1. {n} \in SUBSET Notifications
      BY <1>2
    <3> QED
      BY <1>1, <1>4, <2>1, <2>2, <2>3, <3>1, ErasesDue
  <2> QED
    BY <2>4
<1>6. CASE ~payload[n]
  <2>1. SameAccount /\ \A m \in Notifications : SameLife(m)
    BY <1>1, <1>3, <1>6 DEF SameAccount, SameLife, Exists
  <2>2. NoNewReader
    BY <1>4 DEF NoNewReader, Readings
  <2> QED
    BY <1>1, <2>1, <2>2, StaysQuiet
<1> QED
  BY <1>5, <1>6

LEMMA MaintenancePromised ==
  ASSUME RelayInv, LifecycleErase \/ LifecycleExpire
  PROVE  \E gone \in SUBSET Notifications : Promise!Erase(gone)
<1>0. Domains /\ Tables
  BY TypedTables DEF RelayInv
<1>1. ASSUME LifecycleErase PROVE \E gone \in SUBSET Notifications : Promise!Erase(gone)
  <2> DEFINE complete == Complete([status |-> accountStatus', locked |-> adminLocked],
                                  started[Scheduler])
  <2>1. /\ SameAccount
        /\ UNCHANGED <<clock, nstatus, cancelledAt, frozenAt, releaseAt, recipients, readBy,
                       accepted>>
    BY <1>1 DEF LifecycleErase, LifecycleStages, SameAccount, historyVars
  <2>2. PICK gone \in SUBSET complete :
          \A n \in Notifications : payload'[n] <=> (payload[n] /\ n \notin gone)
    <3>1. CASE UNCHANGED payload
      <4>1. \A n \in Notifications : payload'[n] <=> (payload[n] /\ n \notin {})
        BY <3>1
      <4> QED
        BY <4>1, {} \in SUBSET complete
    <3>2. CASE \E n \in complete : payload' = [payload EXCEPT ![n] = FALSE]
      <4>1. PICK n \in complete : payload' = [payload EXCEPT ![n] = FALSE]
        BY <3>2
      <4>2. \A m \in Notifications : payload'[m] <=> (payload[m] /\ m \notin {n})
        BY <1>0, <4>1 DEF Domains
      <4> QED
        BY <4>1, <4>2
    <3> QED
      BY <1>1, <3>1, <3>2 DEF LifecycleErase
  <2>3. started[Scheduler] <= clock
    BY SchedulerIsWorker DEF RelayInv, HandInv, StartedPast
  <2>4. gone \in SUBSET Notifications /\ \A n \in gone : payload[n] /\ releaseAt[n] <= clock
    BY <1>0, <2>2, <2>3, SchedulerIsWorker DEF Complete, Erasable, Domains, Tables
  <2>5. \A n \in Notifications : Exists(n)' <=> Exists(n)
    BY <2>1 DEF Exists
  <2>6. \A n \in Notifications \ gone : SameLife(n)
    BY <2>1, <2>2, <2>5 DEF SameLife
  <2>7. \A n \in gone : Exists(n)' /\ ~payload'[n]
    BY <2>2, <2>4, <2>5, WithContent
  <2>8. Readings' = Readings
    BY <1>1, IdentityAssumption, WitnessedReadings
    DEF LifecycleErase, IdentityAssumption, Witnessed, Callers
  <2> QED
    BY <2>1, <2>4, <2>6, <2>7, <2>8, ErasesDue
<1>2. ASSUME LifecycleExpire PROVE \E gone \in SUBSET Notifications : Promise!Erase(gone)
  <2> DEFINE gone == {n \in toFreeze[Scheduler] : payload[n]}
  <2>1. /\ SameAccount
        /\ UNCHANGED <<clock, cancelledAt, frozenAt, releaseAt, recipients, readBy, accepted,
                       calls>>
        /\ \A n \in Notifications : payload'[n] <=> (payload[n] /\ n \notin toFreeze[Scheduler])
        /\ \A n \in Notifications : Exists(n)' <=> Exists(n)
    BY <1>2 DEF LifecycleExpire, Exists, SameAccount, accountVars, historyVars
  <2>2. \A n \in toFreeze[Scheduler] : n \in Notifications /\ releaseAt[n] <= clock
    BY <1>0, <1>2, SchedulerIsWorker DEF LifecycleExpire, RelayInv, HandInv, SweepDue, Domains
  <2>3. \A n \in Notifications \ gone : SameLife(n)
    BY <2>1 DEF SameLife
  <2>4. \A n \in gone : Exists(n)'
    BY <2>1, <2>2, WithContent
  <2> QED
    BY <2>1, <2>2, <2>3, <2>4, ErasesDue, SameReadings
<1> QED
  BY <1>1, <1>2

LEMMA EditPromised ==
  ASSUME RelayInv, Edit PROVE Quietly \/ Promise!Leave
<1>0. Domains
  BY TypedTables DEF RelayInv
<1>1. UNCHANGED <<clock, accepted>> /\ calls' = Witnessed
  BY DEF Edit, historyVars
<1>2. Readings' = Readings /\ NoNewReader
  <2>1. Readings' = Readings
    BY <1>1, WitnessedReadings
  <2> QED
    BY <2>1 DEF NoNewReader, Readings
<1>3. ASSUME SameAccount, UNCHANGED <<payload, cancelledAt, frozenAt, releaseAt, recipients,
                                      readBy>>,
             \A n \in Notifications : Exists(n)' <=> Exists(n)
      PROVE  Quietly
  BY <1>1, <1>2, <1>3, StaysQuiet DEF SameLife
<1>4. ASSUME UNCHANGED noteVars, SameAccount PROVE Quietly
  BY <1>3, <1>4 DEF noteVars, Exists
<1>5. ASSUME NEW d \in Deliveries, Bounce(d) PROVE Quietly
  <2>1. Exists(Note(d)) /\ Note(d) \in Notifications
    BY <1>5, DeliveryParts DEF Bounce, RelayInv, CancelInv, TrackedReleased
  <2>2. \A n \in Notifications : Exists(n)' <=> Exists(n)
    BY <1>0, <1>5, <2>1, AggregateType DEF Bounce, Exists, Domains
  <2> QED
    BY <1>3, <1>5, <2>2 DEF Bounce, SameAccount
<1>6. CASE DeleteAccount
  <2>1. Lives' = [n \in Notifications |-> "gone"]
    BY <1>6 DEF DeleteAccount, Lives, Life
  <2> QED
    BY <1>1, <1>2, <1>6, <2>1, ToldKept
    DEF DeleteAccount, Promise!Leave, Lives, Readings, Told, Informed
<1> QED
  BY <1>4, <1>5, <1>6
  DEF Edit, DisableAdministratively, FinishReview, ChangeAccount, SetVerified, DeleteContact,
      DeletePartner, SetPartnerEnrolled, SameAccount

\* The relay keeps its promise, for every number of messages, recipients, workers and
\* requests: each reachable step announces, releases, opens, confirms, erases or cancels as
\* MessagePromise allows.
THEOREM RelayKeepsPromise == Spec => KeepsPromise
<1>1. Init => Promise!Init
  BY PromiseInit
<1>2. RelayInv /\ [Next]_vars => [Promise!Next]_(Promise!vars)
  <2> SUFFICES ASSUME RelayInv, [Next]_vars PROVE Promise!Next
    OBVIOUS
  <2>1. Quietly => Promise!Next
    BY DEF Quietly, Promise!Next
  <2>2. ASSUME NEW w \in Workers, Send(w) PROVE Promise!Next
    <3>1. PICK d \in Deliveries : current[w] = d
      BY <2>2 DEF Send, InHand, RelayInv, CurrentKnown
    <3>2. Note(d) \in Notifications /\ Contact(d) \in Contacts
      BY DeliveryParts
    <3>3. Quietly \/ Promise!Announce(Note(d), Contact(d))
      BY <2>2, <3>1, SendPromised
    <3> QED
      BY <2>1, <3>2, <3>3 DEF Promise!Next
  <2>3. CASE Quiet
    BY <2>1, <2>2, <2>3, QuietPromised DEF Promise!Next
  <2>4. CASE Edit
    BY <2>1, <2>4, EditPromised DEF Promise!Next
  <2>5. CASE LifecycleErase \/ LifecycleExpire
    BY <2>5, MaintenancePromised DEF Promise!Next
  <2>6. CASE CallMoves
    <3>1. ASSUME NEW e \in Callers, EraseIfComplete(e) PROVE Promise!Next
      BY <2>1, <3>1, EraseIfCompletePromised DEF Promise!Next
    <3>2. ASSUME NEW e \in Callers, ConfirmRead(e) PROVE Promise!Next
      <4>1. e \in Visitors
        BY <3>2 DEF Callers, ConfirmRead, RelayInv, CallInv, SweepCalls
      <4> QED
        BY <2>1, <3>2, <4>1, ReadPromised DEF Promise!Next
    <3>3. ASSUME NEW v \in Visitors, Check(v), calls[v].step = "message" PROVE Promise!Next
      BY <3>3, OpenPromised DEF Promise!Next
    <3> QED
      BY <2>1, <2>6, <3>1, <3>2, <3>3, CallPromised
  <2>7. ASSUME NEW w \in Workers, Reject(w) \/ Commit(w) \/ \E d \in Deliveries : Claim(w, d)
        PROVE  Promise!Next
    BY <2>1, <2>7, WorkPromised
  <2>8. ASSUME NEW w \in Workers, NEW n \in Notifications, Freeze(w, n) \/ Accept(w, n)
        PROVE  Promise!Next
    BY <2>8, FreezePromised, AcceptPromised DEF Promise!Next
  <2>9. ASSUME NEW n \in Notifications, Cancel(n) PROVE Promise!Next
    BY <2>9, CancelPromised DEF Promise!Next
  <2> QED
    BY <2>3, <2>4, <2>5, <2>6, <2>7, <2>8, <2>9, StepKinds
<1> QED
  BY <1>1, <1>2, RelayInvariant, PTL DEF Spec, KeepsPromise, Promise!Spec
=============================================================================
