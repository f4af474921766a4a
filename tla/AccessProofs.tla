---------------------------- MODULE AccessProofs ----------------------------
(***************************************************************************)
(* Proofs about personal access, for every instance of Access: any number  *)
(* of people, request threads and submissions, any periods and bounds.     *)
(***************************************************************************)
EXTENDS AccessProperties, TLAPS

(***************************************************************************)
(* The inductive invariant.                                                *)
(***************************************************************************)

SubmissionStates == {"none", "staged", "consumed", "gone"}
SubmissionRows == [person : Persons \cup {Nobody}, until : Nat, state : SubmissionStates]
RequestRows == [at : {"idle", "read", "signed"}, who : Subjects \cup {Nobody}, now : Nat,
                seen : Row, op : Operations \cup {"none"}, item : Submissions \cup {Nobody}]
PassRows == [stage : {"idle", "persons", "partners"}, now : Nat, left : SUBSET Invited,
             said : Invited \cup {Nobody}, seen : [Subjects -> Row]]
SessionRows == [who : Subjects, until : Nat]

\* The types, one conjunct for each thing a step changes
RowsTyped    == cred \in [Subjects -> Row] /\ \A s \in Subjects : Exists(s) \/ cred[s] = NoRow
StoredTyped  == sessions \subseteq SessionRows /\ submission \in [Submissions -> SubmissionRows]
SettingTyped == /\ account \in {"allowed", "barred", "gone"} /\ active \subseteq Partners
                /\ reachable \in BOOLEAN /\ clock \in Nat \ {0}
CountsTyped  == /\ messages \in [Submissions -> Nat] /\ tries \in [Subjects -> Nat]
                /\ enrolments \in [Subjects -> Nat] /\ announced \in [Subjects -> Nat]
                /\ unmarked \in [Subjects -> Nat]

\* A request under way knows whom it is for; one that changes a link has room for it.
RequestOK(q) ==
  /\ q.at # "idle" => q.who \in Subjects /\ q.op \in Operations
  /\ q.at = "read" /\ q.op = "rotate" => q.seen.link < MaxLink
  /\ q.at = "read" /\ q.op \in {"add", "stage", "confirm"} => q.who \in Persons
  /\ q.at = "read" /\ q.op = "confirm" => q.item \in Submissions
RequestsTyped ==
  request \in [Requests -> RequestRows] /\ \A r \in Requests : RequestOK(request[r])

\* The pass is at one of the notices it listed; a listed set-up was not marked.
PassTyped ==
  /\ pass \in PassRows
  /\ pass.stage = "idle" => pass.left = {}
  /\ pass.stage # "idle" => pass.now # 0
  /\ pass.said = Nobody \/ pass.said \in pass.left
  /\ \A s \in pass.left : pass.seen[s].enrolled # 0 => pass.seen[s].setupTold = 0

Typed == /\ RowsTyped /\ StoredTyped /\ SettingTyped /\ CountsTyped
         /\ RequestsTyped /\ PassTyped

\* A submission that was ever staged belongs to somebody.
OwnersKnown ==
  \A m \in Submissions : submission[m].state # "none" => submission[m].person \in Persons

\* A submission that can still be consumed has created no message.
UnusedSilent ==
  \A m \in Submissions : submission[m].state \in {"none", "staged"} => messages[m] = 0
MessageInv == OneMessagePerSubmission /\ UnusedSilent

\* No counter, stored or read, is ahead of the wrong attempts made.
LockInv ==
  /\ LockedOnlyAfterFailures
  /\ \A s \in Subjects : cred[s].failures <= tries[s]
  /\ \A r \in Requests :
       request[r].at = "read" => request[r].seen.failures <= tries[request[r].who]

\* A set-up that will be announced, from the table or from what the pass has read, was not
\* yet; the one just told is announced already and about to be marked.
Owed(s)    == cred[s].enrolled # 0 /\ cred[s].setupTold = 0
Pending(s) == s \in pass.left /\ pass.seen[s].enrolled # 0
Covered(s) == pass.said = s /\ pass.seen[s].enrolled # 0
NoticeOf(s) ==
  /\ announced[s] <= enrolments[s] + unmarked[s]
  /\ ~Covered(s) /\ (Owed(s) \/ Pending(s)) => announced[s] < enrolments[s] + unmarked[s]
NoticeInv == \A s \in Invited : NoticeOf(s)

AccessInv == Typed /\ OwnersKnown /\ GoneIsGone /\ MessageInv /\ LockInv /\ NoticeInv

-----------------------------------------------------------------------------
(***************************************************************************)
(* Rows, and what a flush writes.                                          *)
(***************************************************************************)

LEMMA People ==
  /\ Holder \in Subjects /\ Invited \subseteq Subjects
  /\ Partners \subseteq Invited /\ Persons \subseteq Invited
  /\ Nobody \notin Subjects /\ Nobody \notin Submissions
  /\ \A s \in Subjects : Kind(s) \in Kinds
  /\ \A s \in Invited : s # Holder
BY SubjectAssumption DEF SubjectAssumption, Subjects, Invited, Kind, Kinds

LEMMA Periods ==
  /\ SetupPeriod \in Nat \ {0} /\ SessionTtl \in Nat \ {0} /\ SubmissionTtl \in Nat \ {0}
  /\ LockFor \in Nat \ {0} /\ MaxLink \in Nat \ {0}
  /\ \A s \in Subjects : LockFrom[Kind(s)] \in Nat \ {0}
BY PeriodAssumption, People DEF PeriodAssumption

LEMMA NoRowTyped ==
  NoRow \in Row /\ NoRow.link = 0 /\ NoRow.enrolled = 0 /\ NoRow.setupTold = 0 /\ NoRow.failures = 0
               /\ NoRow.lockedUntil = 0 /\ NoRow.secret = 0
BY Periods DEF NoRow, Row

\* A flush keeps every column that the request has not changed.
LEMMA WrittenColumns ==
  ASSUME NEW stored \in Row, NEW loaded \in Row, NEW new \in Row
  PROVE  LET w == Written(stored, loaded, new) IN
         /\ w \in Row
         /\ w.link = IF new.link # loaded.link THEN new.link ELSE stored.link
         /\ w.secret = IF new.secret # loaded.secret THEN new.secret ELSE stored.secret
         /\ w.enrolled = IF new.enrolled # loaded.enrolled THEN new.enrolled ELSE stored.enrolled
         /\ w.failures = IF new.failures # loaded.failures THEN new.failures ELSE stored.failures
         /\ w.lockedUntil =
              IF new.lockedUntil # loaded.lockedUntil THEN new.lockedUntil ELSE stored.lockedUntil
         /\ w.setupTold =
              IF new.setupTold # loaded.setupTold THEN new.setupTold ELSE stored.setupTold
<1> DEFINE w == Written(stored, loaded, new)
           Columns == {"link", "secret", "enrolled", "deadline", "failures", "lockedUntil",
                       "setupTold", "expiryTold"}
<1>1. /\ DOMAIN stored = Columns
      /\ w = [c \in Columns |-> IF new[c] # loaded[c] THEN new[c] ELSE stored[c]]
  BY DEF Row, Written
<1>2. w = [link |-> w.link, secret |-> w.secret, enrolled |-> w.enrolled,
           deadline |-> w.deadline, failures |-> w.failures, lockedUntil |-> w.lockedUntil,
           setupTold |-> w.setupTold, expiryTold |-> w.expiryTold]
  BY <1>1
<1>3. /\ w.link \in 0..MaxLink /\ w.secret \in 0..2
      /\ w.enrolled \in Nat /\ w.deadline \in Nat /\ w.failures \in Nat
      /\ w.lockedUntil \in Nat /\ w.setupTold \in Nat /\ w.expiryTold \in Nat
  BY <1>1 DEF Row
<1>4. w \in Row
  BY <1>2, <1>3 DEF Row
<1> QED
  BY <1>1, <1>4

\* A flush changes one row, to another row of the same table.
LEMMA Flush ==
  ASSUME Typed, NEW r \in Requests, request[r].at = "read", NEW new \in Row,
         new.link \in {Seen(r).link} \cup 1..MaxLink, Save(r, new)
  PROVE  /\ request[r].who \in Subjects /\ Exists(request[r].who)
         /\ cred'[request[r].who] = Written(cred[request[r].who], Seen(r), new)
         /\ \A s \in Subjects \ {request[r].who} : cred'[s] = cred[s]
         /\ \A s \in Subjects : Exists(s)' <=> Exists(s)
         /\ RowsTyped'
<1> DEFINE who == request[r].who
           row == Written(cred[who], Seen(r), new)
<1>1. who \in Subjects /\ Seen(r) \in Row /\ cred \in [Subjects -> Row] /\ cred[who] \in Row
  BY DEF Typed, RowsTyped, RequestsTyped, RequestOK, RequestRows, Seen
<1>2. row \in Row /\ row.link = IF new.link # Seen(r).link THEN new.link ELSE cred[who].link
  BY <1>1, WrittenColumns
<1>3. Exists(who) /\ cred' = [cred EXCEPT ![who] = row]
  BY DEF Save
<1> HIDE DEF row, who
<1>4. /\ cred' \in [Subjects -> Row] /\ cred'[who] = row
      /\ \A s \in Subjects \ {who} : cred'[s] = cred[s]
  BY <1>1, <1>2, <1>3
<1>5. cred'[who].link # 0
  BY <1>2, <1>3, <1>4, Periods DEF Exists
<1>6. \A s \in Subjects : Exists(s)' <=> Exists(s)
  BY <1>3, <1>4, <1>5 DEF Exists
<1>7. RowsTyped'
  BY <1>4, <1>5, <1>6 DEF RowsTyped, Typed, Exists
<1> QED
  BY <1>1, <1>3, <1>4, <1>6, <1>7 DEF row, who

(***************************************************************************)
(* What the five steps that save a row have in common.                     *)
(***************************************************************************)

Saving(r) == SetUp(r) \/ LogIn(r) \/ LogInFails(r) \/ ChangeSecret(r) \/ Rotate(r)

\* The counter and the lock are cleared, kept or raised by the attempt counted.
LockKept(r, new) ==
  LET s == request[r].who IN
  \/ new.failures \in {0, Seen(r).failures} /\ new.lockedUntil \in {0, Seen(r).lockedUntil}
  \/ /\ new.failures = Seen(r).failures + 1 /\ tries'[s] = tries[s] + 1
     /\ new.lockedUntil = Seen(r).lockedUntil \/ new.failures >= LockFrom[Kind(s)]

\* A set-up is counted; a mark goes with its set-up, or is counted as lost.
NoticeKept(r, new) ==
  LET s == request[r].who IN
  \/ /\ new.setupTold = Seen(r).setupTold
     /\ new.enrolled = Seen(r).enrolled \/ enrolments'[s] = enrolments[s] + 1
  \/ /\ new.setupTold = 0 /\ new.enrolled = 0
     /\ unmarked'[s] = IF LosesMark(s) THEN unmarked[s] + 1 ELSE unmarked[s]

CountersGrow ==
  /\ announced' = announced /\ messages' = messages
  /\ \A s \in Subjects : /\ tries'[s] \in Nat /\ tries'[s] >= tries[s]
                         /\ enrolments'[s] \in Nat /\ enrolments'[s] >= enrolments[s]
                         /\ unmarked'[s] \in Nat /\ unmarked'[s] >= unmarked[s]

LEMMA Reads ==
  ASSUME Typed, NEW r \in Requests
  PROVE  /\ Seen(r) \in Row /\ request[r] \in RequestRows /\ request[r].now \in Nat
         /\ request[r].at # "idle" => request[r].who \in Subjects
BY DEF Typed, RequestsTyped, RequestOK, RequestRows, Seen

LEMMA Added ==
  ASSUME NEW f \in [Subjects -> Nat], NEW s \in Subjects
  PROVE  /\ [f EXCEPT ![s] = @ + 1] \in [Subjects -> Nat]
         /\ [f EXCEPT ![s] = @ + 1][s] = f[s] + 1
         /\ \A x \in Subjects : [f EXCEPT ![s] = @ + 1][x] >= f[x]
OBVIOUS

LEMMA NewLinkRow ==
  ASSUME NEW row \in Row, row.link < MaxLink, clock \in Nat
  PROVE  /\ NewLink(row) \in Row /\ NewLink(row).link = row.link + 1
         /\ NewLink(row).link \in 1..MaxLink
         /\ NewLink(row).failures = 0 /\ NewLink(row).lockedUntil = 0
         /\ NewLink(row).enrolled = 0 /\ NewLink(row).setupTold = 0
<1> DEFINE link == row.link + 1
           deadline == clock + SetupPeriod
<1>1. NewLink(row) = [NoRow EXCEPT !.link = link, !.deadline = deadline]
  BY DEF NewLink
<1>2. link \in 1..MaxLink /\ deadline \in Nat
  BY Periods DEF Row
<1> HIDE DEF link, deadline
<1>3. /\ NewLink(row) \in Row /\ NewLink(row).link = link
      /\ NewLink(row).failures = 0 /\ NewLink(row).lockedUntil = 0
      /\ NewLink(row).enrolled = 0 /\ NewLink(row).setupTold = 0
  <2>1. NewLink(row) = [link |-> link, secret |-> 0, enrolled |-> 0, deadline |-> deadline,
                        failures |-> 0, lockedUntil |-> 0, setupTold |-> 0, expiryTold |-> 0]
    BY <1>1 DEF NoRow
  <2> QED
    BY <1>2, <2>1 DEF Row
<1> QED
  BY <1>2, <1>3 DEF link

\* Another secret, nothing else
LEMMA FreshSecret ==
  ASSUME NEW row \in Row, NEW changed, changed = [row EXCEPT !.secret = Fresh(row)]
  PROVE  /\ changed \in Row /\ changed.link = row.link /\ changed.enrolled = row.enrolled
         /\ changed.failures = row.failures /\ changed.lockedUntil = row.lockedUntil
         /\ changed.setupTold = row.setupTold
<1> DEFINE secret == Fresh(row)
<1>1. secret \in 0..2
  BY DEF Fresh
<1> HIDE DEF secret
<1>2. changed = [row EXCEPT !.secret = secret]
  BY DEF secret
<1> QED
  BY <1>1, <1>2 DEF Row

LEMMA Saves ==
  ASSUME Typed, NEW r \in Requests, Saving(r)
  PROVE  /\ request[r].at = "read" /\ CountersGrow /\ CountsTyped'
         /\ \E new \in Row : /\ new.link \in {Seen(r).link} \cup 1..MaxLink
                             /\ Save(r, new) /\ LockKept(r, new) /\ NoticeKept(r, new)
<1> DEFINE s == request[r].who
           old == Seen(r)
<1>0. /\ old \in Row /\ clock \in Nat /\ request[r].now \in Nat /\ CountsTyped
  BY Reads DEF Typed, SettingTyped
<1>a. request[r].at = "read" => s \in Subjects
  BY Reads
<1>b. CASE SetUp(r)
  <2> DEFINE secret == Fresh(old)
             new == [old EXCEPT !.secret = secret, !.enrolled = clock, !.failures = 0,
                                !.lockedUntil = 0]
  <2>1. request[r].at = "read" /\ Save(r, new) /\ secret \in 0..2
    BY <1>b DEF SetUp, Doing, Fresh
  <2> HIDE DEF secret
  <2>2. /\ new \in Row /\ new.link = old.link /\ new.failures = 0 /\ new.lockedUntil = 0
        /\ new.setupTold = old.setupTold
    BY <1>0, <2>1 DEF Row
  <2>3. /\ enrolments' = [enrolments EXCEPT ![s] = @ + 1]
        /\ UNCHANGED <<messages, tries, announced, unmarked>>
    BY <1>b DEF SetUp
  <2>4. CountersGrow /\ CountsTyped' /\ enrolments'[s] = enrolments[s] + 1
    BY <1>0, <1>a, <2>1, <2>3, Added DEF CountersGrow, CountsTyped
  <2> HIDE DEF new
  <2>5. LockKept(r, new) /\ NoticeKept(r, new)
    BY <2>2, <2>4 DEF LockKept, NoticeKept
  <2> QED
    BY <2>1, <2>2, <2>4, <2>5
<1>c. CASE LogIn(r)
  <2> DEFINE new == [old EXCEPT !.failures = 0, !.lockedUntil = 0]
  <2>1. request[r].at = "read" /\ Save(r, new) /\ UNCHANGED historyVars
    BY <1>c DEF LogIn, Doing
  <2>2. /\ new \in Row /\ new.link = old.link /\ new.failures = 0 /\ new.lockedUntil = 0
        /\ new.setupTold = old.setupTold /\ new.enrolled = old.enrolled
    BY <1>0 DEF Row
  <2>3. CountersGrow /\ CountsTyped'
    BY <1>0, <2>1 DEF CountersGrow, CountsTyped, historyVars
  <2> HIDE DEF new
  <2> QED
    BY <2>1, <2>2, <2>3 DEF LockKept, NoticeKept
<1>d. CASE LogInFails(r)
  <2> DEFINE lock == Locked(s, old.failures + 1, request[r].now)
             until == IF lock # 0 THEN lock ELSE old.lockedUntil
             failures == old.failures + 1
             new == [old EXCEPT !.failures = failures, !.lockedUntil = until]
  <2>1. request[r].at = "read" /\ Save(r, new)
    BY <1>d DEF LogInFails, Doing
  <2>2. /\ tries' = [tries EXCEPT ![s] = @ + 1]
        /\ UNCHANGED <<messages, enrolments, announced, unmarked>>
    BY <1>d DEF LogInFails
  <2>3. CountersGrow /\ CountsTyped' /\ tries'[s] = tries[s] + 1
    BY <1>0, <1>a, <2>1, <2>2, Added DEF CountersGrow, CountsTyped
  <2>4. /\ old.failures \in Nat /\ old.lockedUntil \in Nat /\ lock \in Nat
        /\ lock # 0 => old.failures + 1 >= LockFrom[Kind(s)]
    BY <1>0, Periods DEF Locked, Row
  <2>5. until \in Nat /\ (until = old.lockedUntil \/ old.failures + 1 >= LockFrom[Kind(s)])
    BY <2>4
  <2>a. failures \in Nat
    BY <2>4
  <2> HIDE DEF until, lock, failures
  <2>6. /\ new \in Row /\ new.link = old.link /\ new.failures = failures
        /\ new.lockedUntil = until
        /\ new.setupTold = old.setupTold /\ new.enrolled = old.enrolled
    BY <1>0, <2>5, <2>a DEF Row
  <2> HIDE DEF new
  <2> QED
    BY <2>1, <2>3, <2>5, <2>6 DEF LockKept, NoticeKept, failures
<1>e. CASE ChangeSecret(r)
  <2> DEFINE changed == [old EXCEPT !.secret = Fresh(old)]
             new == IF Kind(s) = "person" THEN [changed EXCEPT !.failures = 0, !.lockedUntil = 0]
                    ELSE changed
  <2>1. request[r].at = "read" /\ Save(r, new) /\ UNCHANGED historyVars
    BY <1>e DEF ChangeSecret, Doing
  <2>2. /\ new \in Row /\ new.link = old.link
        /\ new.failures \in {0, old.failures} /\ new.lockedUntil \in {0, old.lockedUntil}
        /\ new.setupTold = old.setupTold /\ new.enrolled = old.enrolled
    <3>1. /\ changed \in Row /\ changed.link = old.link /\ changed.enrolled = old.enrolled
          /\ changed.failures = old.failures /\ changed.lockedUntil = old.lockedUntil
          /\ changed.setupTold = old.setupTold
      BY <1>0, FreshSecret
    <3> HIDE DEF changed
    <3> QED
      BY <3>1 DEF Row
  <2>3. CountersGrow /\ CountsTyped'
    BY <1>0, <2>1 DEF CountersGrow, CountsTyped, historyVars
  <2> HIDE DEF new
  <2> QED
    BY <2>1, <2>2, <2>3 DEF LockKept, NoticeKept
<1>f. CASE Rotate(r)
  <2> DEFINE next == old.link + 1
             new == IF s = Holder THEN [old EXCEPT !.link = next] ELSE NewLink(old)
             lost == IF LosesMark(s) THEN unmarked[s] + 1 ELSE unmarked[s]
  <2>1. /\ request[r].at = "read" /\ Save(r, new) /\ old.link < MaxLink
        /\ UNCHANGED <<messages, tries, enrolments, announced>>
    BY <1>f DEF Rotate, Doing, Typed, RequestsTyped, RequestOK, Seen
  <2>2. unmarked' = [unmarked EXCEPT ![s] = lost]
    BY <1>f DEF Rotate
  <2> HIDE DEF lost
  <2>3. lost \in Nat /\ lost >= unmarked[s]
    BY <1>0, <1>a, <2>1 DEF lost, CountsTyped
  <2>4. /\ CountersGrow /\ CountsTyped'
        /\ unmarked'[s] = IF LosesMark(s) THEN unmarked[s] + 1 ELSE unmarked[s]
    <3>1. /\ unmarked' \in [Subjects -> Nat] /\ unmarked'[s] = lost
          /\ \A x \in Subjects : unmarked'[x] \in Nat /\ unmarked'[x] >= unmarked[x]
      BY <1>0, <1>a, <2>1, <2>2, <2>3 DEF CountsTyped
    <3> QED
      BY <1>0, <2>1, <3>1 DEF CountersGrow, CountsTyped, lost
  <2>5. new \in Row /\ new.link \in 1..MaxLink
    <3>1. next \in 1..MaxLink
      BY <1>0, <2>1, Periods DEF Row
    <3> QED
      BY <1>0, <2>1, <3>1, NewLinkRow DEF Row
  <2>6. \/ /\ new.failures = old.failures /\ new.lockedUntil = old.lockedUntil
           /\ new.setupTold = old.setupTold /\ new.enrolled = old.enrolled
        \/ /\ new.failures = 0 /\ new.lockedUntil = 0
           /\ new.setupTold = 0 /\ new.enrolled = 0
    BY <1>0, <2>1, NewLinkRow DEF Row
  <2> HIDE DEF new
  <2> QED
    BY <2>1, <2>4, <2>5, <2>6 DEF LockKept, NoticeKept
<1> QED
  BY <1>b, <1>c, <1>d, <1>e, <1>f DEF Saving

(***************************************************************************)
(* The other steps that change rows.                                       *)
(***************************************************************************)

\* A deletion empties rows, ends sessions and closes submissions, and nothing else.
LEMMA Deleting ==
  ASSUME Typed, NEW gone \in SUBSET Subjects, Delete(gone)
  PROVE  /\ \A s \in Subjects : cred'[s] = IF s \in gone THEN NoRow ELSE cred[s]
         /\ \A x \in sessions' : x \in sessions /\ x.who \notin gone
         /\ \A m \in Submissions :
              /\ submission'[m].person = submission[m].person
              /\ submission'[m].state = IF submission[m].person \in gone THEN "gone"
                                        ELSE submission[m].state
         /\ RowsTyped' /\ StoredTyped'
<1>1. /\ cred' \in [Subjects -> Row]
      /\ \A s \in Subjects : cred'[s] = IF s \in gone THEN NoRow ELSE cred[s]
  BY NoRowTyped DEF Delete, Typed, RowsTyped
<1>2. RowsTyped'
  BY <1>1, NoRowTyped DEF Typed, RowsTyped, Exists
<1>3. \A x \in sessions' : x \in sessions /\ x.who \notin gone
  BY DEF Delete, SessionsBut
<1>4. \A m \in Submissions :
        LET row == IF submission[m].person \in gone
                   THEN [submission[m] EXCEPT !.state = "gone"] ELSE submission[m]
        IN /\ row \in SubmissionRows /\ row.person = submission[m].person
           /\ row.state = IF submission[m].person \in gone THEN "gone" ELSE submission[m].state
  BY DEF Typed, StoredTyped, SubmissionRows, SubmissionStates
<1>5. StoredTyped' /\ \A m \in Submissions :
        /\ submission'[m].person = submission[m].person
        /\ submission'[m].state = IF submission[m].person \in gone THEN "gone"
                                  ELSE submission[m].state
  BY <1>3, <1>4 DEF Delete, Typed, StoredTyped
<1> QED
  BY <1>1, <1>2, <1>3, <1>5

\* Marking a notice sets a mark the pass had read as missing, in one row that exists.
LEMMA Marking ==
  ASSUME Typed, MarkNotice
  PROVE  /\ pass.said \in Invited /\ pass.said \in pass.left /\ Exists(pass.said)
         /\ \A s \in Subjects \ {pass.said} : cred'[s] = cred[s]
         /\ \A s \in Subjects : /\ Exists(s)' <=> Exists(s)
                                /\ cred'[s].failures = cred[s].failures
                                /\ cred'[s].lockedUntil = cred[s].lockedUntil
                                /\ cred'[s].enrolled = cred[s].enrolled
         /\ cred'[pass.said].setupTold =
              IF pass.seen[pass.said].enrolled # 0 THEN pass.now ELSE cred[pass.said].setupTold
         /\ pass.now # 0
         /\ RowsTyped'
<1> DEFINE s == pass.said
           loaded == pass.seen[s]
           new == Marked(loaded, pass.now)
           row == Written(cred[s], loaded, new)
<1>1. /\ s \in Invited /\ s \in Subjects /\ s \in pass.left /\ pass.stage # "idle"
      /\ pass.now \in Nat \ {0}
      /\ loaded \in Row /\ cred \in [Subjects -> Row] /\ cred[s] \in Row /\ Exists(s)
      /\ loaded.enrolled # 0 => loaded.setupTold = 0
  BY People DEF MarkNotice, Typed, PassTyped, PassRows, RowsTyped
<1>2. /\ new \in Row /\ new.link = loaded.link /\ new.failures = loaded.failures
      /\ new.lockedUntil = loaded.lockedUntil /\ new.enrolled = loaded.enrolled
      /\ new.setupTold = IF loaded.enrolled # 0 THEN pass.now ELSE loaded.setupTold
  BY <1>1 DEF Marked, Row
<1>3. cred' = [cred EXCEPT ![s] = row]
  BY DEF MarkNotice
<1> HIDE DEF new
<1>4. /\ row \in Row /\ row.link = cred[s].link /\ row.failures = cred[s].failures
      /\ row.lockedUntil = cred[s].lockedUntil /\ row.enrolled = cred[s].enrolled
      /\ row.setupTold = IF loaded.enrolled # 0 THEN pass.now ELSE cred[s].setupTold
  BY <1>1, <1>2, WrittenColumns
<1> HIDE DEF row, loaded
<1>5. /\ cred' \in [Subjects -> Row] /\ cred'[s] = row
      /\ \A x \in Subjects \ {s} : cred'[x] = cred[x]
  BY <1>1, <1>3, <1>4
<1>6. \A x \in Subjects : Exists(x)' <=> Exists(x)
  BY <1>4, <1>5 DEF Exists
<1>7. RowsTyped'
  BY <1>1, <1>5, <1>6 DEF RowsTyped, Typed, Exists
<1> QED
  BY <1>1, <1>4, <1>5, <1>6, <1>7 DEF loaded

LEMMA Adding ==
  ASSUME Typed, NEW r \in Requests, AddPerson(r)
  PROVE  /\ request[r].at = "read" /\ request[r].who \in Subjects /\ ~Exists(request[r].who)
         /\ \A s \in Subjects \ {request[r].who} : cred'[s] = cred[s]
         /\ cred'[request[r].who].link # 0
         /\ cred'[request[r].who].failures = 0 /\ cred'[request[r].who].lockedUntil = 0
         /\ cred'[request[r].who].enrolled = 0
         /\ RowsTyped'
<1> DEFINE s == request[r].who
<1>1. /\ request[r].at = "read" /\ s \in Subjects /\ ~Exists(s)
      /\ cred \in [Subjects -> Row] /\ cred' = [cred EXCEPT ![s] = NewLink(NoRow)]
  BY Reads DEF AddPerson, Doing, Typed, RowsTyped
<1>2. /\ NewLink(NoRow) \in Row /\ NewLink(NoRow).link # 0
      /\ NewLink(NoRow).failures = 0 /\ NewLink(NoRow).lockedUntil = 0
      /\ NewLink(NoRow).enrolled = 0
  BY NewLinkRow, NoRowTyped, Periods DEF Typed, SettingTyped
<1> HIDE DEF s
<1>3. /\ cred' \in [Subjects -> Row] /\ cred'[s] = NewLink(NoRow)
      /\ \A x \in Subjects \ {s} : cred'[x] = cred[x]
  BY <1>1, <1>2
<1>4. RowsTyped'
  BY <1>2, <1>3 DEF Typed, RowsTyped, Exists
<1> QED
  BY <1>1, <1>2, <1>3, <1>4 DEF s, Exists

-----------------------------------------------------------------------------
(***************************************************************************)
(* Which steps change what.                                                *)
(***************************************************************************)

LEMMA RowSteps ==
  ASSUME Next
  PROVE  \/ UNCHANGED cred
         \/ \E r \in Requests : Saving(r) \/ AddPerson(r)
         \/ \E s \in Subjects : Remove(s)
         \/ DeleteAccount \/ MarkNotice
<1>1. ASSUME NEW r \in Requests, RequestStep(r)
      PROVE  UNCHANGED cred \/ Saving(r) \/ AddPerson(r)
  BY <1>1 DEF RequestStep, Saving, Read, OpenSession, Stage, Confirm, rowVars
<1>2. ASSUME Edit
      PROVE  UNCHANGED cred \/ (\E s \in Subjects : Remove(s)) \/ DeleteAccount
  BY <1>2 DEF Edit, SetPartnerActive, LogOut, Bar
<1>3. ASSUME NoticeStep PROVE UNCHANGED cred \/ MarkNotice
  BY <1>3 DEF NoticeStep, ListNotices, EndNotices, FailNotices, SkipNotice, SendNotice, rowVars
<1>4. ASSUME Tick PROVE UNCHANGED cred
  BY <1>4 DEF Tick, rowVars
<1> QED
  BY <1>1, <1>2, <1>3, <1>4 DEF Next

LEMMA Deletions ==
  ASSUME (\E s \in Subjects : Remove(s)) \/ DeleteAccount
  PROVE  \E gone \in SUBSET Subjects : Delete(gone)
<1>1. ASSUME NEW s \in Subjects, Remove(s) PROVE \E gone \in SUBSET Subjects : Delete(gone)
  <2> DEFINE gone == {s} \cup {p \in Persons : Sponsor[p] = s}
  <2>1. Delete(gone) /\ gone \in SUBSET Subjects
    BY <1>1, People DEF Remove
  <2> QED
    BY <2>1
<1>2. ASSUME DeleteAccount PROVE \E gone \in SUBSET Subjects : Delete(gone)
  BY <1>2 DEF DeleteAccount
<1> QED
  BY <1>1, <1>2

\* Signing in
LEMMA SigningIn ==
  ASSUME NEW r, SignIn(r)
  PROVE  /\ sessions' = sessions \/ sessions' = sessions \cup {NewSession(request[r].who)}
         /\ Done(r) \/ request' = [request EXCEPT ![r].at = "signed"]
BY DEF SignIn

\* A session is opened only for somebody whose row is there.
LEMMA SessionSteps ==
  ASSUME Typed, Next
  PROVE  \A x \in sessions' :
           \/ x \in sessions
           \/ \E r \in Requests : /\ request[r].at # "idle" /\ Exists(request[r].who)
                                  /\ x = NewSession(request[r].who)
<1> DEFINE Opened == {NewSession(request[r].who) :
                        r \in {q \in Requests : request[q].at # "idle" /\ Exists(request[q].who)}}
<1>1. ASSUME NEW r \in Requests, RequestStep(r) PROVE sessions' \subseteq sessions \cup Opened
  <2>1. CASE SetUp(r) \/ LogIn(r)
    <3>1. request[r].at = "read" /\ Exists(request[r].who) /\ SignIn(r)
      BY <2>1 DEF SetUp, LogIn, Doing, Save
    <3>2. NewSession(request[r].who) \in Opened
      BY <3>1
    <3> QED
      BY <3>1, <3>2, SigningIn
  <2>2. CASE OpenSession(r)
    <3>1. /\ request[r].at = "signed" /\ Exists(request[r].who)
          /\ sessions' = sessions \cup {NewSession(request[r].who)}
      BY <2>2 DEF OpenSession
    <3> QED
      BY <3>1
  <2>3. CASE ChangeSecret(r) \/ Rotate(r)
    BY <2>3 DEF ChangeSecret, Rotate, SessionsBut
  <2>4. CASE \/ \E s \in Subjects, op \in Operations : Read(r, s, op)
             \/ LogInFails(r) \/ AddPerson(r) \/ Stage(r) \/ Confirm(r)
    BY <2>4 DEF Read, LogInFails, AddPerson, Stage, Confirm, rowVars
  <2> QED
    BY <1>1, <2>1, <2>2, <2>3, <2>4 DEF RequestStep
<1>2. ASSUME Edit PROVE sessions' \subseteq sessions
  <2>1. CASE (\E s \in Subjects : Remove(s)) \/ DeleteAccount
    BY <2>1, Deletions, Deleting
  <2>2. CASE (\E s \in Subjects : SetPartnerActive(s) \/ LogOut(s)) \/ Bar
    BY <2>2 DEF SetPartnerActive, LogOut, Bar, SessionsBut
  <2> QED
    BY <1>2, <2>1, <2>2 DEF Edit
<1>3. ASSUME NoticeStep \/ Tick PROVE sessions' \subseteq sessions
  BY <1>3 DEF NoticeStep, ListNotices, MarkNotice, EndNotices, FailNotices, SkipNotice,
              SendNotice, Tick, rowVars
<1> QED
  BY <1>1, <1>2, <1>3 DEF Next

LEMMA SubmissionSteps ==
  ASSUME Next
  PROVE  \/ UNCHANGED submission
         \/ \E r \in Requests : Stage(r) \/ Confirm(r)
         \/ \E s \in Subjects : Remove(s)
         \/ DeleteAccount \/ EndNotices
<1>1. ASSUME NEW r \in Requests, RequestStep(r)
      PROVE  UNCHANGED submission \/ Stage(r) \/ Confirm(r)
  BY <1>1 DEF RequestStep, Read, SetUp, LogIn, LogInFails, OpenSession, ChangeSecret, Rotate,
              AddPerson, rowVars
<1>2. ASSUME Edit
      PROVE  UNCHANGED submission \/ (\E s \in Subjects : Remove(s)) \/ DeleteAccount
  BY <1>2 DEF Edit, SetPartnerActive, LogOut, Bar
<1>3. ASSUME NoticeStep \/ Tick PROVE UNCHANGED submission \/ EndNotices
  BY <1>3 DEF NoticeStep, ListNotices, MarkNotice, FailNotices, SkipNotice, SendNotice, Tick,
              rowVars
<1> QED
  BY <1>1, <1>2, <1>3 DEF Next

LEMMA Staging ==
  ASSUME Typed, NEW r \in Requests, Stage(r)
  PROVE  \E m \in Submissions :
           /\ submission[m].state = "none"
           /\ submission'[m].person = request[r].who /\ submission'[m].state = "staged"
           /\ request[r].who \in Persons /\ Exists(request[r].who)
           /\ \A n \in Submissions \ {m} : submission'[n] = submission[n]
           /\ submission' \in [Submissions -> SubmissionRows]
<1>1. request[r].who \in Persons /\ Exists(request[r].who)
  BY DEF Stage, Doing, Typed, RequestsTyped, RequestOK
<1> DEFINE until == clock + SubmissionTtl
           row == [person |-> request[r].who, state |-> "staged", until |-> until]
<1>2. PICK m \in Submissions :
        submission[m].state = "none" /\ submission' = [submission EXCEPT ![m] = row]
  BY DEF Stage
<1>3. until \in Nat
  BY Periods DEF Typed, SettingTyped
<1> HIDE DEF until
<1>4. row \in SubmissionRows /\ row.person = request[r].who /\ row.state = "staged"
  BY <1>1, <1>3 DEF SubmissionRows, SubmissionStates
<1> HIDE DEF row
<1>5. /\ submission' \in [Submissions -> SubmissionRows] /\ submission'[m] = row
      /\ \A n \in Submissions \ {m} : submission'[n] = submission[n]
  BY <1>2, <1>4 DEF Typed, StoredTyped
<1> QED
  BY <1>1, <1>2, <1>4, <1>5

LEMMA Confirming ==
  ASSUME Typed, NEW r \in Requests, Confirm(r)
  PROVE  LET m == request[r].item IN
         /\ m \in Submissions /\ submission[m].state = "staged"
         /\ submission'[m].person = submission[m].person /\ submission'[m].state = "consumed"
         /\ messages' \in [Submissions -> Nat] /\ messages'[m] = messages[m] + 1
         /\ \A n \in Submissions \ {m} : submission'[n] = submission[n] /\ messages'[n] = messages[n]
         /\ submission' \in [Submissions -> SubmissionRows]
<1> DEFINE m == request[r].item
           row == [submission[m] EXCEPT !.state = "consumed"]
<1>1. /\ m \in Submissions /\ submission[m].state = "staged"
      /\ submission' = [submission EXCEPT ![m] = row]
      /\ messages' = [messages EXCEPT ![m] = @ + 1]
  BY DEF Confirm, Doing, Consumable, Typed, RequestsTyped, RequestOK
<1>2. row \in SubmissionRows /\ row.person = submission[m].person /\ row.state = "consumed"
  BY <1>1 DEF Typed, StoredTyped, SubmissionRows, SubmissionStates
<1> HIDE DEF row
<1>3. /\ submission' \in [Submissions -> SubmissionRows] /\ submission'[m] = row
      /\ \A n \in Submissions \ {m} : submission'[n] = submission[n]
  BY <1>1, <1>2 DEF Typed, StoredTyped
<1>4. /\ messages' \in [Submissions -> Nat] /\ messages'[m] = messages[m] + 1
      /\ \A n \in Submissions \ {m} : messages'[n] = messages[n]
  BY <1>1 DEF Typed, CountsTyped
<1> QED
  BY <1>1, <1>2, <1>3, <1>4

LEMMA Purging ==
  ASSUME Typed, EndNotices
  PROVE  /\ submission' \in [Submissions -> SubmissionRows]
         /\ \A m \in Submissions :
              /\ submission'[m].person = submission[m].person
              /\ \/ submission'[m].state = submission[m].state
                 \/ submission'[m].state = "gone" /\ submission[m].state # "none"
<1>1. \A m \in Submissions :
        LET row == IF submission[m].state # "none" /\ submission[m].until <= pass.now
                   THEN [submission[m] EXCEPT !.state = "gone"] ELSE submission[m]
        IN /\ row \in SubmissionRows /\ row.person = submission[m].person
           /\ \/ row.state = submission[m].state
              \/ row.state = "gone" /\ submission[m].state # "none"
  BY DEF Typed, StoredTyped, SubmissionRows, SubmissionStates
<1> QED
  BY <1>1 DEF EndNotices

-----------------------------------------------------------------------------
(***************************************************************************)
(* Types.                                                                  *)
(***************************************************************************)

LEMMA EnrolledRow ==
  ASSUME NEW row \in Row, NEW x \in 0..MaxLink, x \in 0..2, x \in Nat
  PROVE  LET known == [row EXCEPT !.link = x, !.secret = x, !.enrolled = x, !.setupTold = x] IN
         /\ known \in Row /\ known.link = x /\ known.failures = row.failures
         /\ known.lockedUntil = row.lockedUntil /\ known.setupTold = x
BY DEF Row

\* The rows a run starts from
LEMMA InitRows ==
  ASSUME Init
  PROVE  /\ RowsTyped
         /\ \A s \in Subjects : /\ cred[s].failures = 0 /\ cred[s].lockedUntil = 0
                                /\ cred[s].enrolled # 0 => cred[s].setupTold # 0
         /\ \A x \in sessions : Exists(x.who)
         /\ sessions \subseteq SessionRows
<1> DEFINE known == [NoRow EXCEPT !.link = 1, !.secret = 1, !.enrolled = 1, !.setupTold = 1]
<1>1. /\ known \in Row /\ known.link = 1 /\ known.failures = 0 /\ known.lockedUntil = 0
      /\ known.setupTold = 1
  <2>1. 1 \in 0..MaxLink /\ 1 \in 0..2 /\ 1 \in Nat
    BY Periods
  <2> QED
    BY <2>1, NoRowTyped, EnrolledRow
<1>2. /\ NoRow \in Row /\ NewLink(NoRow) \in Row /\ NewLink(NoRow).link # 0
      /\ NewLink(NoRow).failures = 0 /\ NewLink(NoRow).lockedUntil = 0
      /\ NewLink(NoRow).enrolled = 0
  BY Periods, NoRowTyped, NewLinkRow DEF Init
<1>3. PICK listed \in SUBSET Persons, enrolled \in SUBSET Invited :
        /\ cred = [s \in Subjects |->
             IF s \in Persons \ listed THEN NoRow
             ELSE IF s \in Invited \ enrolled THEN NewLink(NoRow)
             ELSE known]
        /\ \E signed \in SUBSET (enrolled \ (Persons \ listed)) :
             sessions = {NewSession(s) : s \in {Holder} \cup signed}
  BY DEF Init
<1> HIDE DEF known
<1>5. \A s \in Subjects : cred[s] \in {NoRow, NewLink(NoRow), known}
  BY <1>3
<1>6. RowsTyped
  BY <1>1, <1>2, <1>3, <1>5 DEF RowsTyped, Exists
<1>7. \A s \in Subjects : /\ cred[s].failures = 0 /\ cred[s].lockedUntil = 0
                          /\ cred[s].enrolled # 0 => cred[s].setupTold # 0
  BY <1>1, <1>2, <1>5, NoRowTyped
<1>8. PICK signed \in SUBSET (enrolled \ (Persons \ listed)) :
        sessions = {NewSession(s) : s \in {Holder} \cup signed}
  BY <1>3
<1>9. \A s \in {Holder} \cup signed : s \in Subjects /\ cred[s] = known
  BY <1>3, <1>8, People
<1>10. clock = 1
  BY DEF Init
<1> QED
  BY <1>1, <1>6, <1>7, <1>8, <1>9, <1>10, Periods DEF NewSession, SessionRows, Exists

LEMMA TypeInit == Init => Typed
<1> SUFFICES ASSUME Init PROVE Typed
  OBVIOUS
<1>1. RowsTyped /\ sessions \subseteq SessionRows
  BY InitRows
<1>2. submission \in [Submissions -> SubmissionRows]
  <2>1. PICK p \in Persons : submission \in
          [Submissions -> {NoSubmission,
                           [person |-> p, state |-> "staged", until |-> clock + SubmissionTtl]}]
    BY DEF Init
  <2>2. clock + SubmissionTtl \in Nat
    BY Periods DEF Init
  <2> QED
    BY <2>1, <2>2 DEF NoSubmission, SubmissionRows, SubmissionStates
<1>3. SettingTyped /\ CountsTyped
  BY DEF Init, SettingTyped, CountsTyped
<1>4. RequestsTyped
  BY NoRowTyped DEF Init, RequestsTyped, RequestOK, RequestRows, Idle
<1>5. PassTyped
  BY NoRowTyped DEF Init, PassTyped, PassRows, NoPass
<1> QED
  BY <1>1, <1>2, <1>3, <1>4, <1>5 DEF Typed, StoredTyped

LEMMA RowsNext == Typed /\ [Next]_vars => RowsTyped'
<1> SUFFICES ASSUME Typed, [Next]_vars PROVE RowsTyped'
  OBVIOUS
<1>1. CASE UNCHANGED cred
  BY <1>1 DEF Typed, RowsTyped, Exists
<1>2. ASSUME NEW r \in Requests, Saving(r) PROVE RowsTyped'
  BY <1>2, Saves, Flush
<1>3. ASSUME NEW r \in Requests, AddPerson(r) PROVE RowsTyped'
  BY <1>3, Adding
<1>4. CASE (\E s \in Subjects : Remove(s)) \/ DeleteAccount
  BY <1>4, Deletions, Deleting
<1>5. CASE MarkNotice
  BY <1>5, Marking
<1> QED
  BY <1>1, <1>2, <1>3, <1>4, <1>5, RowSteps DEF vars, rowVars

LEMMA StoredNext == Typed /\ [Next]_vars => StoredTyped'
<1> SUFFICES ASSUME Typed, [Next]_vars PROVE StoredTyped'
  OBVIOUS
<1>1. CASE UNCHANGED vars
  BY <1>1 DEF Typed, StoredTyped, vars, rowVars
<1>2. CASE Next
  <2>1. sessions' \subseteq SessionRows
    <3>1. ASSUME NEW r \in Requests, request[r].at # "idle"
          PROVE  NewSession(request[r].who) \in SessionRows
      <4> DEFINE until == clock + SessionTtl
      <4>1. request[r].who \in Subjects /\ until \in Nat
        BY <3>1, Reads, Periods DEF Typed, SettingTyped
      <4> QED
        BY <4>1 DEF NewSession, SessionRows
    <3> QED
      BY <1>2, <3>1, SessionSteps DEF Typed, StoredTyped
  <2>2. submission' \in [Submissions -> SubmissionRows]
    <3>1. CASE UNCHANGED submission
      BY <3>1 DEF Typed, StoredTyped
    <3>2. ASSUME NEW r \in Requests, Stage(r) \/ Confirm(r)
          PROVE  submission' \in [Submissions -> SubmissionRows]
      BY <3>2, Staging, Confirming
    <3>3. CASE (\E s \in Subjects : Remove(s)) \/ DeleteAccount
      BY <3>3, Deletions, Deleting DEF StoredTyped
    <3>4. CASE EndNotices
      BY <3>4, Purging
    <3> QED
      BY <1>2, <3>1, <3>2, <3>3, <3>4, SubmissionSteps
  <2> QED
    BY <2>1, <2>2 DEF StoredTyped
<1> QED
  BY <1>1, <1>2

LEMMA SettingNext == Typed /\ [Next]_vars => SettingTyped'
<1> SUFFICES ASSUME Typed, [Next]_vars PROVE SettingTyped'
  OBVIOUS
<1>1. /\ account \in {"allowed", "barred", "gone"} /\ active \subseteq Partners
      /\ reachable \in BOOLEAN /\ clock \in Nat \ {0}
  BY DEF Typed, SettingTyped
<1>2. ASSUME NEW r \in Requests, RequestStep(r) PROVE UNCHANGED <<account, active, reachable,
                                                                  clock>>
  BY <1>2 DEF RequestStep, Read, SetUp, LogIn, LogInFails, OpenSession, ChangeSecret, Rotate,
              AddPerson, Stage, Confirm, rowVars
<1>3. ASSUME Edit
      PROVE  /\ UNCHANGED <<reachable, clock>>
             /\ account' \in {account, "barred", "gone"} /\ active' \subseteq Partners
  BY <1>1, <1>3 DEF Edit, Remove, SetPartnerActive, LogOut, Bar, DeleteAccount
<1>4. ASSUME NoticeStep
      PROVE UNCHANGED <<account, active, clock>> /\ reachable' \in BOOLEAN
  BY <1>1, <1>4 DEF NoticeStep, ListNotices, MarkNotice, EndNotices, FailNotices, SkipNotice,
                    SendNotice, rowVars
<1>5. ASSUME Tick PROVE UNCHANGED <<account, active, reachable>> /\ clock' \in Nat \ {0}
  BY <1>1, <1>5 DEF Tick, rowVars
<1> QED
  BY <1>1, <1>2, <1>3, <1>4, <1>5 DEF Next, SettingTyped, vars, rowVars

LEMMA IdleRow == Idle \in RequestRows /\ Idle.at = "idle"
BY NoRowTyped DEF Idle, RequestRows

LEMMA RequestsNext == Typed /\ [Next]_vars => RequestsTyped'
<1> SUFFICES ASSUME Typed, [Next]_vars PROVE RequestsTyped'
  OBVIOUS
<1>1. ASSUME NEW r \in Requests, NEW q \in RequestRows, RequestOK(q),
             request' = [request EXCEPT ![r] = q]
      PROVE  RequestsTyped'
  BY <1>1 DEF Typed, RequestsTyped
<1>2. ASSUME UNCHANGED request PROVE RequestsTyped'
  BY <1>2 DEF Typed, RequestsTyped
<1>3. ASSUME NEW r \in Requests, Done(r) PROVE RequestsTyped'
  BY <1>1, <1>3, IdleRow DEF Done, RequestOK
<1>4. ASSUME NEW r \in Requests, request' = [request EXCEPT ![r].at = "signed"],
             request[r].at = "read"
      PROVE  RequestsTyped'
  <2> DEFINE q == [request[r] EXCEPT !.at = "signed"]
  <2>1. q \in RequestRows /\ q.at = "signed" /\ q.who = request[r].who /\ q.op = request[r].op
    BY Reads DEF RequestRows
  <2>2. RequestOK(q)
    BY <1>4, <2>1 DEF RequestOK, Typed, RequestsTyped
  <2>3. request' = [request EXCEPT ![r] = q]
    BY <1>4
  <2> HIDE DEF q
  <2> QED
    BY <1>1, <2>1, <2>2, <2>3
<1>5. ASSUME NEW r \in Requests, NEW s \in Subjects, NEW op \in Operations, Read(r, s, op)
      PROVE  RequestsTyped'
  <2>1. PICK m \in IF op = "confirm" THEN Submissions ELSE {Nobody} :
          request' = [request EXCEPT ![r] = [at |-> "read", who |-> s, op |-> op, now |-> clock,
                                             seen |-> cred[s], item |-> m]]
    BY <1>5 DEF Read
  <2> DEFINE q == [at |-> "read", who |-> s, op |-> op, now |-> clock, seen |-> cred[s],
                   item |-> m]
  <2>2. /\ op = "rotate" => cred[s].link < MaxLink
        /\ op \in {"add", "stage", "confirm"} => s \in Persons
    BY <1>5, People DEF Read, MayAct, Kind, Subjects, Invited
  <2>3. cred[s] \in Row /\ clock \in Nat
    BY DEF Typed, RowsTyped, SettingTyped
  <2>4. q \in RequestRows
    BY <2>3 DEF RequestRows
  <2>5. RequestOK(q)
    BY <2>2 DEF RequestOK
  <2> HIDE DEF q
  <2>6. request' = [request EXCEPT ![r] = q]
    BY <2>1 DEF q
  <2> QED
    BY <1>1, <2>4, <2>5, <2>6
<1>6. ASSUME NEW r \in Requests, RequestStep(r) PROVE RequestsTyped'
  <2>1. CASE SetUp(r) \/ LogIn(r)
    <3>1. SignIn(r) /\ request[r].at = "read"
      BY <2>1 DEF SetUp, LogIn, Doing
    <3> QED
      BY <1>3, <1>4, <3>1, SigningIn
  <2>2. CASE \/ LogInFails(r) \/ OpenSession(r) \/ ChangeSecret(r) \/ Rotate(r)
             \/ AddPerson(r) \/ Stage(r) \/ Confirm(r)
    <3>1. Done(r)
      BY <2>2 DEF LogInFails, OpenSession, ChangeSecret, Rotate, AddPerson, Stage, Confirm
    <3> QED
      BY <1>3, <3>1
  <2> QED
    BY <1>5, <1>6, <2>1, <2>2 DEF RequestStep
<1>7. ASSUME Edit \/ NoticeStep \/ Tick PROVE UNCHANGED request
  BY <1>7 DEF Edit, NoticeStep, ListNotices, MarkNotice, EndNotices, FailNotices, SkipNotice,
              SendNotice, Tick
<1> QED
  BY <1>2, <1>6, <1>7 DEF Next, vars

LEMMA CountsNext == Typed /\ [Next]_vars => CountsTyped'
<1> SUFFICES ASSUME Typed, [Next]_vars PROVE CountsTyped'
  OBVIOUS
<1>0. CountsTyped /\ Invited \subseteq Subjects
  BY People DEF Typed
<1>1. ASSUME UNCHANGED historyVars PROVE CountsTyped'
  BY <1>0, <1>1 DEF CountsTyped, historyVars
<1>2. ASSUME NEW r \in Requests, RequestStep(r) PROVE CountsTyped'
  <2>1. CASE Saving(r)
    BY <2>1, Saves
  <2>2. CASE Confirm(r)
    <3>1. messages' \in [Submissions -> Nat] /\ UNCHANGED <<tries, enrolments, announced, unmarked>>
      BY <2>2, Confirming DEF Confirm
    <3> QED
      BY <1>0, <3>1 DEF CountsTyped
  <2>3. CASE \/ \E s \in Subjects, op \in Operations : Read(r, s, op)
             \/ OpenSession(r) \/ AddPerson(r) \/ Stage(r)
    BY <1>1, <2>3 DEF Read, OpenSession, AddPerson, Stage
  <2> QED
    BY <1>2, <2>1, <2>2, <2>3 DEF RequestStep, Saving
<1>3. ASSUME NEW s \in Invited, SendNotice(s) PROVE CountsTyped'
  <2> DEFINE told == IF pass.seen[s].enrolled # 0 THEN announced[s] + 1 ELSE announced[s]
  <2>1. told \in Nat
    BY <1>0 DEF CountsTyped
  <2>2. /\ announced' = [announced EXCEPT ![s] = told] \/ announced' = announced
        /\ UNCHANGED <<messages, tries, enrolments, unmarked>>
    BY <1>3 DEF SendNotice
  <2> HIDE DEF told
  <2> QED
    BY <1>0, <2>1, <2>2 DEF CountsTyped
<1>4. ASSUME FailNotices PROVE CountsTyped'
  <2>1. /\ unmarked' = unmarked \/ (pass.said # Nobody /\ unmarked' = [unmarked EXCEPT ![pass.said] = @ + 1])
        /\ UNCHANGED <<messages, tries, enrolments, announced>>
    BY <1>4 DEF FailNotices
  <2>2. pass.said # Nobody => pass.said \in Subjects
    BY <1>0 DEF Typed, PassTyped, PassRows
  <2> QED
    BY <1>0, <2>1, <2>2 DEF CountsTyped
<1>5. ASSUME Edit \/ Tick \/ ListNotices \/ MarkNotice \/ EndNotices \/ \E s \in Invited : SkipNotice(s)
      PROVE  CountsTyped'
  BY <1>1, <1>5 DEF Edit, Tick, ListNotices, MarkNotice, EndNotices, SkipNotice
<1> QED
  BY <1>1, <1>2, <1>3, <1>4, <1>5 DEF Next, NoticeStep, vars

\* What the pass keeps of what it has read, and what it still has to do
LEMMA PassSteps ==
  ASSUME Typed, Next
  PROVE  \/ UNCHANGED pass
         \/ pass' = NoPass
         \/ ListNotices
         \/ /\ pass'.stage = pass.stage /\ pass'.now = pass.now /\ pass'.seen = pass.seen
            /\ pass' \in PassRows /\ pass'.left \subseteq pass.left
            /\ pass.stage # "idle"
            /\ pass'.said = Nobody \/ (pass'.said \in pass'.left /\ pass.said = Nobody)
<1>0. pass \in PassRows /\ (pass.stage = "idle" => pass.left = {})
      /\ (pass.said = Nobody \/ pass.said \in pass.left)
  BY DEF Typed, PassTyped
<1>1. ASSUME (\E r \in Requests : RequestStep(r)) \/ Edit \/ Tick PROVE UNCHANGED pass
  BY <1>1 DEF RequestStep, Read, SetUp, LogIn, LogInFails, OpenSession, ChangeSecret, Rotate,
              AddPerson, Stage, Confirm, Edit, Tick
<1>2. ASSUME EndNotices \/ FailNotices PROVE pass' = NoPass
  BY <1>2 DEF EndNotices, FailNotices
<1>3. ASSUME NEW s, s \in pass.left, NEW left, left = pass.left \ {s},
             \/ pass' = [pass EXCEPT !.left = left] /\ pass.said = Nobody
             \/ pass' = [pass EXCEPT !.said = Nobody, !.left = left]
             \/ pass' = [pass EXCEPT !.said = s] /\ pass.said = Nobody
      PROVE  /\ pass'.stage = pass.stage /\ pass'.now = pass.now /\ pass'.seen = pass.seen
             /\ pass' \in PassRows /\ pass'.left \subseteq pass.left
             /\ pass.stage # "idle"
             /\ pass'.said = Nobody \/ (pass'.said \in pass'.left /\ pass.said = Nobody)
  <2>1. left \in SUBSET Invited /\ left \subseteq pass.left /\ s \in Invited /\ pass.stage # "idle"
    BY <1>0, <1>3 DEF PassRows
  <2> HIDE <1>3
  <2>2. CASE pass' = [pass EXCEPT !.left = left] /\ pass.said = Nobody
    BY <1>0, <2>1, <2>2 DEF PassRows
  <2>3. CASE pass' = [pass EXCEPT !.said = Nobody, !.left = left]
    BY <1>0, <2>1, <2>3 DEF PassRows
  <2>4. CASE pass' = [pass EXCEPT !.said = s] /\ pass.said = Nobody
    BY <1>0, <1>3, <2>1, <2>4 DEF PassRows
  <2> QED
    BY <1>3, <2>2, <2>3, <2>4
<1>4. ASSUME NEW s \in Invited, SkipNotice(s) \/ SendNotice(s)
      PROVE  /\ s \in pass.left
             /\ \/ pass' = [pass EXCEPT !.left = pass.left \ {s}] /\ pass.said = Nobody
                \/ pass' = [pass EXCEPT !.said = s] /\ pass.said = Nobody
  BY <1>4 DEF SkipNotice, SendNotice
<1>5. ASSUME MarkNotice
      PROVE  /\ pass.said \in pass.left
             /\ pass' = [pass EXCEPT !.said = Nobody, !.left = pass.left \ {pass.said}]
  BY <1>0, <1>5 DEF MarkNotice
<1> QED
  BY <1>1, <1>2, <1>3, <1>4, <1>5 DEF Next, NoticeStep

LEMMA Listing ==
  ASSUME Typed, ListNotices
  PROVE  /\ pass' \in PassRows /\ pass'.stage # "idle" /\ pass'.said = Nobody /\ pass.said = Nobody
         /\ pass'.now # 0 /\ pass'.seen = cred
         /\ \A s \in pass'.left : cred[s].enrolled # 0 => cred[s].setupTold = 0
<1> DEFINE stage == IF pass.stage = "idle" THEN "persons" ELSE "partners"
           now   == IF pass.stage = "idle" THEN clock ELSE pass.now
           left  == {s \in Listed(stage) : NoticeDue(cred[s], now)}
<1>1. pass' = [NoPass EXCEPT !.stage = stage, !.now = now, !.seen = cred, !.left = left]
      /\ pass.said = Nobody
  BY DEF ListNotices
<1>2. /\ stage \in {"persons", "partners"} /\ now \in Nat \ {0}
      /\ left \in SUBSET Invited /\ cred \in [Subjects -> Row]
      /\ \A s \in left : cred[s].enrolled # 0 => cred[s].setupTold = 0
  BY People DEF Typed, PassTyped, PassRows, SettingTyped, RowsTyped, Listed, NoticeDue
<1> HIDE DEF stage, now, left
<1>3. pass' = [stage |-> stage, now |-> now, left |-> left, said |-> Nobody, seen |-> cred]
  BY <1>1 DEF NoPass
<1>4. pass' \in PassRows
  BY <1>2, <1>3 DEF PassRows
<1>5. /\ pass'.stage = stage /\ pass'.now = now /\ pass'.left = left /\ pass'.said = Nobody
      /\ pass'.seen = cred
  BY <1>3
<1> QED
  BY <1>1, <1>2, <1>4, <1>5

LEMMA PassNext == Typed /\ [Next]_vars => PassTyped'
<1> SUFFICES ASSUME Typed, [Next]_vars PROVE PassTyped'
  OBVIOUS
<1>1. CASE UNCHANGED pass
  BY <1>1 DEF Typed, PassTyped
<1>2. CASE pass' = NoPass
  BY <1>2, NoRowTyped DEF NoPass, PassTyped, PassRows
<1>3. CASE ListNotices
  BY <1>3, Listing DEF PassTyped
<1>4. CASE /\ pass'.stage = pass.stage /\ pass'.now = pass.now /\ pass'.seen = pass.seen
           /\ pass' \in PassRows /\ pass'.left \subseteq pass.left
           /\ pass.stage # "idle"
           /\ pass'.said = Nobody \/ (pass'.said \in pass'.left /\ pass.said = Nobody)
  BY <1>4 DEF Typed, PassTyped
<1> QED
  BY <1>1, <1>2, <1>3, <1>4, PassSteps DEF vars

LEMMA TypeNext == Typed /\ [Next]_vars => Typed'
BY RowsNext, StoredNext, SettingNext, CountsNext, RequestsNext, PassNext DEF Typed

LEMMA TypedIsTypeOK == Typed => TypeOK
BY DEF Typed, RowsTyped, StoredTyped, SettingTyped, CountsTyped, RequestsTyped, PassTyped,
       TypeOK, SessionRows, SubmissionRows, SubmissionStates, RequestRows, PassRows

-----------------------------------------------------------------------------
(***************************************************************************)
(* Nothing of a deleted person comes back.                                 *)
(***************************************************************************)

Deletion == (\E s \in Subjects : Remove(s)) \/ DeleteAccount

\* Rows go with a deletion only.
LEMMA RowsStay ==
  ASSUME Typed, Next, ~Deletion
  PROVE  \A s \in Subjects : Exists(s) => Exists(s)'
<1>1. CASE UNCHANGED cred
  BY <1>1 DEF Exists
<1>2. ASSUME NEW r \in Requests, Saving(r) PROVE \A s \in Subjects : Exists(s) => Exists(s)'
  BY <1>2, Saves, Flush
<1>3. ASSUME NEW r \in Requests, AddPerson(r) PROVE \A s \in Subjects : Exists(s) => Exists(s)'
  BY <1>3, Adding DEF Exists
<1>4. CASE MarkNotice
  BY <1>4, Marking
<1> QED
  BY <1>1, <1>2, <1>3, <1>4, RowSteps DEF Deletion

LEMMA GoneInit == Init => GoneIsGone
<1> SUFFICES ASSUME Init PROVE GoneIsGone
  OBVIOUS
<1>1. ASSUME NEW m \in Submissions, submission[m].state \in {"staged", "consumed"}
      PROVE  Exists(submission[m].person)
  <2>1. PICK p \in Persons : submission \in
          [Submissions -> {NoSubmission,
                           [person |-> p, state |-> "staged", until |-> clock + SubmissionTtl]}]
    BY DEF Init
  <2>2. submission[m].state = "staged" /\ submission[m].person = p
    BY <1>1, <2>1 DEF NoSubmission
  <2>3. cred[p].secret # 0
    BY <2>2 DEF Init
  <2> QED
    BY <2>2, <2>3, InitRows, NoRowTyped, People DEF RowsTyped
<1> QED
  BY <1>1, InitRows DEF GoneIsGone

LEMMA OwnersInit == Init => OwnersKnown
BY DEF Init, OwnersKnown, NoSubmission

LEMMA OwnersNext == Typed /\ OwnersKnown /\ [Next]_vars => OwnersKnown'
<1> SUFFICES ASSUME Typed, OwnersKnown, [Next]_vars PROVE OwnersKnown'
  OBVIOUS
<1>1. CASE UNCHANGED submission
  BY <1>1 DEF OwnersKnown
<1>2. ASSUME NEW r \in Requests, Stage(r) PROVE OwnersKnown'
  BY <1>2, Staging DEF OwnersKnown
<1>3. ASSUME NEW r \in Requests, Confirm(r) PROVE OwnersKnown'
  BY <1>3, Confirming DEF OwnersKnown
<1>4. CASE Deletion
  <2>1. PICK gone \in SUBSET Subjects : Delete(gone)
    BY <1>4, Deletions DEF Deletion
  <2>2. \A m \in Submissions : submission[m].person \in gone => submission[m].person \in Persons
    BY People DEF Typed, StoredTyped, SubmissionRows
  <2> QED
    BY <2>1, <2>2, Deleting DEF OwnersKnown
<1>5. CASE EndNotices
  BY <1>5, Purging DEF OwnersKnown
<1> QED
  BY <1>1, <1>2, <1>3, <1>4, <1>5, SubmissionSteps DEF Deletion, vars, rowVars

LEMMA GoneNext ==
  Typed /\ OwnersKnown /\ OwnersKnown' /\ GoneIsGone /\ [Next]_vars => GoneIsGone'
<1> SUFFICES ASSUME Typed, OwnersKnown, OwnersKnown', GoneIsGone, [Next]_vars
             PROVE  GoneIsGone'
  OBVIOUS
<1>1. CASE UNCHANGED vars
  BY <1>1 DEF GoneIsGone, Exists, vars, rowVars
<1>2. CASE Deletion
  <2>1. PICK gone \in SUBSET Subjects : Delete(gone)
    BY <1>2, Deletions DEF Deletion
  <2>2. \A s \in Subjects : cred'[s] = IF s \in gone THEN NoRow ELSE cred[s]
    BY <2>1, Deleting
  <2>3. \A x \in sessions' : x.who \in Subjects /\ cred'[x.who].link # 0
    BY <2>1, <2>2, Deleting DEF GoneIsGone, Exists, Typed, StoredTyped, SessionRows
  <2>4. ASSUME NEW m \in Submissions, submission'[m].state \in {"staged", "consumed"}
        PROVE  cred'[submission'[m].person].link # 0
    <3>1. /\ submission[m].person \notin gone /\ submission'[m].person = submission[m].person
          /\ submission[m].state \in {"staged", "consumed"}
      BY <2>1, <2>4, Deleting
    <3>2. cred[submission[m].person].link # 0
      BY <3>1 DEF GoneIsGone, Exists
    <3>3. submission[m].person \in Subjects
      BY <3>1, People DEF OwnersKnown
    <3> QED
      BY <2>2, <3>1, <3>2, <3>3
  <2> QED
    BY <2>3, <2>4 DEF GoneIsGone, Exists
<1>3. CASE Next /\ ~Deletion
  <2>1. \A s \in Subjects : Exists(s) => Exists(s)'
    BY <1>3, RowsStay
  <2>2. ASSUME NEW x \in sessions' PROVE Exists(x.who) /\ x.who \in Subjects
    <3>1. CASE x \in sessions
      BY <3>1 DEF GoneIsGone, Typed, StoredTyped, SessionRows
    <3>2. ASSUME NEW r \in Requests, request[r].at # "idle", Exists(request[r].who),
                 x = NewSession(request[r].who)
          PROVE  Exists(x.who) /\ x.who \in Subjects
      BY <3>2, Reads DEF NewSession
    <3> QED
      BY <1>3, <3>1, <3>2, SessionSteps
  <2>3. ASSUME NEW m \in Submissions, submission'[m].state \in {"staged", "consumed"}
        PROVE  Exists(submission'[m].person)
    <3>1. CASE UNCHANGED submission
      BY <2>3, <3>1 DEF GoneIsGone
    <3>2. ASSUME NEW r \in Requests, Stage(r) \/ Confirm(r)
          PROVE  Exists(submission'[m].person)
      <4>1. CASE Stage(r)
        BY <2>3, <4>1, Staging DEF GoneIsGone
      <4>2. CASE Confirm(r)
        BY <2>3, <4>2, Confirming DEF GoneIsGone
      <4> QED
        BY <3>2, <4>1, <4>2
    <3>3. CASE EndNotices
      BY <2>3, <3>3, Purging DEF GoneIsGone
    <3> QED
      BY <1>3, <3>1, <3>2, <3>3, SubmissionSteps DEF Deletion
  <2>4. \A m \in Submissions : submission'[m].state \in {"staged", "consumed"} =>
                                submission'[m].person \in Subjects
    BY People DEF OwnersKnown
  <2>5. \A x \in sessions' : cred'[x.who].link # 0
    BY <2>1, <2>2 DEF Exists
  <2>6. \A m \in Submissions : submission'[m].state \in {"staged", "consumed"} =>
                                cred'[submission'[m].person].link # 0
    BY <2>1, <2>3, <2>4 DEF Exists
  <2> QED
    BY <2>5, <2>6 DEF GoneIsGone, Exists
<1> QED
  BY <1>1, <1>2, <1>3

-----------------------------------------------------------------------------
(***************************************************************************)
(* One message for each submission.                                        *)
(***************************************************************************)

LEMMA MessageSteps ==
  ASSUME Typed, Next
  PROVE  UNCHANGED messages \/ \E r \in Requests : Confirm(r)
<1>1. ASSUME NEW r \in Requests, RequestStep(r) PROVE UNCHANGED messages \/ Confirm(r)
  <2>1. CASE Saving(r)
    BY <2>1, Saves DEF CountersGrow
  <2> QED
    BY <1>1, <2>1 DEF RequestStep, Saving, Read, OpenSession, AddPerson, Stage, historyVars
<1>2. ASSUME Edit \/ NoticeStep \/ Tick PROVE UNCHANGED messages
  BY <1>2 DEF Edit, NoticeStep, ListNotices, MarkNotice, EndNotices, FailNotices, SkipNotice,
              SendNotice, Tick, historyVars
<1> QED
  BY <1>1, <1>2 DEF Next

LEMMA MessageNext == Typed /\ MessageInv /\ [Next]_vars => MessageInv'
<1> SUFFICES ASSUME Typed, MessageInv, [Next]_vars PROVE MessageInv'
  OBVIOUS
<1> USE DEF MessageInv, OneMessagePerSubmission, UnusedSilent
<1>1. CASE UNCHANGED vars
  BY <1>1 DEF vars, rowVars, historyVars
<1>2. ASSUME NEW r \in Requests, Confirm(r) PROVE MessageInv'
  <2> DEFINE m == request[r].item
  <2>1. /\ m \in Submissions /\ messages[m] = 0 /\ messages'[m] = messages[m] + 1
        /\ submission'[m].state = "consumed"
        /\ \A n \in Submissions \ {m} :
             submission'[n] = submission[n] /\ messages'[n] = messages[n]
    BY <1>2, Confirming
  <2> HIDE DEF m
  <2> QED
    BY <2>1
<1>3. CASE Next /\ UNCHANGED messages
  <2>1. CASE UNCHANGED submission
    BY <1>3, <2>1
  <2>2. ASSUME NEW r \in Requests, Stage(r) PROVE MessageInv'
    BY <1>3, <2>2, Staging
  <2>3. CASE Deletion
    <3>1. \A m \in Submissions : submission'[m].state \in {submission[m].state, "gone"}
      BY <2>3, Deletions, Deleting DEF Deletion
    <3> QED
      BY <1>3, <3>1
  <2>4. CASE EndNotices
    BY <1>3, <2>4, Purging
  <2> QED
    BY <1>2, <1>3, <2>1, <2>2, <2>3, <2>4, SubmissionSteps DEF Deletion
<1> QED
  BY <1>1, <1>2, <1>3, MessageSteps

-----------------------------------------------------------------------------
(***************************************************************************)
(* Locks follow wrong attempts.                                            *)
(***************************************************************************)

LEMMA TriesGrow ==
  ASSUME Typed, Next
  PROVE  \A s \in Subjects : tries'[s] \in Nat /\ tries[s] \in Nat /\ tries'[s] >= tries[s]
<1>1. ASSUME NEW r \in Requests, RequestStep(r) PROVE UNCHANGED tries \/ Saving(r)
  BY <1>1 DEF RequestStep, Saving, Read, OpenSession, AddPerson, Stage, Confirm, historyVars
<1>2. ASSUME Edit \/ NoticeStep \/ Tick PROVE UNCHANGED tries
  BY <1>2 DEF Edit, NoticeStep, ListNotices, MarkNotice, EndNotices, FailNotices, SkipNotice,
              SendNotice, Tick, historyVars
<1>3. ASSUME NEW r \in Requests, Saving(r) PROVE \A s \in Subjects : tries'[s] >= tries[s]
  BY <1>3, Saves DEF CountersGrow
<1>4. CountsTyped'
  BY CountsNext
<1> QED
  BY <1>1, <1>2, <1>3, <1>4 DEF Next, CountsTyped, Typed

\* What a request has read came from the table.
LEMMA ReadSteps ==
  ASSUME Typed, Next, NEW r \in Requests, request'[r].at = "read"
  PROVE  \/ request'[r].who = request[r].who /\ request'[r].seen = request[r].seen
            /\ request[r].at = "read"
         \/ request'[r].who \in Subjects /\ request'[r].seen = cred[request'[r].who]
<1>0. request \in [Requests -> RequestRows]
  BY DEF Typed, RequestsTyped
<1>1. CASE UNCHANGED request
  BY <1>1
<1>2. ASSUME NEW q \in Requests, Done(q) PROVE request'[r] = request[r]
  BY <1>0, <1>2, IdleRow DEF Done
<1>3. ASSUME NEW q \in Requests, request' = [request EXCEPT ![q].at = "signed"]
      PROVE  request'[r] = request[r]
  BY <1>0, <1>3 DEF RequestRows
<1>4. ASSUME NEW q \in Requests, NEW s \in Subjects, NEW op \in Operations, Read(q, s, op)
      PROVE  \/ request'[r] = request[r]
             \/ request'[r].who = s /\ request'[r].seen = cred[s]
  <2>1. PICK m : request' = [request EXCEPT ![q] = [at |-> "read", who |-> s, op |-> op,
                                        now |-> clock, seen |-> cred[s], item |-> m]]
    BY <1>4 DEF Read
  <2> QED
    BY <1>0, <2>1
<1>5. ASSUME NEW q \in Requests, RequestStep(q)
      PROVE  \/ Done(q) \/ request' = [request EXCEPT ![q].at = "signed"]
             \/ \E s \in Subjects, op \in Operations : Read(q, s, op)
  BY <1>5, SigningIn DEF RequestStep, SetUp, LogIn, LogInFails, OpenSession, ChangeSecret,
                         Rotate, AddPerson, Stage, Confirm
<1>6. ASSUME Edit \/ NoticeStep \/ Tick PROVE UNCHANGED request
  BY <1>6 DEF Edit, NoticeStep, ListNotices, MarkNotice, EndNotices, FailNotices, SkipNotice,
              SendNotice, Tick
<1>7. CASE Edit \/ NoticeStep \/ Tick
  BY <1>1, <1>6, <1>7
<1>8. ASSUME NEW q \in Requests, RequestStep(q)
      PROVE  \/ request'[r] = request[r]
             \/ request'[r].who \in Subjects /\ request'[r].seen = cred[request'[r].who]
  BY <1>2, <1>3, <1>4, <1>5, <1>8
<1> QED
  BY <1>7, <1>8 DEF Next

LEMMA LockNext == Typed /\ LockInv /\ [Next]_vars => LockInv'
<1> SUFFICES ASSUME Typed, LockInv, [Next]_vars PROVE LockInv'
  OBVIOUS
<1>1. CASE UNCHANGED vars
  BY <1>1 DEF LockInv, LockedOnlyAfterFailures, vars, rowVars, historyVars
<1>2. CASE Next
  <2> DEFINE RowOK(s) == /\ cred'[s].failures <= tries'[s]
                         /\ cred'[s].lockedUntil # 0 => tries'[s] >= LockFrom[Kind(s)]
  <2>0. \A s \in Subjects : /\ tries'[s] \in Nat /\ tries[s] \in Nat /\ tries'[s] >= tries[s]
                            /\ LockFrom[Kind(s)] \in Nat
                            /\ cred[s] \in Row /\ cred[s].failures \in Nat
                            /\ cred[s].failures <= tries[s]
                            /\ cred[s].lockedUntil # 0 => tries[s] >= LockFrom[Kind(s)]
    BY <1>2, TriesGrow, Periods DEF LockInv, LockedOnlyAfterFailures, Typed, RowsTyped, Row
  <2>1. ASSUME NEW s \in Subjects, \/ /\ cred'[s].failures = cred[s].failures
                                      /\ cred'[s].lockedUntil = cred[s].lockedUntil
                                   \/ cred'[s].failures = 0 /\ cred'[s].lockedUntil = 0
        PROVE  RowOK(s)
    BY <2>0, <2>1
  <2> HIDE DEF RowOK
  <2>2. ASSUME NEW r \in Requests, Saving(r) PROVE \A s \in Subjects : RowOK(s)
    <3> DEFINE who == request[r].who
    <3>1. PICK new \in Row : /\ new.link \in {Seen(r).link} \cup 1..MaxLink
                             /\ Save(r, new) /\ LockKept(r, new)
      BY <2>2, Saves
    <3>2. request[r].at = "read"
      BY <2>2, Saves
    <3>3. /\ who \in Subjects /\ cred'[who] = Written(cred[who], Seen(r), new)
          /\ \A s \in Subjects \ {who} : cred'[s] = cred[s]
      BY <3>1, <3>2, Flush
    <3>4. /\ Seen(r) \in Row /\ Seen(r).failures <= tries[who] /\ Seen(r).failures \in Nat
          /\ new.failures \in Nat
      BY <3>2, Reads DEF LockInv, Seen, Row
    <3>5. /\ cred'[who].failures =
               IF new.failures # Seen(r).failures THEN new.failures ELSE cred[who].failures
          /\ cred'[who].lockedUntil =
               IF new.lockedUntil # Seen(r).lockedUntil THEN new.lockedUntil
               ELSE cred[who].lockedUntil
      BY <2>0, <3>3, <3>4, WrittenColumns
    <3>6. \/ new.failures \in {0, Seen(r).failures} /\ new.lockedUntil \in {0, Seen(r).lockedUntil}
          \/ /\ new.failures = Seen(r).failures + 1 /\ tries'[who] = tries[who] + 1
             /\ new.lockedUntil = Seen(r).lockedUntil \/ new.failures >= LockFrom[Kind(who)]
      BY <3>1 DEF LockKept
    <3> HIDE DEF who
    <3>7. cred'[who].failures <= tries'[who]
      BY <2>0, <3>3, <3>4, <3>5, <3>6
    <3>8. cred'[who].lockedUntil # 0 => tries'[who] >= LockFrom[Kind(who)]
      BY <2>0, <3>3, <3>4, <3>5, <3>6
    <3> QED
      BY <2>1, <3>3, <3>7, <3>8 DEF RowOK, who
  <2>3. ASSUME NEW r \in Requests, AddPerson(r) PROVE \A s \in Subjects : RowOK(s)
    BY <2>1, <2>3, Adding
  <2>4. ASSUME Deletion PROVE \A s \in Subjects : RowOK(s)
    <3>1. \A s \in Subjects : cred'[s] \in {NoRow, cred[s]}
      BY <2>4, Deletions, Deleting DEF Deletion
    <3> QED
      BY <2>1, <3>1, NoRowTyped
  <2>5. ASSUME MarkNotice PROVE \A s \in Subjects : RowOK(s)
    BY <2>1, <2>5, Marking
  <2>6. ASSUME UNCHANGED cred PROVE \A s \in Subjects : RowOK(s)
    BY <2>1, <2>6
  <2>7. \A s \in Subjects : RowOK(s)
    BY <1>2, <2>2, <2>3, <2>4, <2>5, <2>6, RowSteps DEF Deletion
  <2>8. ASSUME NEW r \in Requests, request'[r].at = "read"
        PROVE  request'[r].seen.failures <= tries'[request'[r].who]
    <3>1. CASE /\ request'[r].who = request[r].who /\ request'[r].seen = request[r].seen
               /\ request[r].at = "read"
      <4>1. /\ request[r].who \in Subjects /\ request[r].seen.failures \in Nat
            /\ request[r].seen.failures <= tries[request[r].who]
        BY <3>1, Reads DEF LockInv, Seen, Row
      <4> QED
        BY <2>0, <3>1, <4>1
    <3>2. CASE request'[r].who \in Subjects /\ request'[r].seen = cred[request'[r].who]
      BY <2>0, <3>2
    <3> QED
      BY <1>2, <2>8, <3>1, <3>2, ReadSteps
  <2> QED
    BY <2>7, <2>8 DEF LockInv, LockedOnlyAfterFailures, RowOK
<1> QED
  BY <1>1, <1>2

-----------------------------------------------------------------------------
(***************************************************************************)
(* A set-up is announced once.                                             *)
(***************************************************************************)

\* How many notices a person's set-ups account for
Due(s) == enrolments[s] + unmarked[s]

LEMMA Dues ==
  ASSUME Typed, NEW s \in Invited
  PROVE  /\ announced[s] \in Nat /\ enrolments[s] \in Nat /\ unmarked[s] \in Nat
         /\ s \in Subjects /\ s # Nobody
BY People DEF Typed, CountsTyped

\* A step that leaves the pass alone, and a person's row as it was or without a set-up.
LEMMA NoticeQuiet ==
  ASSUME Typed, NEW s \in Invited, NoticeOf(s), UNCHANGED <<pass, announced>>,
         Due(s)' \in Nat, Due(s)' >= Due(s), Owed(s)' => Owed(s) \/ Due(s)' > Due(s)
  PROVE  NoticeOf(s)'
BY Dues DEF NoticeOf, Covered, Pending, Due

LEMMA NoticeSaved ==
  ASSUME Typed, NoticeInv, NEW r \in Requests, Saving(r), NEW s \in Invited
  PROVE  NoticeOf(s)'
<1> DEFINE who == request[r].who
<1>1. UNCHANGED pass
  BY DEF Saving, SetUp, LogIn, LogInFails, ChangeSecret, Rotate
<1>2. UNCHANGED announced /\ Due(s)' \in Nat /\ Due(s)' >= Due(s)
      /\ enrolments'[s] \in Nat /\ unmarked'[s] \in Nat
      /\ enrolments'[s] >= enrolments[s] /\ unmarked'[s] >= unmarked[s]
  BY Saves, Dues DEF CountersGrow, Due
<1>3. Owed(s)' => Owed(s) \/ Due(s)' > Due(s)
  <2>1. PICK new \in Row : /\ new.link \in {Seen(r).link} \cup 1..MaxLink
                           /\ Save(r, new) /\ NoticeKept(r, new)
    BY Saves
  <2>2. request[r].at = "read"
    BY Saves
  <2>3. /\ who \in Subjects /\ cred'[who] = Written(cred[who], Seen(r), new)
        /\ \A x \in Subjects \ {who} : cred'[x] = cred[x]
    BY <2>1, <2>2, Flush
  <2>4. CASE s # who
    BY <2>3, <2>4, Dues DEF Owed
  <2>5. CASE s = who
    <3>1. /\ cred'[s].enrolled =
               IF new.enrolled # Seen(r).enrolled THEN new.enrolled ELSE cred[s].enrolled
          /\ cred'[s].setupTold =
               IF new.setupTold # Seen(r).setupTold THEN new.setupTold ELSE cred[s].setupTold
      BY <2>3, <2>5, Reads, WrittenColumns DEF Typed, RowsTyped
    <3>2. \/ /\ new.setupTold = Seen(r).setupTold
             /\ new.enrolled = Seen(r).enrolled \/ enrolments'[s] = enrolments[s] + 1
          \/ /\ new.setupTold = 0 /\ new.enrolled = 0
             /\ unmarked'[s] = IF LosesMark(s) THEN unmarked[s] + 1 ELSE unmarked[s]
      BY <2>1, <2>5 DEF NoticeKept
    <3>3. CASE new.setupTold = Seen(r).setupTold /\ new.enrolled = Seen(r).enrolled
      BY <3>1, <3>3 DEF Owed
    <3>4. CASE enrolments'[s] = enrolments[s] + 1
      BY <1>2, <3>4, Dues DEF Due
    <3>5. CASE /\ new.setupTold = 0 /\ new.enrolled = 0
               /\ unmarked'[s] = IF LosesMark(s) THEN unmarked[s] + 1 ELSE unmarked[s]
      <4>1. ASSUME cred'[s].enrolled # 0, cred'[s].setupTold = 0, ~Owed(s)
            PROVE  LosesMark(s)
        BY <3>1, <3>5, <4>1 DEF LosesMark, Owed
      <4>2. LosesMark(s) => Due(s)' > Due(s)
        BY <1>2, <3>5, Dues DEF Due
      <4> QED
        BY <4>1, <4>2 DEF Owed
    <3> QED
      BY <3>2, <3>3, <3>4, <3>5
  <2> QED
    BY <2>4, <2>5
<1> QED
  BY <1>1, <1>2, <1>3, NoticeQuiet DEF NoticeInv

\* Steps of the pass.  The rows and the counters they leave alone keep what is owed.
LEMMA NoticeMarked ==
  ASSUME Typed, NoticeInv, MarkNotice, NEW s \in Invited
  PROVE  NoticeOf(s)'
<1> DEFINE told == pass.said
<1>1. /\ pass' = [pass EXCEPT !.said = Nobody, !.left = pass.left \ {told}]
      /\ UNCHANGED <<announced, enrolments, unmarked>>
  BY DEF MarkNotice, historyVars
<1>2. /\ pass \in PassRows /\ told \in Invited /\ pass.now # 0
      /\ \A x \in Subjects \ {told} : cred'[x] = cred[x]
      /\ \A x \in Subjects : cred'[x].enrolled = cred[x].enrolled
      /\ cred'[told].setupTold =
           IF pass.seen[told].enrolled # 0 THEN pass.now ELSE cred[told].setupTold
  BY Marking DEF Typed, PassTyped
<1>3. /\ pass'.said = Nobody /\ pass'.left = pass.left \ {told} /\ pass'.seen = pass.seen
  BY <1>1, <1>2 DEF PassRows
<1>4. NoticeOf(s) /\ s # Nobody /\ s \in Subjects /\ told \in Subjects
  BY <1>2, Dues, People DEF NoticeInv
<1> HIDE DEF told
<1>5. CASE s # told
  <2>1. (Owed(s)' => Owed(s)) /\ (Pending(s)' => Pending(s)) /\ ~Covered(s)
    BY <1>2, <1>3, <1>4, <1>5 DEF Owed, Pending, Covered, told
  <2> QED
    BY <1>1, <1>4, <2>1 DEF NoticeOf
<1>6. CASE s = told /\ pass.seen[s].enrolled # 0
  <2>1. ~Owed(s)' /\ ~Pending(s)'
    BY <1>2, <1>3, <1>6 DEF Owed, Pending
  <2> QED
    BY <1>1, <1>4, <2>1 DEF NoticeOf
<1>7. CASE s = told /\ pass.seen[s].enrolled = 0
  <2>1. (Owed(s)' => Owed(s)) /\ ~Pending(s)' /\ ~Covered(s)
    BY <1>2, <1>3, <1>4, <1>7 DEF Owed, Pending, Covered
  <2> QED
    BY <1>1, <1>4, <2>1 DEF NoticeOf
<1> QED
  BY <1>5, <1>6, <1>7

LEMMA NoticeListed ==
  ASSUME Typed, NoticeInv, ListNotices, NEW s \in Invited
  PROVE  NoticeOf(s)'
<1>1. UNCHANGED <<cred, announced, enrolments, unmarked>>
  BY DEF ListNotices, rowVars, historyVars
<1>2. /\ pass'.seen = cred /\ pass.said = Nobody
      /\ s \in pass'.left => (cred[s].enrolled # 0 => cred[s].setupTold = 0)
  BY Listing
<1>3. NoticeOf(s) /\ ~Covered(s)
  BY <1>2, Dues DEF NoticeInv, Covered
<1>4. (Pending(s)' => Owed(s)) /\ (Owed(s)' => Owed(s))
  BY <1>1, <1>2 DEF Pending, Owed
<1> QED
  BY <1>1, <1>3, <1>4 DEF NoticeOf

LEMMA NoticeSkipped ==
  ASSUME Typed, NoticeInv, NEW x \in Invited, SkipNotice(x), NEW s \in Invited
  PROVE  NoticeOf(s)'
<1>1. /\ pass' = [pass EXCEPT !.left = pass.left \ {x}] /\ pass \in PassRows
      /\ UNCHANGED <<cred, announced, enrolments, unmarked>>
  BY DEF SkipNotice, rowVars, historyVars, Typed, PassTyped
<1>2. pass'.said = pass.said /\ pass'.left = pass.left \ {x} /\ pass'.seen = pass.seen
  BY <1>1 DEF PassRows
<1>3. (Owed(s)' => Owed(s)) /\ (Pending(s)' => Pending(s)) /\ (Covered(s) => Covered(s)')
  BY <1>1, <1>2 DEF Owed, Pending, Covered
<1> QED
  BY <1>1, <1>3 DEF NoticeInv, NoticeOf

LEMMA NoticeSent ==
  ASSUME Typed, NoticeInv, NEW x \in Invited, SendNotice(x), NEW s \in Invited
  PROVE  NoticeOf(s)'
<1> DEFINE told == IF pass.seen[x].enrolled # 0 THEN announced[x] + 1 ELSE announced[x]
<1>1. /\ x \in pass.left /\ pass.said = Nobody /\ pass \in PassRows
      /\ pass' = [pass EXCEPT !.said = x]
      /\ UNCHANGED <<cred, enrolments, unmarked>>
      /\ announced' = announced \/ announced' = [announced EXCEPT ![x] = told]
  BY DEF SendNotice, Typed, PassTyped, rowVars
<1>2. pass'.said = x /\ pass'.left = pass.left /\ pass'.seen = pass.seen
  BY <1>1 DEF PassRows
<1>3. NoticeOf(s) /\ ~Covered(s) /\ announced \in [Subjects -> Nat]
  BY <1>1, Dues DEF NoticeInv, Covered, Typed, CountsTyped
<1>4. (Owed(s)' <=> Owed(s)) /\ (Pending(s)' <=> Pending(s))
  BY <1>1, <1>2 DEF Owed, Pending
<1>5. CASE s # x
  <2>1. announced'[s] = announced[s]
    BY <1>1, <1>3, <1>5, Dues
  <2> QED
    BY <1>1, <1>3, <1>4, <2>1 DEF NoticeOf
<1>6. CASE s = x /\ pass.seen[s].enrolled # 0
  <2>1. announced'[s] = announced[s] \/ announced'[s] = announced[s] + 1
    BY <1>1, <1>3, <1>6, Dues
  <2>2. announced[s] < enrolments[s] + unmarked[s] /\ Covered(s)'
    BY <1>1, <1>2, <1>3, <1>6 DEF NoticeOf, Pending, Covered
  <2> QED
    BY <1>1, <2>1, <2>2, Dues DEF NoticeOf
<1>7. CASE s = x /\ pass.seen[s].enrolled = 0
  <2>1. announced'[s] = announced[s]
    BY <1>1, <1>3, <1>7, Dues
  <2> QED
    BY <1>1, <1>3, <1>4, <2>1 DEF NoticeOf
<1> QED
  BY <1>5, <1>6, <1>7

\* A pass that ends or fails owes the notice it had just told once more.
LEMMA NoticeEnded ==
  ASSUME Typed, NoticeInv, EndNotices \/ FailNotices, NEW s \in Invited
  PROVE  NoticeOf(s)'
<1>1. pass' = NoPass /\ UNCHANGED <<cred, announced, enrolments>>
  BY DEF EndNotices, FailNotices, rowVars, historyVars
<1>2. ~Pending(s)' /\ (Owed(s)' => Owed(s)) /\ ~Covered(s)'
  BY <1>1, Dues DEF Pending, Owed, Covered, NoPass
<1>3. /\ unmarked'[s] = unmarked[s] \/ unmarked'[s] = unmarked[s] + 1
      /\ pass.said = s => unmarked'[s] = unmarked[s] + 1
  <2>1. CASE EndNotices
    BY <2>1, Dues DEF EndNotices, historyVars, Typed, PassTyped
  <2>2. CASE FailNotices
    BY <2>2, Dues DEF FailNotices, Typed, CountsTyped
  <2> QED
    BY <2>1, <2>2
<1>4. NoticeOf(s)
  BY DEF NoticeInv
<1> QED
  BY <1>1, <1>2, <1>3, <1>4, Dues DEF NoticeOf, Covered

LEMMA NoticeNext == Typed /\ NoticeInv /\ [Next]_vars => NoticeInv'
<1> SUFFICES ASSUME Typed, NoticeInv, [Next]_vars, NEW s \in Invited PROVE NoticeOf(s)'
  BY DEF NoticeInv
<1>0. NoticeOf(s) /\ s \in Subjects /\ Due(s) \in Nat
  BY Dues DEF NoticeInv, Due
<1>1. ASSUME UNCHANGED <<pass, announced, enrolments, unmarked>>, Owed(s)' => Owed(s)
      PROVE  NoticeOf(s)'
  BY <1>0, <1>1 DEF NoticeOf, Covered, Pending
<1>2. ASSUME UNCHANGED cred PROVE Owed(s)' => Owed(s)
  BY <1>2 DEF Owed
<1>3. CASE UNCHANGED vars
  BY <1>1, <1>2, <1>3 DEF vars, rowVars, historyVars
<1>4. ASSUME NEW r \in Requests, RequestStep(r) PROVE NoticeOf(s)'
  <2>1. CASE Saving(r)
    BY <2>1, NoticeSaved
  <2>2. CASE AddPerson(r)
    <3>1. Owed(s)' => Owed(s)
      BY <1>0, <2>2, Adding DEF Owed
    <3> QED
      BY <1>1, <2>2, <3>1 DEF AddPerson, historyVars
  <2>3. CASE \/ \E p \in Subjects, op \in Operations : Read(r, p, op)
             \/ OpenSession(r) \/ Stage(r) \/ Confirm(r)
    BY <1>1, <1>2, <2>3 DEF Read, OpenSession, Stage, Confirm, rowVars, historyVars
  <2> QED
    BY <1>4, <2>1, <2>2, <2>3 DEF RequestStep, Saving
<1>5. ASSUME Edit PROVE NoticeOf(s)'
  <2>1. UNCHANGED <<pass, announced, enrolments, unmarked>>
    BY <1>5 DEF Edit, historyVars
  <2>2. Owed(s)' => Owed(s)
    <3>1. CASE Deletion
      <4>1. cred'[s] \in {NoRow, cred[s]}
        BY <1>0, <3>1, Deletions, Deleting DEF Deletion
      <4> QED
        BY <4>1, NoRowTyped DEF Owed
    <3>2. CASE (\E p \in Subjects : SetPartnerActive(p) \/ LogOut(p)) \/ Bar
      BY <1>2, <3>2 DEF SetPartnerActive, LogOut, Bar
    <3> QED
      BY <1>5, <3>1, <3>2 DEF Edit, Deletion
  <2> QED
    BY <1>1, <2>1, <2>2
<1>6. ASSUME NoticeStep PROVE NoticeOf(s)'
  BY <1>6, NoticeListed, NoticeMarked, NoticeEnded, NoticeSkipped, NoticeSent DEF NoticeStep
<1>7. ASSUME Tick PROVE NoticeOf(s)'
  BY <1>1, <1>2, <1>7 DEF Tick, rowVars, historyVars
<1> QED
  BY <1>3, <1>4, <1>5, <1>6, <1>7 DEF Next

-----------------------------------------------------------------------------
(***************************************************************************)
(* The theorems.                                                           *)
(***************************************************************************)

LEMMA AccessInit == Init => AccessInv
<1> SUFFICES ASSUME Init PROVE AccessInv
  OBVIOUS
<1>1. Typed /\ OwnersKnown /\ GoneIsGone
  BY TypeInit, OwnersInit, GoneInit
<1>2. MessageInv
  BY DEF Init, MessageInv, OneMessagePerSubmission, UnusedSilent
<1>3. LockInv
  <2>1. \A s \in Subjects : cred[s].failures = 0 /\ cred[s].lockedUntil = 0 /\ tries[s] = 0
    BY InitRows DEF Init
  <2>2. \A r \in Requests : request[r].at = "idle"
    BY DEF Init, Idle
  <2> QED
    BY <2>1, <2>2 DEF LockInv, LockedOnlyAfterFailures
<1>4. NoticeInv
  <2>1. \A s \in Invited : s \in Subjects /\ ~Owed(s) /\ ~Pending(s)
    BY InitRows, People DEF Init, Owed, Pending, NoPass
  <2> QED
    BY <2>1 DEF Init, NoticeInv, NoticeOf
<1> QED
  BY <1>1, <1>2, <1>3, <1>4 DEF AccessInv

LEMMA AccessInvariant == Spec => []AccessInv
<1>1. AccessInv /\ [Next]_vars => AccessInv'
  BY TypeNext, OwnersNext, GoneNext, MessageNext, LockNext, NoticeNext DEF AccessInv
<1> QED
  BY <1>1, AccessInit, PTL DEF Spec

\* The tables keep their types, and a deleted row holds nothing.
THEOREM AccessTypes == Spec => []TypeOK
<1>1. AccessInv => TypeOK
  BY TypedIsTypeOK DEF AccessInv
<1> QED
  BY <1>1, AccessInvariant, PTL

\* However confirmations are repeated or overlap, a staged submission creates one message.
THEOREM SubmittedOnce == Spec => []OneMessagePerSubmission
<1>1. AccessInv => OneMessagePerSubmission
  BY DEF AccessInv, MessageInv
<1> QED
  BY <1>1, AccessInvariant, PTL

\* A deletion that overtakes a login, a set-up or a submission leaves nothing open.
THEOREM DeletedStaysDeleted == Spec => []GoneIsGone
<1>1. AccessInv => GoneIsGone
  BY DEF AccessInv
<1> QED
  BY <1>1, AccessInvariant, PTL

\* Overlapping requests overwrite each other's counters, and still lock nobody too early.
THEOREM LocksAreEarned == Spec => []LockedOnlyAfterFailures
<1>1. AccessInv => LockedOnlyAfterFailures
  BY DEF AccessInv, LockInv
<1> QED
  BY <1>1, AccessInvariant, PTL

\* The holder hears of a set-up once, unless the mark of the notice was lost.
THEOREM SetUpToldOnce == Spec => []AnnouncedOnce
<1>1. AccessInv => AnnouncedOnce
  BY DEF AccessInv, NoticeInv, NoticeOf, AnnouncedOnce
<1> QED
  BY <1>1, AccessInvariant, PTL
=============================================================================
