------------------------------- MODULE Access -------------------------------
(***************************************************************************)
(* Personal access to one account: the secret links of the account holder, *)
(* the partners and the trusted persons, their passwords and PINs, the     *)
(* sessions they open, the submissions trusted persons stage and confirm,  *)
(* and the scheduler's notices about completed and expired set-ups.        *)
(*                                                                         *)
(* A request reads the credential row, computes (a password hash takes     *)
(* long) and commits later.  The ORM session then writes only the columns  *)
(* whose new value differs from the value it has loaded (Written), over    *)
(* whatever row the database holds by then.                                *)
(*                                                                         *)
(* Times are ticks of one clock that starts at 1; 0 stands for SQL NULL.   *)
(* An operator Mut... is a faulty variant of the definition that follows   *)
(* it, used to show that a property notices the fault.                     *)
(***************************************************************************)
EXTENDS Naturals, FiniteSets

CONSTANTS
  Holder, Partners, Persons,  \* the account holder, partners, trusted persons
  Sponsor,                    \* whom a trusted person belongs to
  Requests,                   \* request threads
  Submissions,                \* identities of staged messages
  SetupPeriod, SessionTtl, SubmissionTtl,
  LockFrom,                   \* failures from which on a kind of credential is locked
  LockFor,                    \* length of that lock (grows with the count in the code)
  MaxLink, MaxClock,          \* bounds: replacements of a link, last tick
  MaxRequests, MaxFaults,     \* bounds: requests, failed e-mails and crashes
  Nobody

Invited  == Partners \cup Persons
Subjects == {Holder} \cup Invited
Kinds    == {"holder", "partner", "person"}
Kind(s)  == IF s = Holder THEN "holder" ELSE IF s \in Partners THEN "partner" ELSE "person"

ASSUME SubjectAssumption ==
  /\ Holder \notin Invited /\ Partners \cap Persons = {}
  /\ Sponsor \in [Persons -> {Holder} \cup Partners]
  /\ Nobody \notin Subjects \cup Submissions
ASSUME PeriodAssumption ==
  /\ {SetupPeriod, SessionTtl, SubmissionTtl, LockFor, MaxLink} \subseteq Nat \ {0}
  /\ LockFrom \in [Kinds -> Nat \ {0}]
  /\ {MaxClock, MaxRequests, MaxFaults} \subseteq Nat

VARIABLES
  clock,
  account,      \* "allowed", "barred" (disabled or locked) or "gone"
  active,       \* partners.is_active
  cred,         \* account_owner_credentials, partner_credentials, trusted_person_tokens
  sessions,     \* server_sessions
  submission,   \* submissions
  request,      \* what each request thread has read
  pass,         \* the scheduler's pass over the access notices
  reachable,    \* the holder has a verified e-mail address
  messages,     \* history: messages accepted from a submission
  tries,        \* history: wrong secrets counted for a credential
  enrolments, announced, unmarked,   \* history: set-ups, their notices, notices whose mark was lost
  begun, faults \* counters of the bounds

rowVars     == <<account, active, cred, sessions, submission>>
historyVars == <<messages, tries, enrolments, announced, unmarked>>
vars == <<clock, rowVars, request, pass, reachable, historyVars, begun, faults>>

NoRow == [link |-> 0, secret |-> 0, enrolled |-> 0, deadline |-> 0, failures |-> 0,
          lockedUntil |-> 0, setupTold |-> 0, expiryTold |-> 0]
NoSubmission == [person |-> Nobody, state |-> "none", until |-> 0]
Idle   == [at |-> "idle", who |-> Nobody, op |-> "none", now |-> 0, seen |-> NoRow,
           item |-> Nobody]
NoPass == [stage |-> "idle", now |-> 0, left |-> {}, said |-> Nobody,
           seen |-> [s \in Subjects |-> NoRow]]

Exists(s) == cred[s].link # 0
Fresh(row) == IF row.secret = 1 THEN 2 ELSE 1   \* any secret but the one replaced
\* A replaced or new link, to be set up again
NewLink(row) == [NoRow EXCEPT !.link = row.link + 1, !.deadline = clock + SetupPeriod]

\* A flush writes the columns that differ from the loaded row.
Written(stored, loaded, new) ==
  [c \in DOMAIN stored |-> IF new[c] # loaded[c] THEN new[c] ELSE stored[c]]

\* NotificationService.resolve_access, PartnerAuthenticationService.resolve_access
Admitted(s) ==
  /\ account = "allowed" /\ Exists(s)
  /\ Kind(s) = "partner" => s \in active
  /\ Kind(s) = "person" => Sponsor[s] = Holder \/ (Sponsor[s] \in active /\ Exists(Sponsor[s]))

\* SessionManager.resolve
HasSession(s) == \E x \in sessions : x.who = s /\ x.until > clock
SessionsBut(gone) == {x \in sessions : x.who \notin gone}
NewSession(s) == [who |-> s, until |-> clock + SessionTtl]

\* The holder is signed in; an invited person has set up before or still has to, and a
\* trusted person may have staged a message.
Init ==
  /\ clock = 1 /\ account = "allowed" /\ active = Partners
  /\ \E known \in SUBSET Persons, enrolled \in SUBSET Invited :
       /\ cred = [s \in Subjects |->
            IF s \in Persons \ known THEN NoRow
            ELSE IF s \in Invited \ enrolled THEN NewLink(NoRow)
            ELSE [NoRow EXCEPT !.link = 1, !.secret = 1, !.enrolled = 1, !.setupTold = 1]]
       /\ \E signed \in SUBSET (enrolled \ (Persons \ known)) :
            sessions = {NewSession(s) : s \in {Holder} \cup signed}
  /\ \E p \in Persons : submission \in
       [Submissions -> {NoSubmission, [person |-> p, state |-> "staged", until |-> clock + SubmissionTtl]}]
  /\ \A m \in Submissions : submission[m].state = "staged" => cred[submission[m].person].secret # 0
  /\ request = [r \in Requests |-> Idle] /\ pass = NoPass /\ reachable = TRUE
  /\ messages = [m \in Submissions |-> 0] /\ tries = [s \in Subjects |-> 0]
  /\ enrolments = [s \in Subjects |-> 0] /\ announced = [s \in Subjects |-> 0]
  /\ unmarked = [s \in Subjects |-> 0]
  /\ begun = 0 /\ faults = 0

-----------------------------------------------------------------------------
(* A request reads.  One that is refused afterwards, whose flush fails or  *)
(* whose thread ends takes no further step.                                *)

\* What a handler checks before it goes on to compute
MaySetUp(s) == s \in Invited /\ Admitted(s) /\ cred[s].secret = 0 /\ cred[s].deadline > clock
MayLogIn(s) ==
  \/ Kind(s) = "holder" /\ Exists(s) /\ cred[s].lockedUntil <= clock
  \/ Kind(s) = "partner" /\ Admitted(s)
  \/ Kind(s) = "person" /\ Admitted(s) /\ cred[s].secret # 0 /\ cred[s].lockedUntil <= clock
SignedIn(s) ==
  /\ Admitted(s) /\ HasSession(s)
  /\ Kind(s) = "partner" => cred[s].enrolled # 0 /\ cred[s].secret # 0
MayAct(s, op) ==
  CASE op = "setup"  -> MaySetUp(s)
    [] op = "login"  -> MayLogIn(s)
    [] op = "change" -> SignedIn(s) /\ cred[s].secret # 0
    [] op = "rotate" -> SignedIn(Holder) /\ Exists(s) /\ cred[s].link < MaxLink
    [] op = "add"    -> /\ SignedIn(Holder) /\ s \in Persons /\ ~Exists(s)
                        /\ Sponsor[s] = Holder \/ Exists(Sponsor[s])
    [] op \in {"stage", "confirm"} -> Kind(s) = "person" /\ SignedIn(s)

Operations == {"setup", "login", "change", "rotate", "add", "stage", "confirm"}

Read(r, s, op) ==
  /\ request[r] = Idle /\ begun < MaxRequests
  /\ MayAct(s, op)
  /\ \E m \in IF op = "confirm" THEN Submissions ELSE {Nobody} :
       request' = [request EXCEPT ![r] = [at |-> "read", who |-> s, op |-> op, now |-> clock,
                                          seen |-> cred[s], item |-> m]]
  /\ begun' = begun + 1
  /\ UNCHANGED <<clock, rowVars, pass, reachable, historyVars, faults>>

-----------------------------------------------------------------------------
(* A request commits. *)

Doing(r, op) == request[r].at = "read" /\ request[r].op = op
Seen(r) == request[r].seen
MutSave(r, new) == cred' = [cred EXCEPT ![request[r].who] = Written(@, Seen(r), new)]
Save(r, new) ==
  /\ Exists(request[r].who)
  /\ cred' = [cred EXCEPT ![request[r].who] = Written(@, Seen(r), new)]
Done(r) == request' = [request EXCEPT ![r] = Idle]

\* A trusted person's session is inserted in the same transaction, the others' in a
\* second one (OpenSession), the holder's only while the account allows access.
SignIn(r) ==
  LET s == request[r].who IN
  IF Kind(s) = "person" THEN Done(r) /\ sessions' = sessions \cup {NewSession(s)}
  ELSE /\ UNCHANGED sessions
       /\ IF s = Holder /\ account # "allowed" THEN Done(r)
          ELSE request' = [request EXCEPT ![r].at = "signed"]

MutOpenSession(r) ==
  /\ request[r].at = "signed"
  /\ sessions' = sessions \cup {NewSession(request[r].who)}
  /\ Done(r)
  /\ UNCHANGED <<clock, account, active, cred, submission, pass, reachable, historyVars, begun,
                 faults>>
OpenSession(r) ==
  /\ request[r].at = "signed"
  /\ Exists(request[r].who)
  /\ sessions' = sessions \cup {NewSession(request[r].who)}
  /\ Done(r)
  /\ UNCHANGED <<clock, account, active, cred, submission, pass, reachable, historyVars, begun,
                 faults>>

SetUp(r) ==
  /\ Doing(r, "setup")
  /\ Save(r, [Seen(r) EXCEPT !.secret = Fresh(Seen(r)), !.enrolled = clock, !.failures = 0,
                             !.lockedUntil = 0])
  /\ enrolments' = [enrolments EXCEPT ![request[r].who] = @ + 1]
  /\ SignIn(r)
  /\ UNCHANGED <<clock, account, active, submission, pass, reachable, messages, tries,
                 announced, unmarked, begun, faults>>

LogIn(r) ==
  /\ Doing(r, "login")
  /\ Seen(r).secret # 0 /\ Seen(r).lockedUntil <= request[r].now
  /\ Save(r, [Seen(r) EXCEPT !.failures = 0, !.lockedUntil = 0])
  /\ SignIn(r)
  /\ UNCHANGED <<clock, account, active, submission, pass, reachable, historyVars, begun, faults>>

\* A partner's attempt counts also without a secret and under a lock.
MutLocked(s, failures, now) ==
  IF failures + 1 >= LockFrom[Kind(s)] THEN now + LockFor ELSE 0
Locked(s, failures, now) ==
  IF failures >= LockFrom[Kind(s)] THEN now + LockFor ELSE 0

LogInFails(r) ==
  LET s == request[r].who
      failures == Seen(r).failures + 1
      lock == Locked(s, failures, request[r].now)
  IN
  /\ Doing(r, "login")
  /\ Save(r, [Seen(r) EXCEPT !.failures = failures,
                             !.lockedUntil = IF lock # 0 THEN lock ELSE @])
  /\ tries' = [tries EXCEPT ![s] = @ + 1]
  /\ Done(r)
  /\ UNCHANGED <<clock, account, active, sessions, submission, pass, reachable, messages,
                 enrolments, announced, unmarked, begun, faults>>

ChangeSecret(r) ==
  LET s == request[r].who
      changed == [Seen(r) EXCEPT !.secret = Fresh(Seen(r))]
  IN
  /\ Doing(r, "change")
  /\ Save(r, IF Kind(s) = "person" THEN [changed EXCEPT !.failures = 0, !.lockedUntil = 0]
             ELSE changed)
  /\ sessions' = SessionsBut({s})
  /\ Done(r)
  /\ UNCHANGED <<clock, account, active, submission, pass, reachable, historyVars, begun, faults>>

\* The holder replaces a link.  Only an invited person has to set up again.  The mark of a
\* notice may go and the set-up stay: the one was loaded as set, the other was not.
LosesMark(s) == cred[s].setupTold # 0 /\ cred'[s].setupTold = 0 /\ cred'[s].enrolled # 0

Rotate(r) ==
  LET s == request[r].who IN
  /\ Doing(r, "rotate")
  /\ Save(r, IF s = Holder THEN [Seen(r) EXCEPT !.link = @ + 1] ELSE NewLink(Seen(r)))
  /\ unmarked' = [unmarked EXCEPT ![s] = IF LosesMark(s) THEN @ + 1 ELSE @]
  /\ sessions' = SessionsBut({s})
  /\ Done(r)
  /\ UNCHANGED <<clock, account, active, submission, pass, reachable, messages, tries,
                 enrolments, announced, begun, faults>>

\* The sponsor was looked up before; no foreign key ties the person to a partner.
AddPerson(r) ==
  LET s == request[r].who IN
  /\ Doing(r, "add")
  /\ account # "gone" /\ ~Exists(s)
  /\ cred' = [cred EXCEPT ![s] = NewLink(NoRow)]
  /\ Done(r)
  /\ UNCHANGED <<clock, account, active, sessions, submission, pass, reachable,
                 historyVars, begun, faults>>

Stage(r) ==
  /\ Doing(r, "stage")
  /\ Exists(request[r].who)
  /\ \E m \in Submissions :
       /\ submission[m].state = "none"
       /\ submission' = [submission EXCEPT ![m] =
            [person |-> request[r].who, state |-> "staged", until |-> clock + SubmissionTtl]]
  /\ Done(r)
  /\ UNCHANGED <<clock, account, active, cred, sessions, pass, reachable, historyVars,
                 begun, faults>>

\* The conditional UPDATE that consumes a submission
MutConsumable(m, s, now) == submission[m].person = s /\ submission[m].until > now
Consumable(m, s, now) ==
  /\ submission[m].person = s /\ submission[m].state = "staged"
  /\ submission[m].until > now

Confirm(r) ==
  LET m == request[r].item IN
  /\ Doing(r, "confirm")
  /\ Exists(request[r].who)
  /\ Consumable(m, request[r].who, request[r].now)
  /\ submission' = [submission EXCEPT ![m].state = "consumed"]
  /\ messages' = [messages EXCEPT ![m] = @ + 1]
  /\ Done(r)
  /\ UNCHANGED <<clock, account, active, cred, sessions, pass, reachable, tries, enrolments,
                 announced, unmarked, begun, faults>>

-----------------------------------------------------------------------------
(* Changes that take effect at once. *)

\* Sessions, credentials and submissions go with the row (ON DELETE CASCADE).
Delete(gone) ==
  /\ cred' = [s \in Subjects |-> IF s \in gone THEN NoRow ELSE cred[s]]
  /\ sessions' = SessionsBut(gone)
  /\ submission' = [m \in Submissions |-> IF submission[m].person \in gone
                                          THEN [submission[m] EXCEPT !.state = "gone"]
                                          ELSE submission[m]]

\* delete_partner takes the partner's trusted persons along.
Remove(s) ==
  /\ s \in Invited /\ Exists(s) /\ SignedIn(Holder)
  /\ Delete({s} \cup {p \in Persons : Sponsor[p] = s})
  /\ UNCHANGED <<account, active>>

SetPartnerActive(p) ==
  /\ p \in Partners /\ Exists(p) /\ SignedIn(Holder)
  /\ IF p \in active THEN active' = active \ {p} /\ sessions' = SessionsBut({p})
     ELSE active' = active \cup {p} /\ UNCHANGED sessions
  /\ UNCHANGED <<account, cred, submission>>

\* The administration ends the sessions, the lifecycle leaves them to be refused.
Bar ==
  /\ account = "allowed" /\ account' = "barred"
  /\ sessions' \in {{}, sessions}
  /\ UNCHANGED <<active, cred, submission>>

DeleteAccount ==
  /\ account # "gone" /\ account' = "gone"
  /\ Delete(Subjects)
  /\ UNCHANGED active

LogOut(s) ==
  /\ SignedIn(s)
  /\ \E x \in sessions : x.who = s /\ sessions' = sessions \ {x}
  /\ UNCHANGED <<account, active, cred, submission>>

Edit ==
  /\ begun < MaxRequests /\ begun' = begun + 1
  /\ \/ \E s \in Subjects : Remove(s) \/ SetPartnerActive(s) \/ LogOut(s)
     \/ Bar \/ DeleteAccount
  /\ UNCHANGED <<clock, request, pass, reachable, historyVars, faults>>

-----------------------------------------------------------------------------
(* The scheduler's notices, trusted persons first, then partners. *)

MutNoticeDue(row, now) ==
  /\ row.link # 0 /\ row.deadline > now
  /\ row.enrolled # 0 /\ row.setupTold = 0
NoticeDue(row, now) ==
  /\ row.link # 0
  /\ \/ row.enrolled # 0 /\ row.setupTold = 0
     \/ row.enrolled = 0 /\ row.expiryTold = 0 /\ row.deadline <= now

Listed(stage) == IF stage = "persons" THEN Persons ELSE Partners

\* The rows are loaded here and not read again.
ListNotices ==
  LET stage == IF pass.stage = "idle" THEN "persons" ELSE "partners"
      now   == IF pass.stage = "idle" THEN clock ELSE pass.now
  IN
  /\ pass.stage \in {"idle", "persons"} /\ pass.left = {} /\ pass.said = Nobody
  /\ pass' = [NoPass EXCEPT !.stage = stage, !.now = now, !.seen = cred,
                            !.left = {s \in Listed(stage) : NoticeDue(cred[s], now)}]
  /\ UNCHANGED <<clock, rowVars, request, reachable, historyVars, begun, faults>>

\* Nobody to tell, or every address refuses for now
SkipNotice(s) ==
  /\ s \in pass.left /\ pass.said = Nobody
  /\ \/ (~reachable \/ ~Exists(s)) /\ UNCHANGED faults
     \/ faults < MaxFaults /\ faults' = faults + 1
  /\ pass' = [pass EXCEPT !.left = @ \ {s}]
  /\ UNCHANGED <<clock, rowVars, request, reachable, historyVars, begun>>

\* SMTP takes the notice or refuses the address for good, which counts as handled.
SendNotice(s) ==
  /\ s \in pass.left /\ pass.said = Nobody
  /\ reachable /\ Exists(s)
  /\ pass' = [pass EXCEPT !.said = s]
  /\ \/ /\ announced' = [announced EXCEPT ![s] = IF pass.seen[s].enrolled # 0 THEN @ + 1 ELSE @]
        /\ UNCHANGED <<reachable, faults>>
     \/ /\ faults < MaxFaults /\ faults' = faults + 1
        /\ reachable' = FALSE /\ UNCHANGED announced
  /\ UNCHANGED <<clock, rowVars, request, messages, tries, enrolments, unmarked, begun>>

MutMarked(row, now) == [row EXCEPT !.expiryTold = now]
Marked(row, now) ==
  IF row.enrolled # 0 THEN [row EXCEPT !.setupTold = now] ELSE [row EXCEPT !.expiryTold = now]

MarkNotice ==
  LET s == pass.said IN
  /\ s # Nobody /\ Exists(s)
  /\ cred' = [cred EXCEPT ![s] = Written(@, pass.seen[s], Marked(pass.seen[s], pass.now))]
  /\ pass' = [pass EXCEPT !.said = Nobody, !.left = @ \ {s}]
  /\ UNCHANGED <<clock, account, active, sessions, submission, request, reachable,
                 historyVars, begun, faults>>

\* The scheduler goes on to delete what has expired (LifecycleService.run, purge_expired).
EndNotices ==
  /\ pass.stage = "partners" /\ pass.left = {}
  /\ pass' = NoPass
  /\ sessions' = {x \in sessions : x.until > clock}
  /\ submission' = [m \in Submissions |->
                      IF submission[m].state # "none" /\ submission[m].until <= pass.now
                      THEN [submission[m] EXCEPT !.state = "gone"] ELSE submission[m]]
  /\ UNCHANGED <<clock, account, active, cred, request, reachable, historyVars, begun, faults>>

\* The scheduler dies, or its flush finds the row gone.
FailNotices ==
  /\ pass.stage # "idle"
  /\ IF pass.said # Nobody /\ ~Exists(pass.said) THEN UNCHANGED faults
     ELSE faults < MaxFaults /\ faults' = faults + 1
  /\ unmarked' = IF pass.said = Nobody THEN unmarked
                 ELSE [unmarked EXCEPT ![pass.said] = @ + 1]
  /\ pass' = NoPass
  /\ UNCHANGED <<clock, rowVars, request, reachable, messages, tries, enrolments,
                 announced, begun>>

-----------------------------------------------------------------------------
Tick ==
  /\ clock < MaxClock /\ clock' = clock + 1
  /\ UNCHANGED <<rowVars, request, pass, reachable, historyVars, begun, faults>>

RequestStep(r) ==
  \/ \E s \in Subjects, op \in Operations : Read(r, s, op)
  \/ SetUp(r) \/ LogIn(r) \/ LogInFails(r) \/ OpenSession(r) \/ ChangeSecret(r)
  \/ Rotate(r) \/ AddPerson(r) \/ Stage(r) \/ Confirm(r)

NoticeStep ==
  \/ ListNotices \/ MarkNotice \/ EndNotices \/ FailNotices
  \/ \E s \in Invited : SkipNotice(s) \/ SendNotice(s)

Next == (\E r \in Requests : RequestStep(r)) \/ Edit \/ NoticeStep \/ Tick

Spec == Init /\ [][Next]_vars

\* The scheduler loops for ever and is restarted (some step of NoticeStep is always
\* possible, and every one changes pass).
NoticeMoves == pass' # pass
FairSpec == Spec /\ []<><<NoticeMoves>>_vars
=============================================================================
