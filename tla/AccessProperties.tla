-------------------------- MODULE AccessProperties --------------------------
(***************************************************************************)
(* What personal access to an account promises.                            *)
(***************************************************************************)
EXTENDS Access

Row == [link : 0..MaxLink, secret : 0..2, enrolled : Nat, deadline : Nat, failures : Nat,
        lockedUntil : Nat, setupTold : Nat, expiryTold : Nat]

\* Types of the tables (a deleted row holds nothing), of what each request has read and of
\* the scheduler's pass.
TypeOK ==
  /\ account \in {"allowed", "barred", "gone"} /\ active \subseteq Partners
  /\ cred \in [Subjects -> Row] /\ \A s \in Subjects : Exists(s) \/ cred[s] = NoRow
  /\ sessions \subseteq [who : Subjects, until : Nat]
  /\ submission \in [Submissions -> [person : Persons \cup {Nobody}, until : Nat,
                                     state : {"none", "staged", "consumed", "gone"}]]
  /\ request \in [Requests ->
       [at : {"idle", "read", "signed"}, who : Subjects \cup {Nobody}, now : Nat, seen : Row,
        op : Operations \cup {"none"}, item : Submissions \cup {Nobody}]]
  /\ pass \in [stage : {"idle", "persons", "partners"}, now : Nat, left : SUBSET Invited,
               said : Invited \cup {Nobody}, seen : [Subjects -> Row]]
  /\ reachable \in BOOLEAN /\ messages \in [Submissions -> Nat]
  /\ {tries, enrolments, announced, unmarked} \subseteq [Subjects -> Nat]

\* A confirmation sent twice, at once or later, creates one message, and never one of a
\* submission that was not staged (NotificationService.accept).
OneMessagePerSubmission ==
  \A m \in Submissions : /\ messages[m] <= 1
                         /\ messages[m] = 1 => submission[m].state \in {"consumed", "gone"}

\* Nothing of a deleted partner, person or account remains or comes back: a login, a
\* set-up or a submission that was on its way when the row was deleted leaves no session
\* and no open submission behind.
GoneIsGone ==
  /\ \A x \in sessions : Exists(x.who)
  /\ \A m \in Submissions : submission[m].state \in {"staged", "consumed"} =>
                              Exists(submission[m].person)

\* Nobody is locked out without the number of wrong attempts the lock requires, whatever
\* requests overlap and whatever counters they overwrite (login, trusted_login).
LockedOnlyAfterFailures ==
  \A s \in Subjects : cred[s].lockedUntil # 0 => tries[s] >= LockFrom[Kind(s)]

\* A completed set-up is announced to the holder once, except when the mark of the notice was
\* lost: the scheduler failed before it committed the mark (jobs.py), or a replacement of the
\* link that had overlapped with the set-up removed it (management.py).
AnnouncedOnce == \A s \in Invited : announced[s] <= enrolments[s] + unmarked[s]

\* A set-up that was completed, or that expired unused, is not left unmarked for ever as
\* long as the holder can be reached (OPERATIONS.md:387).
NoticeEventually ==
  \A s \in Invited :
    LET Open == /\ Exists(s) /\ reachable
                /\ \/ cred[s].enrolled # 0 /\ cred[s].setupTold = 0
                   \/ cred[s].enrolled = 0 /\ cred[s].deadline <= clock /\ cred[s].expiryTold = 0
    IN Open ~> ~Open

-----------------------------------------------------------------------------
(* A statement of the documentation that the code breaks. *)

\* OPERATIONS.md:387-388: the scheduler e-mails the holder after a successful set-up; a
\* set-up that is marked as announced was announced, or the address refused it.
MarkedMeansAnnounced ==
  \A s \in Invited :
    cred[s].enrolled # 0 /\ cred[s].setupTold # 0 /\ reachable => announced[s] >= enrolments[s]
=============================================================================
