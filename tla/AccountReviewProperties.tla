----------------------- MODULE AccountReviewProperties ----------------------
(***************************************************************************)
(* What the review of an account promises, and where the code departs from *)
(* what its documentation says.                                            *)
(***************************************************************************)
EXTENDS AccountReview

\* Every variable keeps its type; a tick is at most the last one plus the periods added.
TypeOK ==
  /\ clock \in 1..MaxClock /\ edits \in 0..MaxEdits
  /\ status \in Stages /\ locked \in BOOLEAN
  /\ {disabledAt, deletionDue, nextDue, graceDue, passAt, seenGrace, accessAt} \subseteq Nat
  /\ due \in [Reviews -> Nat] /\ details \subseteq Reviews /\ done \subseteq details
  /\ verified \subseteq contacts /\ contacts \subseteq created /\ created \subseteq Contacts
  /\ codeUntil \in [Contacts -> Nat] /\ askedUntil \in [Asks -> Nat]
  /\ lastDay \in [Asks -> Days \cup {NoContact}] /\ issued \in [Asks -> Nat]
  /\ answered \subseteq Asks /\ confirmations \in [Asks -> Nat]
  /\ \A l \in links : l[3] \in 1..issued[<<l[1], l[2]>>] /\ Asked(l[1], l[2])
  /\ sent \subseteq Reminders /\ leased \in [Reminders -> Nat]
  /\ doing \in [Requests -> {"idle", "entered", "confirming", "code", "link"}]
  /\ \A q \in Requests :
       /\ doing[q] = "idle" => seen[q] = NothingSeen
       /\ doing[q] = "confirming" => seen[q].review \in Reviews
       /\ doing[q] \in {"code", "link"} => seen[q].contact \in created
  /\ step \in {"idle", "reminders", "claimed", "asking"}
  /\ todo \subseteq Reminders /\ known \subseteq Reviews
  /\ asking.new \cup asking.open \subseteq created

\* An account that grants access always has an open review due at the date it becomes
\* overdue, whichever requests finish its reviews, once or twice: without one the
\* holder could not prevent that the account is disabled (_create_review).
NextReviewExists ==
  Allows => \E r \in Open : due[r] = nextDue

\* A contact review is confirmed through its links once, also by requests that
\* answer the same or different links in parallel (verify_contact).
ConfirmedOnce == \A a \in Asks : confirmations[a] <= 1

\* The lifecycle deletes a disabled account no sooner than the whole retention after
\* the pass that disabled it, also if it was disabled before.  An account the
\* administration locked keeps the date of an earlier time.
RetentionBeforeDeletion ==
  [][status = "scheduled" /\ status' = "deleted" /\ step # step' /\ ~locked
       => passAt >= accessAt + Retention]_vars

\* A confirmation cleared the dates after the account was scheduled for deletion.
Forgotten == status = "scheduled" /\ deletionDue = 0

\* A disabled account is deleted or becomes active again, whatever fails on the way, unless
\* it is forgotten.  A confirmation that overlaps a lock can clear its dates; a later pass
\* sets them anew while the account is disabled (LifecycleService.run).
DisabledIsDeleted ==
  status \in {"disabled", "scheduled"}
    ~> status \in {"active", "deleted"} \/ deletionDue > MaxClock \/ Forgotten

-----------------------------------------------------------------------------
(* What the documentation says and the code does not do. *)

\* "The account advances to its next review only when both parts are complete", and a
\* test expects that the last contact's answer completes it: with the holder's part and
\* every contact's answer committed the review is confirmed.
AnsweredReviewFinishes ==
  \A r \in details :
    ~( /\ Allows /\ Exists(r) /\ contacts # {}
       /\ \A c \in contacts : <<r, c>> \in answered /\ c \in verified
       /\ \A q \in Requests : doing[q] = "idle"
       /\ r \notin done )

\* "Disabled accounts: Delete after days" (adminretention_en.html:5), and a test expects that
\* a locked account without a date for its deletion is given one and deleted
\* (tests/test_services.py:1141-1193): no locked account waits for ever.
LockedIsDeleted ==
  status \in {"disabled", "scheduled"} /\ locked
    ~> status \in {"active", "deleted"} \/ deletionDue > MaxClock

\* "The account review finishes only when both the people and every remaining contact
\* method have been confirmed": each remaining contact has been asked and has answered.
FinishedOnlyIfConfirmed ==
  [][\A r \in done' \ done : \A c \in contacts' : <<r, c>> \in answered']_vars
=============================================================================
