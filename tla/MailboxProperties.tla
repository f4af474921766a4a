------------------------- MODULE MailboxProperties -------------------------
(***************************************************************************)
(* What the tracking of e-mails promises.                                  *)
(***************************************************************************)
EXTENDS Mailbox

\* Types; the write lock belongs to a sender with an e-mail under way.
TypeOK ==
  /\ sender \in Addresses /\ acknowledged \in Addresses \cup {None}
  /\ contact \in [Contacts -> [verified : BOOLEAN, failures : Nat, failed : BOOLEAN]]
  /\ links \in [Contacts -> SUBSET {"review", "verify"}]
  /\ reminded \in 0..clock
  /\ \A t \in Tokens : /\ tracks[t].result \in {"none"} \cup Actions
                        /\ tracks[t].done <=> tracks[t].result \in Finals
  /\ lock \in Senders => job[lock].at \in {"begin", "send", "commit"}

\* A failure is recorded once for an e-mail, however often it is reported and whenever the
\* pass breaks off (NdrMailboxProcessor).
CountedOnce == \A t \in Tokens : counted[t] <= 1

\* A message that reports the failure of an e-mail whose row was there when it arrived is
\* given up only after the row has its final result, or has expired.
KnownReportsCount ==
  \A m \in mailbox : (m.flagged /\ m.known /\ "failed" \in m.actions) =>
    tracks[m.token].done \/ tracks[m.token].expires <= clock

\* The mailbox that is read, and emptied, is the one acknowledged for the sender in force,
\* however the saving of the two settings overlaps (save_email_config, save_ndr_config).
EmptiesAcknowledged ==
  job'[Scheduler].config \notin {None, job[Scheduler].config} =>
    job'[Scheduler].config = sender /\ acknowledged = sender
EmptiesOnlyAcknowledged == [][EmptiesAcknowledged]_vars

\* While a contact has failed and the owner can be reached, the owner is told.
OwnerToldEventually ==
  Problems # {} /\ Reachable # {} /\ reminded = 0 ~> reminded # 0 \/ Problems = {} \/ Reachable = {}

-----------------------------------------------------------------------------
(* A statement of the documentation that the code breaks. *)

\* OPERATIONS.md: permanent rejection and final reports "invalidate an address immediately".
FailedIsUnverified == \A c \in Contacts : contact[c].failed => ~contact[c].verified
=============================================================================
