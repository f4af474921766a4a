----------------------------- MODULE MCMailbox -----------------------------
(***************************************************************************)
(* Mailbox on a small instance.                                            *)
(***************************************************************************)
EXTENDS MailboxProperties

\* A delay, a success, and a failure that a delay accompanies
SmallContents == {{"delayed"}, {"delivered"}, {"delayed", "failed"}}
=============================================================================
