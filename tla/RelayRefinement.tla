-------------------------- MODULE RelayRefinement --------------------------
(***************************************************************************)
(* Relay, with its two processes, leases, retries and crashes, implements  *)
(* MessagePromise.                                                         *)
(***************************************************************************)
EXTENDS RelayProperties

\* What the rows say about the life of a message
Life(n) ==
  IF accountStatus = "deleted" THEN "gone"
  ELSE IF ~Exists(n) THEN "absent"
  ELSE IF cancelledAt[n] # 0 THEN "cancelled"
  ELSE IF ~payload[n] THEN "erased"
  ELSE IF frozenAt[n] # 0 THEN "released" ELSE "waiting"

\* Confirmations that have found the message with its content
ReadingNow(n) ==
  {p \in People : \E v \in Visitors :
     /\ calls[v].step \in {"recredential", "reaccount", "marking"}
     /\ calls[v].note = n /\ calls[v].person = p}

Promise == INSTANCE MessagePromise WITH
  Messages  <- Notifications,
  Addresses <- Contacts,
  Persons   <- People,
  PersonAt  <- OwnerOf,
  now       <- clock,
  life      <- [n \in Notifications |-> Life(n)],
  due       <- releaseAt,
  audience  <- recipients,
  reading   <- [n \in Notifications |-> ReadingNow(n)],
  readers   <- readBy,
  told      <- [n \in Notifications |-> {c \in Contacts : accepted[<<n, c>>] > 0}]

\* Every step of requests, scheduler and administration is a step of the promise or
\* leaves it alone: no announcement after a cancellation, none outside the audience
\* fixed at the release, one release, no erased content that is read, whatever crashes
\* (accept, cancel, process_due, confirm_read, erase_if_complete, LifecycleService.run).
KeepsPromise == Promise!Spec
=============================================================================
