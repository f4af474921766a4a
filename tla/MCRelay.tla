------------------------------ MODULE MCRelay ------------------------------
(***************************************************************************)
(* Small instances of Relay for TLC.                                       *)
(***************************************************************************)
EXTENDS RelayRefinement, TLC

CONSTANTS n1, n2, owner, partner, ownerMail, partnerMail, scheduler, web, v1, v2

\* One message to the account holder and one partner
OwnerOfBoth  == (ownerMail :> owner) @@ (partnerMail :> partner)
OwnerOfOwner == ownerMail :> owner
OwnerOfPartner == partnerMail :> partner
OwnerOfNobody == [c \in {} |-> owner]

OneAttempt  == <<1>>
TwoAttempts == <<1, 2>>
TwoQuickAttempts == <<1, 1>>
=============================================================================
