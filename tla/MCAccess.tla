----------------------------- MODULE MCAccess -----------------------------
(***************************************************************************)
(* A small instance of Access for TLC.                                     *)
(***************************************************************************)
EXTENDS AccessProperties, TLC

CONSTANTS holder, partner, person, r1, r2

\* The trusted person belongs to the partner
SponsorPartner == person :> partner

\* Thresholds of the lock (5, 5 and 3 in the code)
LockAtTwo == [k \in Kinds |-> 2]
=============================================================================
