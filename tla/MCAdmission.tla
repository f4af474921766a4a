---------------------------- MODULE MCAdmission ----------------------------
(***************************************************************************)
(* A small instance of Admission for TLC.                                  *)
(***************************************************************************)
EXTENDS AdmissionProperties

\* One request of a client and two of all together in a window
SmallLimit == [x \in Posts \X Scopes |-> IF x[2] = "global" THEN 2 ELSE 1]

\* Registrations are counted over a longer window than set-ups.
Windows == [p \in Posts |-> IF p = "create" THEN 2 ELSE 1]
=============================================================================
