--------------------------- MODULE MessagePromise ---------------------------
(***************************************************************************)
(* What SilentRelay promises about a message, without processes, leases    *)
(* and retries: it waits for its release time, may be cancelled as long as *)
(* nobody was told of it, is released once to an audience that never       *)
(* changes, is announced to that audience only, can be opened until it is  *)
(* erased and confirmed by who has opened it, and is never announced once  *)
(* it is cancelled or its account is gone.                                 *)
(***************************************************************************)
EXTENDS Naturals

CONSTANTS Messages, Addresses, Persons,
  PersonAt   \* whose an address is

VARIABLES
  now,
  life,       \* what became of the message
  due,        \* its release time
  audience,   \* whom it was released to
  reading,    \* who has opened it and may confirm
  readers,    \* who has confirmed
  told        \* addresses a notice was handed over to SMTP for

vars == <<now, life, due, audience, reading, readers, told>>

Lives == {"absent", "waiting", "released", "cancelled", "erased", "gone"}

TypeOK ==
  /\ now \in Nat /\ life \in [Messages -> Lives] /\ due \in [Messages -> Nat]
  /\ audience \in [Messages -> SUBSET Persons] /\ reading \in [Messages -> SUBSET Persons]
  /\ readers \in [Messages -> SUBSET Persons]
  /\ told \in [Messages -> SUBSET Addresses]

Init ==
  /\ now = 1
  /\ life = [m \in Messages |-> "absent"] /\ due = [m \in Messages |-> 0]
  /\ audience = [m \in Messages |-> {}] /\ reading = [m \in Messages |-> {}]
  /\ readers = [m \in Messages |-> {}]
  /\ told = [m \in Messages |-> {}]

Become(m, state) == life' = [life EXCEPT ![m] = state]

\* The release time is any time from now on.
Accept(m) ==
  /\ life[m] = "absent"
  /\ due'[m] >= now /\ due' = [due EXCEPT ![m] = due'[m]]
  /\ Become(m, "waiting")
  /\ UNCHANGED <<now, audience, reading, readers, told>>

\* A cancellation that began before the release time may follow the release, and even
\* the reading, as long as no notice has left.
Cancel(m) ==
  /\ life[m] \in {"waiting", "released", "erased"} /\ told[m] = {}
  /\ Become(m, "cancelled")
  /\ UNCHANGED <<now, due, audience, reading, readers, told>>

Release(m, people) ==
  /\ life[m] = "waiting" /\ due[m] <= now
  /\ Become(m, "released") /\ audience' = [audience EXCEPT ![m] = people]
  /\ UNCHANGED <<now, due, reading, readers, told>>

\* A notice on its way may arrive when the message has just been erased.
Announce(m, a) ==
  /\ life[m] \in {"released", "erased"} /\ PersonAt[a] \in audience[m]
  /\ told' = [told EXCEPT ![m] = @ \cup {a}]
  /\ UNCHANGED <<now, life, due, audience, reading, readers>>

\* Only a released message with its content can be opened, and only by its audience.
Open(m, p) ==
  /\ life[m] = "released" /\ p \in audience[m]
  /\ reading' = [reading EXCEPT ![m] = @ \cup {p}]
  /\ UNCHANGED <<now, life, due, audience, readers, told>>

\* A confirmation on its way may arrive when the message has just been erased.
Read(m, p) ==
  /\ p \in reading[m] \cap audience[m]
  /\ readers' = [readers EXCEPT ![m] = @ \cup {p}]
  /\ reading' \in {reading, [reading EXCEPT ![m] = @ \ {p}]}
  /\ UNCHANGED <<now, life, due, audience, told>>

\* Confirmations that are refused or never arrive
Drop(rest) ==
  /\ \A m \in Messages : rest[m] \subseteq reading[m]
  /\ reading' = rest
  /\ UNCHANGED <<now, life, due, audience, readers, told>>

Erase(erased) ==
  /\ \A m \in erased : life[m] \in {"waiting", "released"} /\ due[m] <= now
  /\ life' = [m \in Messages |-> IF m \in erased THEN "erased" ELSE life[m]]
  /\ UNCHANGED <<now, due, audience, reading, readers, told>>

\* The account goes and everything with it.
Leave ==
  /\ life' = [m \in Messages |-> "gone"]
  /\ audience' = [m \in Messages |-> {}]
  /\ UNCHANGED <<now, due, reading, readers, told>>

Tick == now' = now + 1 /\ UNCHANGED <<life, due, audience, reading, readers, told>>

Next ==
  \/ \E m \in Messages :
       \/ Accept(m) \/ Cancel(m)
       \/ \E people \in SUBSET Persons : Release(m, people)
       \/ \E a \in Addresses : Announce(m, a)
       \/ \E p \in Persons : Open(m, p) \/ Read(m, p)
  \/ \E rest \in [Messages -> SUBSET Persons] : Drop(rest)
  \/ \E erased \in SUBSET Messages : Erase(erased)
  \/ Leave \/ Tick

Spec == Init /\ [][Next]_vars
=============================================================================
