----------------------------- MODULE Admission -----------------------------
(***************************************************************************)
(* How a stranger gets an account: every form that is posted first passes  *)
(* the persistent rate limiter; registration then asks the entitlement     *)
(* provider, which may answer late or never; the set-up link, the          *)
(* confirmation link and the lifecycle decide what becomes of the account. *)
(*                                                                         *)
(* A request reads the clock before its transaction waits for the write    *)
(* lock, so it may count for a window that is over.  Times are ticks from  *)
(* 1.  An operator Mut... is a faulty variant of the definition after it.  *)
(***************************************************************************)
EXTENDS Naturals, FiniteSets, SequencesExt

CONSTANTS
  Clients, Accounts, Requests,
  Limit,          \* policy_for_path: the limit of an action and a kind of scope
  Window,         \* length of an action's window
  MaxBuckets,     \* rate_limit_max_buckets
  Timeout,        \* entitlement_provider_timeout_seconds
  LinkLife,       \* life of set-up and confirmation links
  PendingLife,    \* account_pending_retention_days
  MaxRequests, MaxEdits, MaxClock,   \* bounds
  Nobody

Posts  == {"create", "setup", "verify"}
Scopes == {"global", "client", "subject"}

ASSUME LimitAssumption ==
  /\ Limit \in [Posts \X Scopes -> Nat \ {0}] /\ Window \in [Posts -> Nat \ {0}]
  /\ {MaxBuckets, Timeout, LinkLife, PendingLife} \subseteq Nat \ {0}
  /\ {MaxRequests, MaxEdits, MaxClock} \subseteq Nat
  /\ Nobody \notin Clients \cup Accounts

VARIABLES
  clock,
  buckets,        \* rate_limit_buckets: from keys to request_count
  creation,       \* system_configuration.account_creation_enabled
  account,        \* accounts with their credential and contacts
  request,
  admitted, late, \* history: requests let through, and checks of a window that was over
  toggles,        \* history: changes of creation; it starts enabled
  registered,     \* history: the decisions accounts were created on
  begun

serviceVars == <<creation, account, toggles, registered>>
limiterVars == <<buckets, admitted, late>>
vars == <<clock, limiterVars, serviceVars, request, begun>>

Idle == [at |-> "idle", post |-> "create", client |-> Nobody, account |-> Nobody,
         now |-> 0, until |-> 0, closed |-> 0,
         task |-> "none"]   \* the provider's coroutine; cancelled with the request
NoAccount == [status |-> "free", made |-> 0, link |-> 0, secret |-> FALSE, codes |-> {}]

NewAccount == [NoAccount EXCEPT !.status = "pending", !.made = clock, !.link = clock + LinkLife]

Init ==
  /\ clock = 1 /\ buckets = <<>> /\ creation = TRUE
  /\ \E registrants \in SUBSET Accounts :
       account = [a \in Accounts |-> IF a \in registrants THEN NewAccount ELSE NoAccount]
  /\ request = [r \in Requests |-> Idle]
  /\ admitted = <<>> /\ late = <<>>
  /\ toggles = 0 /\ registered = {} /\ begun = 0

-----------------------------------------------------------------------------
(* The rate limiter. *)

WindowOf(post, now) == now - (now % Window[post])
Key(post, scope, who, now) == [post |-> post, scope |-> scope, who |-> who,
                               window |-> WindowOf(post, now)]
ExpiresAt(key) == key.window + Window[key.post]

\* Only the posts that carry a link are limited by it.
Keys(q) ==
  <<Key(q.post, "global", Nobody, q.now), Key(q.post, "client", q.client, q.now)>>
  \o (IF q.post = "create" THEN <<>> ELSE <<Key(q.post, "subject", q.account, q.now)>>)

At(f, key) == IF key \in DOMAIN f THEN f[key] ELSE 0
Counted(f, keys) ==
  [k \in DOMAIN f \cup keys |-> IF k \in keys THEN At(f, k) + 1 ELSE f[k]]

MutUnexpired(f, now) == [k \in {x \in DOMAIN f : x.window + 1 > now} |-> f[k]]
Unexpired(f, now) == [k \in {x \in DOMAIN f : ExpiresAt(x) > now} |-> f[k]]

\* A bucket the table has no room for is not stored, the ones after it may be known.
MutStored(f, keys) ==
  {keys[i] : i \in {n \in DOMAIN keys : keys[n] \in DOMAIN f \/ Cardinality(DOMAIN f) < MaxBuckets}}
Stored(f, keys) ==
  LET New(i) == Cardinality({n \in 1..i : keys[n] \notin DOMAIN f})
  IN {keys[i] : i \in {n \in DOMAIN keys : \/ keys[n] \in DOMAIN f
                                          \/ Cardinality(DOMAIN f) + New(n) <= MaxBuckets}}

Over(f, key, keys) == key \notin Stored(f, keys) \/ At(f, key) + 1 > Limit[<<key.post, key.scope>>]

\* A refusal by the global scope ends the check; every other scope is counted all the same.
Considered(f, keys) == IF Over(f, keys[1], keys) THEN SubSeq(keys, 1, 1) ELSE keys

\* Bound: every registration under way finds a free identity.
Unclaimed == Cardinality({r \in Requests : request[r] # Idle /\ request[r].post = "create"})
             < Cardinality({a \in Accounts : account[a].status = "free"})

Arrive(r) ==
  /\ request[r] = Idle /\ begun < MaxRequests
  /\ \E p \in Posts, c \in Clients, a \in Accounts :
       /\ p = "create" => Unclaimed
       /\ request' = [request EXCEPT ![r] = [Idle EXCEPT !.at = "arrived", !.post = p,
         !.client = c, !.account = IF p = "create" THEN Nobody ELSE a, !.now = clock]]
  /\ begun' = begun + 1
  /\ UNCHANGED <<clock, limiterVars, serviceVars>>

\* The middleware: refused requests are counted too and answered with 429.
Check(r) ==
  LET q     == request[r]
      live  == Unexpired(buckets, q.now)
      keys  == Considered(live, Keys(q))
      whole == ToSet(Keys(q))
  IN
  /\ q.at = "arrived"
  /\ buckets' = Counted(live, Stored(live, keys))
  /\ IF \E key \in ToSet(keys) : Over(live, key, keys)
     THEN request' = [request EXCEPT ![r] = Idle] /\ UNCHANGED admitted
     ELSE request' = [request EXCEPT ![r].at = "admitted"] /\ admitted' = Counted(admitted, whole)
  /\ late' = IF ExpiresAt(Keys(q)[1]) <= clock THEN Counted(late, whole) ELSE late
  /\ UNCHANGED <<clock, serviceVars, begun>>

-----------------------------------------------------------------------------
(* Registration. *)

Doing(r, at, post) == request[r].at = at /\ request[r].post = post
Ends(r) == request' = [request EXCEPT ![r] = Idle]
Goes(r, at) == request' = [request EXCEPT ![r].at = at]

Asks(r, at) ==
  request' = [request EXCEPT ![r].at = at, ![r].until = clock + Timeout, ![r].task = "running"]

AskPolicy(r) ==
  /\ Doing(r, "admitted", "create") /\ creation
  /\ Asks(r, "asking")
  /\ UNCHANGED <<clock, limiterVars, serviceVars, begun>>

\* External: the provider ends its coroutine when it likes, if ever.
ProviderEnds(r) ==
  /\ request[r].task = "running"
  /\ \E outcome \in {"allow", "deny", "failed"} : request' = [request EXCEPT ![r].task = outcome]
  /\ UNCHANGED <<clock, limiterVars, serviceVars, begun>>

\* asyncio.wait with a timeout
MutTimedOut(r) == request[r].task = "failed" /\ clock >= request[r].until
TimedOut(r) == request[r].task = "running" /\ clock >= request[r].until

MutAllows(r) == request[r].task = "allow" \/ TimedOut(r)
Allows(r) == request[r].task = "allow"

TakeDecision(r) ==
  /\ request[r].at = "asking" /\ Allows(r)
  /\ request' = [request EXCEPT ![r].at = "allowed", ![r].closed = toggles]
  /\ UNCHANGED <<clock, limiterVars, serviceVars, begun>>

\* AccountService.create reads the setting again, then inserts.
MutStillOpen(r) == request[r].at = "allowed"
StillOpen(r) == request[r].at = "allowed" /\ creation
ReadSetting(r) ==
  /\ StillOpen(r) /\ Goes(r, "creating")
  /\ UNCHANGED <<clock, limiterVars, serviceVars, begun>>

\* The account is committed before the provider is told.
Create(r) ==
  /\ request[r].at = "creating"
  /\ \E a \in Accounts :
       /\ account[a].status = "free"
       /\ account' = [account EXCEPT ![a] = NewAccount]
       /\ registered' = registered \cup
            {[account |-> a, answer |-> request[r].task, closed |-> request[r].closed,
              at |-> toggles]}
  /\ Asks(r, "telling")
  /\ UNCHANGED <<clock, limiterVars, creation, toggles, begun>>

\* Whatever the hook does, the account stays and the links are shown.
EndHook(r) ==
  /\ request[r].at = "telling" /\ (TimedOut(r) \/ request[r].task # "running")
  /\ Ends(r)
  /\ UNCHANGED <<clock, limiterVars, serviceVars, begun>>

-----------------------------------------------------------------------------
(* Set-up and confirmation of the first contact. *)

Mine(r) == account[request[r].account]

ReadLink(r) ==
  /\ Doing(r, "admitted", "setup")
  /\ Mine(r).link > clock /\ Goes(r, "preparing")
  /\ UNCHANGED <<clock, limiterVars, serviceVars, begun>>

\* A second set-up that had read the link too adds a second contact.
MutWithSecret(a) ==
  [a EXCEPT !.secret = TRUE,
            !.codes = @ \cup {[n |-> Cardinality(@) + 1, until |-> clock + LinkLife]}]
WithSecret(a) ==
  [a EXCEPT !.secret = TRUE, !.link = 0,
            !.codes = @ \cup {[n |-> Cardinality(@) + 1, until |-> clock + LinkLife]}]
SetUp(r) ==
  /\ request[r].at = "preparing" /\ Mine(r).status # "gone"
  /\ account' = [account EXCEPT ![request[r].account] = WithSecret(@)]
  /\ Ends(r)
  /\ UNCHANGED <<clock, limiterVars, creation, toggles, registered, begun>>

Verify(r) ==
  /\ Doing(r, "admitted", "verify")
  /\ \E code \in Mine(r).codes :
       /\ code.until > clock
       /\ account' = [account EXCEPT ![request[r].account].codes = @ \ {code},
                                     ![request[r].account].status = "active"]
  /\ Ends(r)
  /\ UNCHANGED <<clock, limiterVars, creation, toggles, registered, begun>>

\* 404, 403, 400, 503 and a flush that finds the row gone
Refuse(r) ==
  /\ \/ Doing(r, "admitted", "create") /\ ~creation
     \/ request[r].at = "asking" /\ (request[r].task \in {"deny", "failed"} \/ TimedOut(r))
     \/ request[r].at = "allowed" /\ ~creation
     \/ Doing(r, "admitted", "setup") /\ Mine(r).link <= clock
     \/ request[r].at = "preparing" /\ Mine(r).status = "gone"
     \/ Doing(r, "admitted", "verify") /\ \A code \in Mine(r).codes : code.until <= clock
  /\ Ends(r)
  /\ UNCHANGED <<clock, limiterVars, serviceVars, begun>>

\* The client goes away, the database cannot be used (503), the process ends.
Abort(r) ==
  /\ request[r] # Idle /\ Ends(r)
  /\ UNCHANGED <<clock, limiterVars, serviceVars, begun>>

-----------------------------------------------------------------------------
(* Administration, scheduler, time. *)

SetCreation ==
  /\ toggles < MaxEdits /\ toggles' = toggles + 1
  /\ creation' = ~creation
  /\ UNCHANGED <<clock, limiterVars, account, registered, request, begun>>

MutPendingExpired(a) == account[a].status = "pending" /\ account[a].link # 0
                        /\ account[a].made + PendingLife <= clock
PendingExpired(a) == account[a].status = "pending" /\ account[a].made + PendingLife <= clock

\* Accounts that were never confirmed
Lifecycle ==
  /\ account' = [a \in Accounts |-> IF PendingExpired(a) THEN [NoAccount EXCEPT !.status = "gone"]
                                    ELSE account[a]]
  /\ UNCHANGED <<clock, limiterVars, creation, toggles, registered, request, begun>>

\* The scheduler purges the buckets with the time its pass began.
PurgeBuckets ==
  /\ \E now \in 1..clock : buckets' = Unexpired(buckets, now)
  /\ UNCHANGED <<clock, admitted, late, serviceVars, request, begun>>

\* Time goes on for as long as something waits for it.
Waiting ==
  \/ \E r \in Requests : request[r].until > clock
  \/ \E a \in Accounts : account[a].status = "pending" /\ account[a].made + PendingLife > clock
Tick ==
  /\ clock < MaxClock \/ Waiting
  /\ clock' = clock + 1
  /\ UNCHANGED <<limiterVars, serviceVars, request, begun>>

Serve(r) ==
  \/ Check(r) \/ AskPolicy(r) \/ TakeDecision(r) \/ ReadSetting(r) \/ Create(r) \/ EndHook(r)
  \/ ReadLink(r) \/ SetUp(r) \/ Verify(r) \/ Refuse(r)

Next ==
  \/ \E r \in Requests : Arrive(r) \/ Serve(r) \/ ProviderEnds(r) \/ Abort(r)
  \/ SetCreation \/ Lifecycle \/ PurgeBuckets \/ Tick

Spec == Init /\ [][Next]_vars

\* A request can go on, unless it waits for the provider.
Ready(r) ==
  /\ request[r] # Idle
  /\ request[r].at \in {"asking", "telling"} => request[r].task # "running" \/ TimedOut(r)
Moves(r) == request'[r].at # request[r].at

\* The web server goes on with every request that is ready (the weak fairness of Serve(r),
\* whose steps all move the request), the scheduler loops, time passes; the provider may
\* never answer.
FairSpec ==
  /\ Spec /\ WF_vars(Tick) /\ WF_vars(Lifecycle)
  /\ \A r \in Requests : []<>~Ready(r) \/ []<><<Moves(r)>>_vars
=============================================================================
