------------------------ MODULE AdmissionProperties ------------------------
(***************************************************************************)
(* What the rate limiter and the registration promise.                     *)
(***************************************************************************)
EXTENDS Admission

\* Types of the tables and requests; a set-up link is used up with the set-up.
TypeOK ==
  /\ creation = (toggles % 2 = 0)
  /\ \A a \in Accounts :
       /\ account[a].status \in {"free", "pending", "active", "gone"}
       /\ account[a].status \in {"free", "gone"} =>
            account[a] = [NoAccount EXCEPT !.status = account[a].status]
       /\ account[a].link # 0 => ~account[a].secret
  /\ \A r \in Requests :
       /\ request[r].task \in {"none", "running", "allow", "deny", "failed"}
       /\ request[r].at \in {"idle", "arrived", "admitted", "asking", "allowed", "creating",
                             "telling", "preparing"}

\* In no window does the limiter let through more requests of a client, of a link or of
\* all together than the policy allows, however requests, expiry and the scheduler's purge
\* interleave - save one for every request that waited for the database past the end of
\* its window (PersistentRateLimiter.check).
WithinLimits ==
  \A key \in DOMAIN admitted : admitted[key] <= Limit[<<key.post, key.scope>>] + At(late, key)

\* The table never outgrows its limit (OPERATIONS.md: "fails closed when no new entry can
\* be stored").
BucketsBounded == Cardinality(DOMAIN buckets) <= MaxBuckets

\* An account exists only because the provider allowed it, in an answer that was taken
\* before the timeout, and registration was open at some moment after that answer.
RegisteredOnlyIfAllowed ==
  \A x \in registered : x.answer = "allow" /\ (x.closed = x.at => x.closed % 2 = 0)

\* Every request is answered, whatever the provider does.
RequestsEnd == \A r \in Requests : request[r].at # "idle" ~> request[r].at = "idle"

\* An account that nobody confirms is removed, set up or not.
PendingEnds == \A a \in Accounts : account[a].status = "pending" ~> account[a].status # "pending"
=============================================================================
