\* Two request threads, two clients, one account
SPECIFICATION FairSpec
CONSTANTS
  Clients = {c1, c2}
  Accounts = {a1}
  Requests = {r1, r2}
  Limit <- SmallLimit
  Window <- Windows
  MaxBuckets = 4
  Timeout = 1
  LinkLife = 1
  PendingLife = 2
  MaxRequests = 2
  MaxEdits = 1
  MaxClock = 2
  Nobody = Nobody
INVARIANTS
  TypeOK
  WithinLimits
  BucketsBounded
  RegisteredOnlyIfAllowed
PROPERTIES
  RequestsEnd
  PendingEnds
