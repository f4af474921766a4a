\* A partner's notice with or without a waiting period and two attempts: cancellation,
\* release, retries, cycles that last as long as their leases, a crash, and one change of
\* the account, the partner or the contact, or a late bounce.
SPECIFICATION Spec
CONSTANTS
  n1 = n1
  n2 = n2
  owner = owner
  partner = partner
  ownerMail = ownerMail
  partnerMail = partnerMail
  scheduler = scheduler
  web = web
  v1 = v1
  v2 = v2
  Notifications = {n1}
  Contacts = {partnerMail}
  Partners = {partner}
  Owner = owner
  OwnerOf <- OwnerOfPartner
  Scheduler = scheduler
  WebWorkers = {web}
  Visitors = {}
  Delays = {0, 1}
  Retentions = {2}
  Lease = 2
  RetryDelay <- TwoAttempts
  MaxAttempts = 2
  BatchLimit = 2
  Staleness = 1
  Settling = 3
  MaxClock = 5
  MaxCycle = 2
  MaxEdits = 1
  MaxCrashes = 1
  NoWorker = NoWorker
  NoDelivery = NoDelivery
  NoNotification = NoNotification
INVARIANTS
  TypeOK
  CancelledNeverSent
  SentOnlyAfterRelease
  AttemptsBounded
  DuplicatesExplained
  LeaseOnlyWhileClaimed
PROPERTIES
  LiveLeaseKept
  ReleaseIsFinal
