\* THREAT_MODEL.md:157-160.
SPECIFICATION Spec
CONSTANTS
  n1 = n1
  n2 = n2
  owner = owner
  partner = partner
  ownerMail = ownerMail
  partnerMail = partnerMail
  scheduler = scheduler
  web = web
  v1 = v1
  v2 = v2
  Notifications = {n1}
  Contacts = {ownerMail}
  Partners = {}
  Owner = owner
  OwnerOf <- OwnerOfOwner
  Scheduler = scheduler
  WebWorkers = {web}
  Visitors = {}
  Delays = {0}
  Retentions = {2}
  Lease = 2
  RetryDelay <- OneAttempt
  MaxAttempts = 1
  BatchLimit = 2
  Staleness = 0
  Settling = 3
  MaxClock = 5
  MaxCycle = 2
  MaxEdits = 1
  MaxCrashes = 0
  NoWorker = NoWorker
  NoDelivery = NoDelivery
  NoNotification = NoNotification
INVARIANTS
  AuthorizedWhileSending
