\* One attempt, a request that confirms the reading, and a crash of any process; a
\* retention that ends within the bound and one that does not.
SPECIFICATION FairSpec
CONSTANTS
  n1 = n1
  n2 = n2
  owner = owner
  partner = partner
  ownerMail = ownerMail
  partnerMail = partnerMail
  scheduler = scheduler
  web = web
  v1 = v1
  v2 = v2
  Notifications = {n1}
  Contacts = {ownerMail}
  Partners = {}
  Owner = owner
  OwnerOf <- OwnerOfOwner
  Scheduler = scheduler
  WebWorkers = {web}
  Visitors = {v1}
  Delays = {0}
  Retentions = {1, 9}
  Lease = 1
  RetryDelay <- OneAttempt
  MaxAttempts = 1
  BatchLimit = 2
  Staleness = 0
  Settling = 1
  MaxClock = 2
  MaxCycle = 1
  MaxEdits = 0
  MaxCrashes = 1
  NoWorker = NoWorker
  NoDelivery = NoDelivery
  NoNotification = NoNotification
PROPERTIES
  EventuallySettled
  EventuallyErased
  ReadThenErased
