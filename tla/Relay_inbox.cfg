\* A message to the holder and a partner: a request confirms a reading or disables the
\* partner, row by row, while the scheduler and one change interfere.
SPECIFICATION Spec
CONSTANTS
  n1 = n1
  n2 = n2
  owner = owner
  partner = partner
  ownerMail = ownerMail
  partnerMail = partnerMail
  scheduler = scheduler
  web = web
  v1 = v1
  v2 = v2
  Notifications = {n1}
  Contacts = {ownerMail}
  Partners = {partner}
  Owner = owner
  OwnerOf <- OwnerOfOwner
  Scheduler = scheduler
  WebWorkers = {web}
  Visitors = {v1}
  Delays = {1}
  Retentions = {1}
  Lease = 2
  RetryDelay <- OneAttempt
  MaxAttempts = 1
  BatchLimit = 2
  Staleness = 1
  Settling = 0
  MaxClock = 2
  MaxCycle = 1
  MaxEdits = 1
  MaxCrashes = 0
  NoWorker = NoWorker
  NoDelivery = NoDelivery
  NoNotification = NoNotification
PROPERTIES
  KeepsPromise
  ContentKeptForReaders
