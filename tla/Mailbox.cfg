\* Reports about one e-mail, one owner, one partner, one failure
SPECIFICATION FairSpec
CONSTANTS
  Owners = {o1}
  Others = {p1}
  Asked = {p1}
  Contents <- SmallContents
  Addresses = {a1, a2}
  None = None
  Scheduler = Scheduler
  Web = Web
  Interval = 1
  Retention = 1
  MaxTokens = 1
  MaxMail = 1
  MaxClock = 2
  MaxEdits = 2
  MaxResends = 1
  MaxFaults = 1
INVARIANTS
  TypeOK
  CountedOnce
  KnownReportsCount
PROPERTIES
  EmptiesOnlyAcknowledged
  OwnerToldEventually
