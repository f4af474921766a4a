\* Holder, a partner and the partner's trusted person; two request threads.
SPECIFICATION FairSpec
CONSTANTS
  holder = holder
  partner = partner
  person = person
  r1 = r1
  r2 = r2
  Holder = holder
  Partners = {partner}
  Persons = {person}
  Sponsor <- SponsorPartner
  Requests = {r1, r2}
  Submissions = {m1}
  SetupPeriod = 1
  SessionTtl = 2
  SubmissionTtl = 1
  LockFrom <- LockAtTwo
  LockFor = 1
  MaxLink = 2
  MaxClock = 2
  MaxRequests = 2
  MaxFaults = 1
  Nobody = Nobody
INVARIANTS
  TypeOK
  OneMessagePerSubmission
  GoneIsGone
  LockedOnlyAfterFailures
  AnnouncedOnce
PROPERTIES
  NoticeEventually
