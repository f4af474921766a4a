\* A request, a pass and a lock: tests/test_services.py:1141-1193.
SPECIFICATION FairSpec
CONSTANTS
  Contacts = {mail}
  First = mail
  NoContact = none
  Requests = {q1}
  Days = {0}
  Interval = 1
  Grace = 1
  Retention = 1
  PendingLife = 1
  CodeLife = 1
  Lease = 1
  MaxReviews = 3
  MaxEdits = 1
  MaxClock = 4
PROPERTIES
  LockedIsDeleted
