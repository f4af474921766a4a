\* One request and one disturbance; the account lives through disabling and deletion.
SPECIFICATION FairSpec
CONSTANTS
  Contacts = {mail, other}
  First = mail
  NoContact = none
  Requests = {q1}
  Days = {0}
  Interval = 1
  Grace = 1
  Retention = 1
  PendingLife = 1
  CodeLife = 1
  Lease = 1
  MaxReviews = 3
  MaxEdits = 1
  MaxClock = 4
INVARIANTS
  TypeOK
PROPERTIES
  DisabledIsDeleted
