\* Two requests at once, all periods one tick, without disturbances.
SPECIFICATION Spec
CONSTANTS
  Contacts = {mail}
  First = mail
  NoContact = none
  Requests = {q1, q2}
  Days = {0}
  Interval = 1
  Grace = 1
  Retention = 1
  PendingLife = 1
  CodeLife = 1
  Lease = 1
  MaxReviews = 3
  MaxEdits = 0
  MaxClock = 5
INVARIANTS
  NextReviewExists
  ConfirmedOnce
PROPERTIES
  RetentionBeforeDeletion
SYMMETRY RequestSymmetry
