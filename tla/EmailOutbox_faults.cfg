\* Two workers, crashes, lost answers and signals.
SPECIFICATION FairSpec
CONSTANTS
  Workers = {w1, w2}
  MaxMails = 3
  BatchSize = 2
  MaxAttempts = 2
  BackoffBase = 1
  BackoffMax = 2
  EmailModes = {"fake", "smtp"}
  Signalled = {w1}
  MaxFaults = 1
INVARIANTS
  TypeOK
  OneOwner
  AttemptsBoundDeliveries
  DuplicatesBounded
  StrandedBounded
  SentWasDelivered
PROPERTIES
  EveryMailSettled
  ImplementsMailQueue
