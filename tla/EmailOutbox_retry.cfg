\* The promise of retries refuted: a row whose claim was committed, but not
\* answered, is never retried.
SPECIFICATION RestartSpec
CONSTANTS
  Workers = {w1}
  MaxMails = 1
  BatchSize = 1
  MaxAttempts = 2
  BackoffBase = 1
  BackoffMax = 1
  EmailModes = {"smtp"}
  Signalled = {}
  MaxFaults = 1
CHECK_DEADLOCK FALSE
PROPERTIES
  RetriedAfterFault
