\* A comment of the outbox port refuted.
SPECIFICATION Spec
CONSTANTS
  Slots = {s1}
  Emails = {e1}
  Passwords = {pw1, pw2}
  PoolSizes = {2}
  MaxTokens = 1
  MaxFaults = 1
  NoUser = NoUser
  NoToken = NoToken
  NoReq = NoReq
INVARIANTS
  MailIsTransactional
