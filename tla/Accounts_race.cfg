\* Registrations, confirmations and resets of one address race over pools of
\* every size up to one more than the requests.  No symmetry: unsound for liveness.
SPECIFICATION FairSpec
CONSTANTS
  Slots = {s1, s2}
  Emails = {e1}
  Passwords = {pw1, pw2}
  PoolSizes = {1, 2, 3}
  MaxTokens = 2
  MaxFaults = 1
  NoUser = NoUser
  NoToken = NoToken
  NoReq = NoReq
CHECK_DEADLOCK FALSE
INVARIANTS
  TypeOK
  PoolBalanced
  ConfirmedOnce
  TokenIsMailed
  MailedResetExists
PROPERTIES
  EveryRequestAnswered
