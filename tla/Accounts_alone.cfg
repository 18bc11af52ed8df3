\* A registration changes the password of an account confirmed meanwhile.
SPECIFICATION Spec
CONSTANTS
  Slots = {s1, s2}
  Emails = {e1}
  Passwords = {pw1, pw2}
  PoolSizes = {3}
  MaxTokens = 2
  MaxFaults = 0
  NoUser = NoUser
  NoToken = NoToken
  NoReq = NoReq
PROPERTIES
  ConfirmedIsLeftAlone
