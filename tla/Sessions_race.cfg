\* Two requests at a time against one account, over two seconds.
SPECIFICATION MCSpec
CONSTANTS
  Slots = {s1, s2}
  Passwords = {pw1, pw2}
  Second = 2
  AccessTtl = 1
  RefreshTtl = 3
  ResetTtl = 2
  MaxPairs = 2
  MaxResets = 1
  MaxRequests = 3
  LastTick = 4
  MaxFaults = 1
  NoReq = NoReq
  NoPair = NoPair
SYMMETRY Symmetry
INVARIANTS
  TypeOK
  SpentTokenRefused
  RotatedIsSpent
  ResetRedeemedOnce
  EndedToTheSecond
PROPERTIES
  ChangeEndsSessions
