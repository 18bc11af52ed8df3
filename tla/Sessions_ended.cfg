\* A line of the API documentation refuted: an ended token is accepted again.
SPECIFICATION MCSpec
CONSTANTS
  Slots = {s1, s2}
  Passwords = {pw1, pw2}
  Second = 2
  AccessTtl = 4
  RefreshTtl = 4
  ResetTtl = 4
  MaxPairs = 1
  MaxResets = 1
  MaxRequests = 3
  LastTick = 3
  MaxFaults = 0
  NoReq = NoReq
  NoPair = NoPair
PROPERTIES
  EndedStaysEnded
