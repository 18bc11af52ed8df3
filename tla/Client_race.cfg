\* Two handlers of one tab race, with one fault or reload.
SPECIFICATION Spec
CONSTANTS
  Handlers = {h1, h2}
  MaxPairs = 2
  MaxFaults = 1
INVARIANTS
  TypeOK
  StoredPairUsable
  CarriedOutOnce
  LogoutIsClean
  LockIsHeld
