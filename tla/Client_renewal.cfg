\* The automatic renewal refuted: two requests of one screen exchange one token.
SPECIFICATION Spec
CONSTANTS
  Handlers = {h1}
  MaxPairs = 4
  MaxFaults = 0
INVARIANTS
  SessionRenewable
