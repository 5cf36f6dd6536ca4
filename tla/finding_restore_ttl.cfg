\* how long originals are kept
SPECIFICATION Spec
CONSTANTS
  Tickets = {r1, r2}
  Clicks = {c1, c2}
  TTL = 1
  MaxTime = 3
  CallsFail = FALSE
INVARIANT
  HeldForTTL
CHECK_DEADLOCK FALSE
