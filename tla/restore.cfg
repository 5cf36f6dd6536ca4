\* three presses on two tickets, with calls that fail and restarts
SPECIFICATION Spec
CONSTANTS
  Tickets = {r1, r2}
  Clicks = {c1, c2, c3}
  TTL = 1
  MaxTime = 2
  CallsFail = TRUE
INVARIANTS
  TicketInv
  CopyReplaced
CHECK_DEADLOCK FALSE
