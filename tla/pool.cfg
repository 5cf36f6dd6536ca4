\* two threads and the warmer on two connections that break
SPECIFICATION FairSpec
CONSTANTS
  Callers = {c1, c2}
  Slots = {s1, s2}
  MaxFaults = 1
INVARIANT
  EachSlotInOnePlace
PROPERTY
  EveryCallEnds
