\* a lost answer, and the request sent again, or two rate limits; either invariant fails by itself too
SPECIFICATION Spec
CONSTANTS
  Callers = {c1, c2, c3}
  Slots = {s1, s2}
  MaxFaults = 1
INVARIANTS
  EffectOnce
  LimitedMeansUndone
