\* two threads reload at once
SPECIFICATION Spec
CONSTANTS
  Threads = {t1, t2}
  Valid = {1, 2, 3}
  Undecodable = {}
  FileMayVanish = FALSE
  MaxVersion = 3
PROPERTY EditsApply
