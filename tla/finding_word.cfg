\* words for the digits of other messages; either invariant fails by itself too
SPECIFICATION Spec
CONSTANTS
  CardMin = 4
  CardMax = 6
  CardStart = {4, 5}
  CardShapes <- MCCardShapes
  SinShape <- MCSinShape
  SsnShape <- MCSsnShape
  BadAreas <- MCBadAreas
  IbanCheck = 1
  IbanGroup = 2
  IbanGroups = {2, 3, 4}
  MaxGroups = 3
  ManyCodes = 4
  RowLength = 5
  RowDistinct = 2
  MinKey = 10
  Scripts <- WordScripts
  Answers <- MCAnswers
  Policy <- MCPolicy
  WindowSize = 3
  MaxAge = 1
  MaxTime = 2
INVARIANTS
  WordCountsForOlder
  JoinedAreLatest
CHECK_DEADLOCK FALSE
