\* two cards in one message, of which one layer finds one, and a card after an IBAN; either
\* invariant fails by itself too
SPECIFICATION Spec
CONSTANTS
  CardMin = 4
  CardMax = 6
  CardStart = {4, 5}
  CardShapes <- MCCardShapes
  SinShape <- MCSinShape
  SsnShape <- MCSsnShape
  BadAreas <- MCBadAreas
  IbanCheck = 1
  IbanGroup = 2
  IbanGroups = {2, 3, 4}
  MaxGroups = 3
  ManyCodes = 4
  RowLength = 5
  RowDistinct = 2
  MinKey = 10
  Scripts <- MCScripts
  Answers <- MCAnswers
  Policy <- MCPolicy
  WindowSize = 2
  MaxAge = 1
  MaxTime = 2
INVARIANTS
  CopyShowsNoCard
  MaskedShowsNoCard
CHECK_DEADLOCK FALSE
