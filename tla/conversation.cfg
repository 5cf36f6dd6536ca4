\* texts by themselves, and conversations of up to four events; window of two, cards of 4 to 6 digits
SPECIFICATION Spec
CONSTANTS
  CardMin = 4
  CardMax = 6
  CardStart = {4, 5}
  CardShapes <- MCCardShapes
  SinShape <- MCSinShape
  SsnShape <- MCSsnShape
  BadAreas <- MCBadAreas
  IbanCheck = 1
  IbanGroup = 2
  IbanGroups = {2, 3, 4}
  MaxGroups = 3
  ManyCodes = 4
  RowLength = 5
  RowDistinct = 2
  MinKey = 10
  Scripts <- MCScripts
  Answers <- MCAnswers
  Policy <- MCPolicy
  WindowSize = 2
  MaxAge = 1
  MaxTime = 2
INVARIANTS
  ConversationInv
  StandingSplitCaught
  JoinedAreCurrent
  ModelHitsAreTyped
  PlainCardIsFound
  MaskedCardsStayHidden
  LookAlikesAnchored
  OneDigitMatters
CHECK_DEADLOCK FALSE
