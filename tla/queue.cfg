\* a and b in one of two triage lanes
SPECIFICATION FairSpec
CONSTANTS
  JobNames = {"a1", "a2", "b1"}
  Keys = {"a1", "a2", "b1"}
  Topics <- MCTopics
  Topic <- MCTopic
  Owner <- MCOwner
  Hash <- MCHash
  Layouts <- SharedLane
  Channels <- MCChannels
  Channel <- MCChannel
  Ts <- MCTs
  Stages <- MCStages
  MaxAttempts = 2
  MaxBackoff = 1
  CursorMayFail = FALSE
  WritesMayFail = TRUE
  MaxCrashes = 1
INVARIANTS
  AttemptsExplained
  IInv
  OrderPerAuthor
  TextLifetime
PROPERTIES
  EveryJobSettles
  CursorNeverMovesBack
  ImplementsOrderedIntake
CHECK_DEADLOCK FALSE
