\* WORKERS changes between two starts
SPECIFICATION Spec
CONSTANTS
  JobNames = {"a1", "a2"}
  Keys = {"a1", "a2"}
  Topics <- MCTopics
  Topic <- MCTopic
  Owner <- MCOwner
  Hash <- MCHash
  Layouts <- ChangingLayout
  Channels <- MCChannels
  Channel <- MCChannel
  Ts <- MCTs
  Stages <- MCStages
  MaxAttempts = 2
  MaxBackoff = 1
  CursorMayFail = FALSE
  WritesMayFail = FALSE
  MaxCrashes = 1
INVARIANT
  OrderPerAuthor
CHECK_DEADLOCK FALSE
