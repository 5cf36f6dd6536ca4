\* attempts when the process keeps crashing
SPECIFICATION Spec
CONSTANTS
  JobNames = {"a1"}
  Keys = {"a1"}
  Topics <- MCTopics
  Topic <- MCTopic
  Owner <- MCOwner
  Hash <- MCHash
  Layouts <- SharedLane
  Channels <- MCChannels
  Channel <- MCChannel
  Ts <- MCTs
  Stages <- MCStages
  MaxAttempts = 2
  MaxBackoff = 2
  CursorMayFail = FALSE
  WritesMayFail = FALSE
  MaxCrashes = 3
INVARIANT
  AttemptsBounded
CHECK_DEADLOCK FALSE
