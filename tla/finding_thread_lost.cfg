\* the thread of a lane ends when fail() or claim() raises
SPECIFICATION FairSpec
CONSTANTS
  JobNames = {"a1", "a2"}
  Keys = {"a1", "a2"}
  Topics <- MCTopics
  Topic <- MCTopic
  Owner <- MCOwner
  Hash <- MCHash
  Layouts <- SharedLane
  Channels <- MCChannels
  Channel <- MCChannel
  Ts <- MCTs
  Stages <- MCStages
  MaxAttempts = 2
  MaxBackoff = 1
  CursorMayFail = FALSE
  WritesMayFail = TRUE
  MaxCrashes = 0
PROPERTY
  NothingIsStranded
CHECK_DEADLOCK FALSE
