\* a finding over two messages of one author; failed and refused calls
SPECIFICATION WorkerSpec
CONSTANTS
  Names = {"m1", "m2"}
  Events = {"m1", "m2"}
  Keys <- MCKeys
  Topics <- MCTopics
  Topic <- MCTopic
  Owner <- MCOwner
  Hash <- MCHash
  Layouts <- TwoThreads
  Channels <- MCChannels
  Channel <- MCChannel
  Ts <- MCTs
  Stages <- MCStages
  MaxAttempts = 2
  MaxBackoff = 1
  CursorMayFail = FALSE
  WritesMayFail = TRUE
  MaxCrashes = 0
  MsgOf <- MCMsgOf
  Edits <- MCEdits
  Author <- MCAuthor
  Posted <- MCPosted
  Rule <- NoRule
  Split <- SplitOverTwo
  Verdicts <- ModelSplit
  HoldChannel = FALSE
  WindowSize = 6
  Faults = {"failed", "refused"}
  MaxFaults = 1
  SlackDrops = FALSE
INVARIANT
  SplitIsRemoved
CHECK_DEADLOCK FALSE
