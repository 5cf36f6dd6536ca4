\* a crash between done and advance_cursor
SPECIFICATION WorkerSpec
CONSTANTS
  Names = {"m1", "m2"}
  Events = {"m1", "m2"}
  Keys <- MCKeys
  Topics <- MCTopics
  Topic <- MCTopic
  Owner <- MCOwner
  Hash <- MCHash
  Layouts <- OneThread
  Channels <- MCChannels
  Channel <- MCChannel
  Ts <- MCTs
  Stages <- MCStages
  MaxAttempts = 2
  MaxBackoff = 1
  CursorMayFail = FALSE
  WritesMayFail = FALSE
  MaxCrashes = 1
  MsgOf <- MCMsgOf
  Edits <- MCEdits
  Author <- MCAuthor
  Posted <- MCPosted
  Rule <- NoRule
  Split <- SplitOverTwo
  Verdicts <- AlwaysAllow
  HoldChannel = FALSE
  WindowSize = 6
  Faults = {}
  MaxFaults = 0
  SlackDrops = FALSE
INVARIANT
  SplitIsRemoved
CHECK_DEADLOCK FALSE
