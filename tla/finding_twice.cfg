\* a crash between a post and its stage
SPECIFICATION WorkerSpec
CONSTANTS
  Names = {"m1"}
  Events = {"m1"}
  Keys <- MCKeys
  Topics <- MCTopics
  Topic <- MCTopic
  Owner <- MCOwner
  Hash <- MCHash
  Layouts <- OneThread
  Channels <- MCChannels
  Channel <- MCChannel
  Ts <- MCTs
  Stages <- MCStages
  MaxAttempts = 2
  MaxBackoff = 1
  CursorMayFail = FALSE
  WritesMayFail = FALSE
  MaxCrashes = 1
  MsgOf <- MCMsgOf
  Edits <- MCEdits
  Author <- MCAuthor
  Posted <- MCPosted
  Rule <- NoRule
  Split <- NoSplit
  Verdicts <- AlwaysAllow
  HoldChannel = TRUE
  WindowSize = 6
  Faults = {}
  MaxFaults = 0
  SlackDrops = FALSE
INVARIANT
  NothingTwice
CHECK_DEADLOCK FALSE
