\* an edit in a hold channel
SPECIFICATION WorkerSpec
CONSTANTS
  Names = {"m2", "m2b"}
  Events = {"m2", "m2b"}
  Keys <- MCKeys
  Topics <- MCTopics
  Topic <- MCTopic
  Owner <- MCOwner
  Hash <- MCHash
  Layouts <- OneThread
  Channels <- MCChannels
  Channel <- MCChannel
  Ts <- MCTs
  Stages <- MCStages
  MaxAttempts = 2
  MaxBackoff = 1
  CursorMayFail = FALSE
  WritesMayFail = FALSE
  MaxCrashes = 0
  MsgOf <- MCMsgOf
  Edits <- MCEdits
  Author <- MCAuthor
  Posted <- MCPosted
  Rule <- NoRule
  Split <- NoSplit
  Verdicts <- AlwaysAllow
  HoldChannel = TRUE
  WindowSize = 6
  Faults = {}
  MaxFaults = 0
  SlackDrops = FALSE
INVARIANT
  ReleasedOnce
CHECK_DEADLOCK FALSE
