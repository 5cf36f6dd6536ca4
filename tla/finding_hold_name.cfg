\* the channel's name is refused after a held message was deleted
SPECIFICATION WorkerSpec
CONSTANTS
  Names = {"m1"}
  Events = {"m1"}
  Keys <- MCKeys
  Topics <- MCTopics
  Topic <- MCTopic
  Owner <- MCOwner
  Hash <- MCHash
  Layouts <- OneThread
  Channels <- MCChannels
  Channel <- MCChannel
  Ts <- MCTs
  Stages <- MCStages
  MaxAttempts = 2
  MaxBackoff = 1
  CursorMayFail = FALSE
  WritesMayFail = FALSE
  MaxCrashes = 1
  MsgOf <- MCMsgOf
  Edits <- MCEdits
  Author <- MCAuthor
  Posted <- MCPosted
  Rule <- NoRule
  Split <- NoSplit
  Verdicts <- AlwaysAllow
  HoldChannel = TRUE
  WindowSize = 6
  Faults = {"refused"}
  MaxFaults = 1
  SlackDrops = FALSE
INVARIANT
  GoneIsAccountedFor
CHECK_DEADLOCK FALSE
