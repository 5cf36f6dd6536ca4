\* an event given up by Slack after a later one moved the cursor
SPECIFICATION FairWorkerSpec
CONSTANTS
  Names = {"m1", "m2"}
  Events = {"m1", "m2"}
  Keys <- MCKeys
  Topics <- MCTopics
  Topic <- MCTopic
  Owner <- MCOwner
  Hash <- MCHash
  Layouts <- OneThread
  Channels <- MCChannels
  Channel <- MCChannel
  Ts <- MCTs
  Stages <- MCStages
  MaxAttempts = 2
  MaxBackoff = 1
  CursorMayFail = FALSE
  WritesMayFail = FALSE
  MaxCrashes = 1
  MsgOf <- MCMsgOf
  Edits <- MCEdits
  Author <- MCAuthor
  Posted <- MCPosted
  Rule <- NoRule
  Split <- NoSplit
  Verdicts <- AlwaysAllow
  HoldChannel = FALSE
  WindowSize = 6
  Faults = {}
  MaxFaults = 0
  SlackDrops = TRUE
PROPERTY
  DowntimeIsCovered
CHECK_DEADLOCK FALSE
