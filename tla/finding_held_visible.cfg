\* a split finding, the right to delete taken away, and a crash, in a hold channel
SPECIFICATION WorkerSpec
CONSTANTS
  Names = {"m1", "m2"}
  Events = {"m1", "m2"}
  Keys <- MCKeys
  Topics <- MCTopics
  Topic <- MCTopic
  Owner <- MCOwner
  Hash <- MCHash
  Layouts <- OneThread
  Channels <- MCChannels
  Channel <- MCChannel
  Ts <- MCTs
  Stages <- MCStages
  MaxAttempts = 2
  MaxBackoff = 1
  CursorMayFail = FALSE
  WritesMayFail = FALSE
  MaxCrashes = 1
  MsgOf <- MCMsgOf
  Edits <- MCEdits
  Author <- MCAuthor
  Posted <- MCPosted
  Rule <- NoRule
  Split <- SplitOverTwo
  Verdicts <- ModelSplit
  HoldChannel = TRUE
  WindowSize = 6
  Faults = {"refused"}
  MaxFaults = 1
  SlackDrops = FALSE
INVARIANT
  HeldMeansGone
CHECK_DEADLOCK FALSE
