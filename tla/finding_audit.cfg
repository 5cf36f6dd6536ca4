\* a refused delete, and then a failed audit line
SPECIFICATION WorkerSpec
CONSTANTS
  Names = {"m1"}
  Events = {"m1"}
  Keys <- MCKeys
  Topics <- MCTopics
  Topic <- MCTopic
  Owner <- MCOwner
  Hash <- MCHash
  Layouts <- OneThread
  Channels <- MCChannels
  Channel <- MCChannel
  Ts <- MCTs
  Stages <- MCStages
  MaxAttempts = 2
  MaxBackoff = 1
  CursorMayFail = FALSE
  WritesMayFail = FALSE
  MaxCrashes = 0
  MsgOf <- MCMsgOf
  Edits <- MCEdits
  Author <- MCAuthor
  Posted <- MCPosted
  Rule <- CardInFirst
  Split <- NoSplit
  Verdicts <- AlwaysAllow
  HoldChannel = FALSE
  WindowSize = 6
  Faults = {"failed", "refused"}
  MaxFaults = 2
  SlackDrops = FALSE
INVARIANT
  AuditIsTrue
CHECK_DEADLOCK FALSE
