\* every message is judged in the end, or was given up by Slack where no catch-up sees it
SPECIFICATION FairWorkerSpec
CONSTANTS
  Names = {"m1", "m2"}
  Events = {"m1", "m2"}
  Keys <- MCKeys
  Topics <- MCTopics
  Topic <- MCTopic
  Owner <- MCOwner
  Hash <- MCHash
  Layouts <- OneThread
  Channels <- MCChannels
  Channel <- MCChannel
  Ts <- MCTs
  Stages <- MCStages
  MaxAttempts = 2
  MaxBackoff = 1
  CursorMayFail = FALSE
  WritesMayFail = FALSE
  MaxCrashes = 1
  MsgOf <- MCMsgOf
  Edits <- MCEdits
  Author <- MCAuthor
  Posted <- MCPosted
  Rule <- CardInFirst
  Split <- NoSplit
  Verdicts <- AlwaysAllow
  HoldChannel = FALSE
  WindowSize = 1
  Faults = {"failed"}
  MaxFaults = 0
  SlackDrops = TRUE
INVARIANT
  WorkerInv
PROPERTY
  EverySentIsJudged
CHECK_DEADLOCK FALSE
