\* a card in the first of two held messages, by two authors; crashes, lost and failed calls
SPECIFICATION WorkerSpec
CONSTANTS
  Names = {"m1", "m3"}
  Events = {"m1", "m3"}
  Keys <- MCKeys
  Topics <- MCTopics
  Topic <- MCTopic
  Owner <- MCOwner
  Hash <- MCHash
  Layouts <- OneThread
  Channels <- MCChannels
  Channel <- MCChannel
  Ts <- MCTs
  Stages <- MCStages
  MaxAttempts = 2
  MaxBackoff = 1
  CursorMayFail = FALSE
  WritesMayFail = TRUE
  MaxCrashes = 1
  MsgOf <- MCMsgOf
  Edits <- MCEdits
  Author <- MCAuthor
  Posted <- MCPosted
  Rule <- CardInFirst
  Split <- NoSplit
  Verdicts <- AlwaysAllow
  HoldChannel = TRUE
  WindowSize = 6
  Faults = {"failed","lost"}
  MaxFaults = 1
  SlackDrops = TRUE
INVARIANTS
  GoneIsAccountedFor
  NothingSkipsTheChecks
  RemovalIsNotified
  AuditIsTrue
CHECK_DEADLOCK FALSE
