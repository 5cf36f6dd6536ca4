\* a message and its edit, which brings the card, in a hold channel; verdicts vary
SPECIFICATION WorkerSpec
CONSTANTS
  Names = {"m2", "m2b"}
  Events = {"m2", "m2b"}
  Keys <- MCKeys
  Topics <- MCTopics
  Topic <- MCTopic
  Owner <- MCOwner
  Hash <- MCHash
  Layouts <- OneThread
  Channels <- MCChannels
  Channel <- MCChannel
  Ts <- MCTs
  Stages <- MCStages
  MaxAttempts = 2
  MaxBackoff = 1
  CursorMayFail = FALSE
  WritesMayFail = FALSE
  MaxCrashes = 0
  MsgOf <- MCMsgOf
  Edits <- MCEdits
  Author <- MCAuthor
  Posted <- MCPosted
  Rule <- CardInEdit
  Split <- NoSplit
  Verdicts <- Wavering
  HoldChannel = TRUE
  WindowSize = 6
  Faults = {"refused", "failed"}
  MaxFaults = 2
  SlackDrops = FALSE
INVARIANTS
  HeldMeansGone
  NoCopyBesideOriginal
  RepeatsExplained
  WorkerInv
CHECK_DEADLOCK FALSE
