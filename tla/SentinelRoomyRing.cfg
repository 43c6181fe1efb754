CONSTANTS
  Senders = {s1, s2}
  Slots = 4
  Ids = 8
  MaxSends = 2
  Waits <- AnyWait
  Kinds <- DeviceMsgs
  DeviceBus = TRUE
  Serialized = FALSE
  NoMsg = NoMsg
SPECIFICATION FairSpec
CHECK_DEADLOCK FALSE
INVARIANT ReplyIsOwn
INVARIANT RunsAtMostOnce
INVARIANT RunsOnlyPublished
PROPERTY StatusProtocol
PROPERTY EveryMessageRuns
