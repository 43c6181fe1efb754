CONSTANTS
  Senders = {s1, s2}
  Slots = 1
  Ids = 4
  MaxSends = 3
  Waits <- OnlyWait
  Kinds <- ClientMsgs
  DeviceBus = FALSE
  Serialized = TRUE
  NoMsg = NoMsg
SPECIFICATION FairSpec
CHECK_DEADLOCK FALSE
INVARIANT IInv
PROPERTY ImplementsRemoteCall
PROPERTY EveryCallReturns
