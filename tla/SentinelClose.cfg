CONSTANTS
  Senders = {s1}
  Slots = 1
  Ids = 4
  MaxSends = 2
  Waits <- AnyWait
  Kinds <- OnlyCalls
  DeviceBus = TRUE
  Serialized = TRUE
  NoMsg = NoMsg
SPECIFICATION Spec
CHECK_DEADLOCK FALSE
INVARIANT CloseExecuted
