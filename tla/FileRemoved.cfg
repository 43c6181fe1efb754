CONSTANTS
  Names = {a, b}
  NoName = NoName
  MaxDepth = 2
  Ents = {e1, e2, e3}
  Keys = {k1, k2, k3}
  Handles = {h}
  Streams = {s}
  MaxOpen = 1
  Root = Root
  Null = Null
  Dangling = Dangling
  Garbage = Garbage
  Threads = {t1, t2}
  Size = 3
  MaxGets = 7
  Capacity = 3
  Serialized = TRUE
  ByPlace = FALSE
SPECIFICATION FilesOnly
CHECK_DEADLOCK FALSE
INVARIANT NoUseAfterRemove
