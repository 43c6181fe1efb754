CONSTANTS
  Threads = {t1, t2}
  Size = 3
  Word = 12
  Wide = 48
  Base = 34
  MaxGets = 12
  Capacity = 4
  Serialized = TRUE
  DoubleFrees = TRUE
  Null = Null
  ObjectSizes = {4}
  ChunkSize = 8
  CtxSize = 4
  NodeSize = 2
  Slack = 2
  Short = 16
  MaxNodes = 2
  MaxBlocks = 3
  Deep = TRUE
  Blocks = {b1, b2}
  Scratch = 2
  ScratchSize = 2
  Sizes = {1, 3}
  Unit = 2
  Limits = {0, 4}
  LongWord = 64
  SlotCount = 2
  Heap = {b1, b2}
  MaxNest = 1
SPECIFICATION ContextOnly
CHECK_DEADLOCK FALSE
INVARIANT RetractsToPrevious
