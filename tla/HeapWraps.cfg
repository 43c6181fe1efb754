CONSTANTS
  Threads = {t1, t2}
  Size = 3
  Word = 8
  Wide = 32
  Base = 10
  MaxGets = 8
  Capacity = 1
  Serialized = TRUE
  DoubleFrees = FALSE
  Null = Null
  ObjectSizes = {1, 2, 4}
  ChunkSize = 8
  CtxSize = 4
  NodeSize = 2
  Slack = 2
  Short = 16
  MaxNodes = 5
  MaxBlocks = 10
  Deep = FALSE
  Blocks = {b1, b2}
  Scratch = 2
  ScratchSize = 2
  Sizes = {1, 3}
  Unit = 2
  Limits = {0, 4}
  LongWord = 64
  SlotCount = 2
  Heap = {b1, b2}
  MaxNest = 1
SPECIFICATION HeapOnly
CHECK_DEADLOCK FALSE
PROPERTY NonWrapped
