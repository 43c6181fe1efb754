CONSTANTS
  Keys = {k1, k2, k3}
  Data = {d1, d2}
  Elems = {e1, e2, e3}
  Codes = {0, 1, 2, 3}
  MinCount = 1
  Load = 1
  Growth = 1
  Bytes = {d1, d2}
  Chunks = {e1, e2, e3}
  ChunkSize = 2
  MaxSize = 5
  Size = 7
  NBIT = 3
  NINT = 4
  NPTR = 2
  Null = Null
SPECIFICATION BitvecSpec
PROPERTY GetTellsBit
