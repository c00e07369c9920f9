SPECIFICATION ResourceSpec
CONSTANTS
  Blocks = 8
  Base = 1
  Payloads = {0, 1, 2}
  Alignments = {1, 4}
  SizeT = 64
  Vecs = {v1, v2}
  Values = {"a", "b"}
  Ranges <- MCRanges
  Buffers = 3
  HeapCells = 5
  MinGrow = 1
  MaxSize = 3
  Handles = {h1, h2}
  Coros = {c1, c2}
  MaxFd = 3
  MaxBacklog = 2
SYMMETRY Symmetry
INVARIANTS Tiling FreeListExact Coalesced UsedIsSum SoleOwner NothingElseLeaks BuffersOwned
PROPERTIES KeepsPromise KeepsItems
VIEW MemoryView
