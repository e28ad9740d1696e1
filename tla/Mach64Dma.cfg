\* Transfers with any flags; the program locked one of its two sources itself.
SPECIFICATION Spec
CONSTANTS
  Player = player
  Threads = {player}
  Frames = {f1, f2, f3, f4}
  None = None
  Wild = Wild
  PageSize = 4
  Buffers <- AllBuffers
  Sources <- AllSources
  Desc <- Tables
  Mapped <- AllPages
  Pinned <- OfLarge
  Flags <- AnyFlags
  Smp = FALSE
SYMMETRY FrameSymmetry
INVARIANTS LocksBalanced FreeMeansIdle
PROPERTY ListHolds
