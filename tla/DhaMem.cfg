\* One processor, two threads, buffers that start on a page and share none; one
\* of them runs out of the process.
SPECIFICATION MemFair
CONSTANTS
  Threads = {t1, t2}
  Frames = {f1, f2, f3}
  None = None
  Wild = Wild
  PageSize = 4
  Buffers <- Aligned
  Mapped <- Partly
  Smp = FALSE
INVARIANTS LockedStay NothingLeaked
PROPERTIES TranslationHolds CallsReturn
