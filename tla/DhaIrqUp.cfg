\* One processor, two processes, one device; liveness under fairness.
SPECIFICATION FairSpec
CONSTANTS
  Procs = {p1, p2}
  NoProc = NoProc
  d1 = d1
  d2 = d2
  i1 = i1
  i2 = i2
  Irqs = {i1}
  Devs = {d1}
  NoDev = NoDev
  IrqOf <- OneDevice
  SMP = FALSE
  CopyFaults = FALSE
  MaxCount = 2
  MaxReg = 1
INVARIANTS NoSleepWithIrqsOff UnloadClean
PROPERTIES CallsReturn PendingTaken
