\* A multiprocessor, two devices on one line, copy_to_user may fail.
SPECIFICATION Spec
CONSTANTS
  Procs = {p1, p2}
  NoProc = NoProc
  d1 = d1
  d2 = d2
  i1 = i1
  i2 = i2
  Irqs = {i1}
  Devs = {d1, d2}
  NoDev = NoDev
  IrqOf <- SharedLine
  SMP = TRUE
  CopyFaults = TRUE
  MaxCount = 2
  MaxReg = 1
SYMMETRY ProcSymmetry
INVARIANTS TypeOK NoLostWakeup PendingAccounted EntryMatchesKernel LockHasHolder
PROPERTY ImplementsChannel
