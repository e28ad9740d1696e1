\* The program awaits every transfer once;
\* addresses may have no translation, and the interrupt may be refused.
SPECIFICATION FairSpec
CONSTANTS
  Slots = {s1, s2}
  Srcs = {a, b}
  None = None
  Line = line
  Careful = TRUE
  Faults <- Failing
  MaxTransfers = 3
INVARIANT OwedOnce
PROPERTIES FlagsHonoured ListStable CallReturns
\* A program whose interrupt was refused stops after MaxTransfers transfers.
CHECK_DEADLOCK FALSE
