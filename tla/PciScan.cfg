\* One program asks the kernel, another walks the buses with the ports and may be
\* killed; 76 machines, some of more functions than the second one's list holds, one of
\* more buses than its table.
SPECIFICATION MCSpec
CONSTANTS
  ports = ports
  helper = helper
  file = file
  Procs = {helper, ports}
  Via <- ByHelperAndPorts
  Machines <- Full
  Slots = 2
  Functions = 3
  MaxDevices = 3
  MaxBuses = 3
  Kills = {ports}
  KernelPorts = FALSE
  Configs = {ports, helper}
  Values = {0, 1}
  MaxAccesses = 2
INVARIANTS Complete Faithful
PROPERTY Ends
