\* One program walks the buses with the files of /proc; a card of two functions.
SPECIFICATION ConfigSpec
CONSTANTS
  ports = ports
  helper = helper
  file = file
  Procs = {file}
  Via <- ByFile
  Machines <- Small
  Slots = 2
  Functions = 3
  MaxDevices = 10
  MaxBuses = 3
  Kills = {}
  KernelPorts = FALSE
  Configs = {}
  Values = {0}
  MaxAccesses = 0
INVARIANT Faithful
