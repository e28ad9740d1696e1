\* Each driver on one of six systems, alone or beside others.
SPECIFICATION Spec
CONSTANTS
  Drivers = {"cyberblade", "ivtv", "mach64", "mga", "nvidia", "pm2", "pm3", "radeon",
             "radeonhd", "s3", "savage", "sis", "unichrome"}
  Worlds = {"beside", "dma", "bare", "unmapped", "leaky", "spent"}
  Works <- MCWorks
  Uses <- MCUses
  Several = {"beside", "dma"}
  Clean = {"beside", "dma", "bare"}
  Fds = {3, 4, 5, 6, 7}
  Reserve = 4
  Width = 8
  MaxLive = 1
INVARIANTS ResourcesHeld NothingLeft
PROPERTY AppUnharmed
