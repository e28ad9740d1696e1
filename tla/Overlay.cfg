\* Thirteen drivers on desktops of 16 and 32 bits.
SPECIFICATION Spec
CONSTANTS
  Drivers = {"cyberblade", "sis", "unichrome", "pm2", "pm3", "nvidia", "mga", "s3",
             "savage", "mach64", "mach64_old", "radeon", "rage128", "radeonhd"}
  Depths = {16, 32}
  Colours <- MCColours
  Desk = 7
  None = None
INVARIANTS OverlayFollows SettingsFollow DeskBack
