\* All drivers, movies one after another and of every width.
SPECIFICATION MCSpec
CONSTANTS
  Drivers = {"cyberblade", "pm2", "pm3", "unichrome", "ivtv", "savage", "sis",
             "nvidia", "s3", "mga", "mach64", "radeon", "radeonhd"}
  Movies <- MCMovies
  Windows <- MCWindows
  Modes <- MCModes
  Asked = {1, 3, 10}
  MaxFrames = 5
  MGA_DEFAULT_FRAMES = 5
  CardMemory = 8388608
  ScreenMemory = 5242880
  MACH64_BUFFERS = 4
  None = None
  Wild = Wild
INVARIANTS FramesInside ShownFollows ProgramFits WindowFilled MovieWhole
