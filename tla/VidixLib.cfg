\* The program opens no driver that another stream uses.
SPECIFICATION Spec
CONSTANTS
  Streams = {s1, s2}
  mga = mga
  crtc2 = crtc2
  radeon = radeon
  hd = hd
  s3 = s3
  savage = savage
  sis = sis
  ivtv = ivtv
  other = other
  Drivers = {mga, crtc2, radeon, hd, s3, savage, sis, ivtv, other}
  NoDriver = NoDriver
  Kind <- MCKind
  Machines <- MCMachines
  Loads <- MCLoads
  Caps <- MCCaps
  Version <- MCVersion
  Viable <- MCViable
  HasInit <- MCHasOptional
  HasDestroy <- MCHasOptional
  Sharing = FALSE
SYMMETRY StreamSymmetry
INVARIANTS HandlesCounted OpenStreamReady NothingPassedOver DriverFitsCard
PROPERTY DestroyBeforeUnload
