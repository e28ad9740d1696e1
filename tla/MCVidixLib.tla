----------------------------- MODULE MCVidixLib -----------------------------
(* Instances of VidixLib for TLC: the drivers of Matrox, ATI, S3, SiS and     *)
(* Conexant cards, complete but for one without the optional functions, one   *)
(* that misses an essential function, one of another version and a file that  *)
(* is no driver; and machines that have their cards, several at a time.       *)
EXTENDS VidixLib, TLC

CONSTANTS mga, crtc2, radeon, hd, s3, savage, sis, ivtv, other

MCKind == (mga :> "mga") @@ (crtc2 :> "mga_crtc2") @@ (radeon :> "radeon") @@ (hd :> "radeonhd")
          @@ (s3 :> "s3") @@ (savage :> "savage") @@ (sis :> "sis") @@ (ivtv :> "ivtv")
          @@ (other :> "genfb")
MCCaps == {"output", "fx"}

AllBut(d)     == [e \in Drivers |-> e # d]
MCLoads       == AllBut(other)
MCVersion     == AllBut(savage)
MCViable      == AllBut(crtc2)
MCHasOptional == AllBut(radeon)

Card(vendor, chip, io) == [vendor |-> vendor, chip |-> chip, io |-> io]
Machine(cards, scans, fb, videos) ==
  [cards |-> cards, scans |-> scans, fb |-> fb, videos |-> videos, answers |-> TRUE,
   cr |-> [ports |-> TRUE, fuse |-> FALSE, kept |-> TRUE, taken |-> TRUE]]
Plain(cards) == Machine(cards, TRUE, -1, {})

G200 == Card("matrox", "g200", TRUE)
G550 == Card("matrox", "g550", TRUE)
R200 == Card("ati", "r200", TRUE)
Hd   == Card("ati", "r600", TRUE)
Off  == Card("s3", "virge", FALSE)
S3   == Card("s3", "savage4", TRUE)
Sis1 == Card("sis", "300", TRUE)
Sis2 == Card("sis", "650", TRUE)
Pvr  == Card("internext", "itvc15", TRUE)

MCMachines ==
  {Plain(cards) : cards \in {<<G200, R200>>, <<G550, Off>>, <<Hd, R200>>, <<Off, S3>>,
                             <<Sis1, Sis2>>, <<Pvr>>}}
  \cup {Machine(<<G200>>, FALSE, -1, {}), Machine(<<Pvr, S3>>, TRUE, 1, {0}),
        Machine(<<Pvr>>, TRUE, 0, {1})}

StreamSymmetry == Permutations(Streams)
=============================================================================
