------------------------------ MODULE Probing ------------------------------
(***************************************************************************)
(* What a driver of vidix/drivers/ makes of the cards of a machine: the    *)
(* tables of chips, vixProbe, the type in vixGetCapability, the answers of *)
(* vixQueryFourcc and the formats vixConfigPlayback takes.  A card is a    *)
(* record [vendor, chip, io]; a chip stands for the rows of a table that   *)
(* are treated alike, io for the bit of the command register that enables  *)
(* its ports.                                                              *)
(***************************************************************************)
EXTENDS Integers, Sequences, FiniteSetsExt

\* The tables of chips.
Nv04Chips == {"riva128", "tnt", "tnt2", "aladdin"}
Nv10Chips == {"geforce256", "geforce2", "geforce4mx"}
Nv20Chips == {"geforce3", "geforce4"}
Nv30Chips == {"geforcefx", "geforce6", "geforce7"}

Rage128Chips == {"rage128", "rage128pro", "mobility3"}
R100Chips    == {"r100", "igp320"}
R200Chips    == {"r200", "rv250", "igp330", "igp7000"}
R300Chips    == {"r300", "r400", "igp9100", "rs300m"}
R500Chips    == {"r500", "r500pcie"}
R600Chips    == {"r600", "r700"}
Mach64Chips  == {"mach64vt", "ragepro", "rageagp"}

OldS3Chips  == {"trio64", "virge", "trio3d"}
SavageChips == {"savage3d", "savage4", "supersavage", "savage2000"}
SisChips    == {"300", "315", "330", "540", "550", "630", "650"}
BladeChips  == {"i7", "i1", "xp"}
G400Chips   == {"g400", "g550"}
G200Chips   == {"g200", "g200agp"}
Pm2Cards    == {<<"3dlabs", "permedia2">>, <<"texas", "permedia2">>}
Pm3Chips    == {"r3"}
ViaChips    == {"cle266", "km400"}
IvtvChips   == {"itvc15"}

Ati      == {"radeon", "rage128", "radeonhd", "mach64"}
AllKinds == Ati \cup {"nvidia", "s3", "savage", "mga", "mga_crtc2", "pm2", "pm3", "sis",
                      "cyberblade", "unichrome", "ivtv", "genfb"}

Vendors(k) ==
  CASE k \in Ati                  -> {"ati"}
    [] k = "nvidia"               -> {"nvidia", "nvidia2"}
    [] k \in {"s3", "savage"}     -> {"s3"}
    [] k \in {"mga", "mga_crtc2"} -> {"matrox"}
    [] k = "pm3"                  -> {"3dlabs"}
    [] k = "sis"                  -> {"sis"}
    [] k = "cyberblade"           -> {"trident"}
    [] k = "unichrome"            -> {"via2"}
    [] k = "ivtv"                 -> {"internext"}
    [] OTHER                      -> {}

\* The frame buffer of CRTC2 is on the newer cards only.
Chips(k) ==
  CASE k = "nvidia"     -> Nv04Chips \cup Nv10Chips \cup Nv20Chips \cup Nv30Chips
    [] k = "radeon"     -> R100Chips \cup R200Chips \cup R300Chips
    [] k = "rage128"    -> Rage128Chips
    [] k = "radeonhd"   -> R500Chips \cup R600Chips
    [] k = "mach64"     -> Mach64Chips
    [] k = "s3"         -> OldS3Chips \cup SavageChips
    [] k = "savage"     -> SavageChips
    [] k = "mga"        -> G400Chips \cup G200Chips
    [] k = "mga_crtc2"  -> G400Chips
    [] k = "pm3"        -> Pm3Chips
    [] k = "sis"        -> SisChips
    [] k = "cyberblade" -> BladeChips
    [] k = "unichrome"  -> ViaChips
    [] k = "ivtv"       -> IvtvChips
    [] OTHER            -> {}

\* find_chip.
Knows(k, c) ==
  IF k = "pm2" THEN <<c.vendor, c.chip>> \in Pm2Cards
  ELSE c.vendor \in Vendors(k) /\ c.chip \in Chips(k)

-----------------------------------------------------------------------------
(***************************************************************************)
(* vixProbe: the number of the card a driver settles on, or 0.             *)
(***************************************************************************)

Known(k, m)  == {i \in DOMAIN m.cards : Knows(k, m.cards[i])}
First(cards) == IF cards = {} THEN 0 ELSE Min(cards)

\* An ATI driver that is forced takes any card of ATI.
AtiCards(k, m, force) ==
  IF force THEN {i \in DOMAIN m.cards : m.cards[i].vendor = "ati"} ELSE Known(k, m)

RadeonProbe(k, m, force) == First(AtiCards(k, m, force))
RadeonHdProbe(m, force)  == First(AtiCards("radeonhd", m, force))
Mach64Probe(m, force)    == First(AtiCards("mach64", m, force))

\* Only this driver minds that a card is disabled.
S3Probe(m) == First({i \in Known("s3", m) : m.cards[i].io})

NvidiaProbe(m)     == First(Known("nvidia", m))
SavageProbe(m)     == First(Known("savage", m))
MgaProbe(k, m)     == First(Known(k, m))
Pm2Probe(m)        == First(Known("pm2", m))
Pm3Probe(m)        == First(Known("pm3", m))
CyberbladeProbe(m) == First(Known("cyberblade", m))
UnichromeProbe(m)  == First(Known("unichrome", m))

\* The loop does not stop at a card it knows.
SisProbe(m) == IF Known("sis", m) = {} THEN 0 ELSE Max(Known("sis", m))

\* The YUV device that goes with a frame buffer: the first that opens, from the number
\* of the frame buffer down; videos are the numbers of those that are there.
YuvDevice(fb, videos) ==
  LET there == {n \in videos : n <= fb}
  IN  IF there = {} THEN -1 ELSE Max(there)

\* The frame buffer, which FRAMEBUFFER names, has to open and to answer.
IvtvProbe(m) ==
  IF m.fb >= 0 /\ m.answers /\ YuvDevice(m.fb, m.videos) >= 0
  THEN First(Known("ivtv", m)) ELSE 0

GenfbProbe == 0

Probe(k, m, force) ==
  IF ~m.scans THEN 0
  ELSE CASE k \in {"radeon", "rage128"}  -> RadeonProbe(k, m, force)
         [] k = "radeonhd"              -> RadeonHdProbe(m, force)
         [] k = "mach64"                -> Mach64Probe(m, force)
         [] k = "s3"                    -> S3Probe(m)
         [] k = "nvidia"                -> NvidiaProbe(m)
         [] k = "savage"                -> SavageProbe(m)
         [] k \in {"mga", "mga_crtc2"}  -> MgaProbe(k, m)
         [] k = "pm2"                   -> Pm2Probe(m)
         [] k = "pm3"                   -> Pm3Probe(m)
         [] k = "cyberblade"            -> CyberbladeProbe(m)
         [] k = "unichrome"             -> UnichromeProbe(m)
         [] k = "sis"                   -> SisProbe(m)
         [] k = "ivtv"                  -> IvtvProbe(m)
         [] k = "genfb"                 -> GenfbProbe

-----------------------------------------------------------------------------
(***************************************************************************)
(* What a driver keeps of the chip besides pci_info.                       *)
(***************************************************************************)

SisEngine(chip) == IF chip \in {"300", "540", "630"} THEN "300" ELSE "315"

\* Of some chips the card is asked for a second overlay, if its ports open: the bits of
\* CR5C that stay set when they are cleared, those that take being set, a bit of CR5F.
SisTwoOverlays(chip, cr) ==
  \/ chip \in {"300", "630", "330", "550"}
  \/ /\ SisEngine(chip) = "315" /\ cr.ports
     /\ cr.fuse \/ (cr.kept /\ ~cr.taken)

\* The flags of a Radeon, a chip it does not know taken for the first of them.
RadeonFlags(chip) ==
  [family     |-> CASE chip \in R200Chips -> 2
                    [] chip = "r400"      -> 4
                    [] chip \in R300Chips -> 3
                    [] OTHER              -> 1,
   shift      |-> chip \notin {"r200", "igp330"} \cup (R300Chips \ {"igp9100"}),
   integrated |-> chip \in {"igp320", "igp330", "igp7000", "igp9100", "rs300m"}]

\* Looked up by vixInit; one of the TNT2 chips is listed with the GeForce FX.
NvidiaArch(chip) ==
  CASE chip = "riva128"                 -> 3
    [] chip \in Nv04Chips \ {"aladdin"} -> 4
    [] chip \in Nv10Chips               -> 16
    [] chip \in Nv20Chips               -> 32
    [] OTHER                            -> 48

\* Variant: a second overlay found on one card is remembered for the next one.
RememberStale(k, old, chip, cr) ==
  CASE k = "sis"    -> [engine |-> SisEngine(chip), two |-> old.two \/ SisTwoOverlays(chip, cr)]
    [] k = "mach64" -> [agp |-> IF chip \in Mach64Chips THEN chip = "rageagp" ELSE old.agp]
    [] k = "radeon" -> RadeonFlags(chip)
    [] k = "nvidia" -> [arch |-> NvidiaArch(chip)]
    [] OTHER        -> old

\* What the statics of a driver become when it takes a card.
Remember(k, old, chip, cr) ==
  CASE k = "sis"    -> [engine |-> SisEngine(chip), two |-> SisTwoOverlays(chip, cr)]
    [] k = "mach64" -> [agp |-> IF chip \in Mach64Chips THEN chip = "rageagp" ELSE old.agp]
    [] k = "radeon" -> RadeonFlags(chip)
    [] k = "nvidia" -> [arch |-> NvidiaArch(chip)]
    [] OTHER        -> old

\* Before the first probe.
Blank == [two |-> FALSE, agp |-> FALSE]

\* The SiS driver takes one card after another, each time over the one before.
SisTaken(m) ==
  LET taken[n \in 0 .. Len(m.cards)] ==
        IF n = 0 THEN Blank
        ELSE IF Knows("sis", m.cards[n])
        THEN Remember("sis", taken[n - 1], m.cards[n].chip, m.cr)
        ELSE taken[n - 1]
  IN  taken[Len(m.cards)]

AfterProbe(k, m, force) ==
  IF k = "sis" THEN SisTaken(m)
  ELSE Remember(k, Blank, m.cards[Probe(k, m, force)].chip, m.cr)

-----------------------------------------------------------------------------
(***************************************************************************)
(* Capabilities and formats.                                               *)
(***************************************************************************)

Types(k) == IF k \in {"radeon", "rage128", "radeonhd"} THEN {"output", "fx"} ELSE {"output"}

RadeonFormats == {"Y800", "YVU9", "IF09", "YV12", "I420", "IYUV", "UYVY", "YUY2", "YVYU",
                  "RGB15", "BGR15", "RGB16", "BGR16", "RGB32", "BGR32"}
RadeonHdFormats == {"RGB16", "BGR16", "RGB32", "BGR32"}
Mach64Planar == {"YV12", "I420", "YVU9", "IYUV"}
Mach64Packed == {"YUY2", "UYVY", "BGR15", "BGR16", "BGR32"}
SavageFormats == {"UYVY", "YUY2", "Y211", "RGB15", "RGB16", "BGR24", "BGR32"}
S3Formats(chip) ==
  {"YUY2", "Y211", "BGR15", "BGR16", "BGR24", "BGR32"}
    \cup (IF chip \in SavageChips THEN {"UYVY"} ELSE {})
SisFormats == {"YV12", "I420", "UYVY", "YUY2", "RGB15", "RGB16"}
UnichromeFormats == {"YV12", "I420", "UYVY", "YVYU", "YUY2", "BGR15", "BGR16", "BGR32"}
CyberbladeFormats == {"YUY2", "YV12", "I420", "YVU9", "BGR16"}
Pm2Formats == {"YUY2"}
Pm3Formats == {"YUY2", "UYVY"}
NvidiaFormats == {"UYVY", "YUY2"}
IvtvFormats == {"YV12"}
MgaPlanar == {"YV12", "IYUV", "I420"}
MgaPacked == {"YUY2", "UYVY"}

\* vixQueryFourcc: a G200 is said to take NV12 instead of three planes.
MgaQuery(chip) == MgaPacked \cup (IF chip \in G200Chips THEN {"NV12"} ELSE MgaPlanar)

\* The formats a driver says it can show with its card; planar is what the Mach64
\* driver found out in vixInit.
Offers(k, chip, planar) ==
  CASE k \in {"radeon", "rage128"} -> RadeonFormats
    [] k = "radeonhd"   -> RadeonHdFormats
    [] k = "mach64"     -> Mach64Packed \cup (IF planar THEN Mach64Planar ELSE {})
    [] k = "savage"     -> SavageFormats
    [] k = "s3"         -> S3Formats(chip)
    [] k = "sis"        -> SisFormats
    [] k = "unichrome"  -> UnichromeFormats
    [] k = "cyberblade" -> CyberbladeFormats
    [] k = "pm2"        -> Pm2Formats
    [] k = "pm3"        -> Pm3Formats
    [] k = "nvidia"     -> NvidiaFormats
    [] k = "ivtv"       -> IvtvFormats
    [] k \in {"mga", "mga_crtc2"} -> MgaQuery(chip)
    [] OTHER            -> {}

\* The formats vixConfigPlayback has a layout for; most drivers ask the function they
\* answer with.
Configures(k) ==
  IF k \in {"mga", "mga_crtc2"} THEN MgaPlanar \cup MgaPacked
  ELSE UNION {Offers(k, chip, TRUE) : chip \in Chips(k) \cup {"permedia2"}}
=============================================================================
