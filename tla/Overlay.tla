------------------------------- MODULE Overlay -------------------------------
(***************************************************************************)
(* The overlay of a card under one of thirteen drivers, as a program uses  *)
(* it through vixInit, vixConfigPlayback, vixPlaybackOn, vixPlaybackOff,   *)
(* vixPlaybackFrameSelect, vixSetGrKeys, vixPlaybackSetEq,                 *)
(* vixPlaybackSetDeint and vixDestroy: settings made before, during and    *)
(* between movies have to be on the card while a movie is shown.           *)
(***************************************************************************)
EXTENDS OverlayCards

CONSTANTS Drivers, Depths, Desk

\* The drivers this module describes.
Known == {"cyberblade", "sis", "unichrome", "pm2", "pm3", "nvidia", "mga", "s3",
          "savage", "mach64", "mach64_old", "radeon", "rage128", "radeonhd"}

ASSUME DriversAssumption == Drivers \subseteq Known
ASSUME DeskAssumption    == Depths \subseteq {16, 32} /\ Desk \in Int

VARIABLES
  driver,   \* the driver the program loads
  phase,    \* "none", "loaded", "ready" (configured), "on" or "off"
  card,
  drv,      \* the driver's memory
  asked,    \* the last key request the driver accepted, or None
  wish,     \* the settings the program made, for the parts of eq and "deint"
  stops     \* vixPlaybackOff: "never", "before" or "since" the last configuration

vars == <<driver, phase, card, drv, asked, wish, stops>>

Blenders  == {"radeon", "rage128", "radeonhd"}       \* VID_CAP_BLEND
NoKeys    == {"pm2"}                                 \* no vixSetGrKeys
NoEq      == {"pm2", "pm3"}                          \* no vixPlaybackSetEq
Mute      == {"savage", "unichrome", "radeonhd"}     \* ignore vixPlaybackSetEq
Deinterlacers == {"radeon", "rage128"}

Requests(d) ==
  [op : {"false", "true"} \cup (IF d \in Blenders THEN {"alpha"} ELSE {}), colour : Colours]

Values == {0, 1}

Init ==
  /\ driver \in Drivers
  /\ \E depth \in Depths :
       card = [depth |-> depth, lit |-> FALSE, whole |-> FALSE, cmp |-> "desk",
               key |-> Desk, eq |-> Neutral, deint |-> FALSE]
  /\ phase = "none"
  /\ drv = Memory /\ asked = None /\ stops = "never"
  /\ wish = [eq |-> Neutral, deint |-> TRUE]

-----------------------------------------------------------------------------
(***************************************************************************)
(* What a call leaves in the driver's memory and on its card.              *)
(***************************************************************************)

\* vixInit; the memory of a driver that is loaded again is fresh.
InitMemory(d, c) ==
  CASE d \in {"cyberblade", "pm3", "nvidia", "mach64", "mach64_old", "radeon", "rage128"} ->
         Saving(c, Memory)
    [] d = "savage" -> [Memory EXCEPT !.enable = TRUE]
    [] OTHER        -> Memory

InitCard(d, c) ==
  CASE d = "s3"     -> S3StreamsOn(c)
    [] d = "savage" -> SavageStreamsOn(c)
    [] d \in {"mach64", "mach64_old"} -> Mach64Init(c)
    [] d \in {"radeon", "rage128"}    -> radeon_vid_make_default(c)
    [] OTHER        -> c

ConfigMemory(d, c, m) ==
  CASE d = "mga"    -> [mga_save(c, m) EXCEPT !.enable = TRUE, !.fresh = TRUE]
    [] d = "pm3"    -> [m EXCEPT !.enable = FALSE]
    [] d = "s3"     -> [m EXCEPT !.eq = Neutral]
    [] d \in {"savage", "nvidia"} -> [m EXCEPT !.fresh = TRUE]
    [] OTHER        -> m

\* m is what ConfigMemory gives.
ConfigCard(d, c, m) ==
  CASE d = "cyberblade" -> CyberbladeConfig(c, m)
    [] d = "sis"        -> SisConfig(c, m)
    [] d = "unichrome"  -> UnichromeConfig(c)
    [] d = "pm2"        -> Pm2Config(c)
    [] d = "pm3"        -> Setup(c)
    [] d = "mga"        -> MgaConfig(c, m)
    [] d \in {"s3", "savage", "nvidia"} -> Spoilt(c)
    [] d \in {"mach64", "mach64_old"}   -> mach64_vid_stop_video(d, c)
    [] d \in {"radeon", "rage128"}      -> radeon_vid_stop_video(c)
    [] d = "radeonhd"   -> radeonhd_stop_video(c)

\* vid_overlay_on of the Matrox driver is never set: its vixPlaybackOn writes
\* nothing.
OnMemory(d, m) ==
  CASE d = "pm3"    -> [m EXCEPT !.enable = TRUE]
    [] d = "savage" -> [m EXCEPT !.enable = TRUE, !.fresh = FALSE]
    [] OTHER        -> m

OnCard(d, c, m) ==
  CASE d \in {"cyberblade", "sis", "unichrome"} -> Lit(c)
    [] d = "pm3"      -> Pm3Control(c, OnMemory(d, m))
    [] d = "nvidia"   -> rivatv_overlay_start(c, m)
    [] d = "s3"       -> S3DisplayVideoOld(c)
    [] d = "savage"   -> SavageDisplayVideoOld(c, m)
    [] d \in {"mach64", "mach64_old"} -> mach64_vid_display_video(d, c)
    [] d \in {"radeon", "rage128"}    -> radeon_vid_display_video(d, c, m)
    [] d = "radeonhd" -> radeonhd_display_video(c)
    [] OTHER          -> c

\* Variant: the Savage driver does not note that its streams are off.
OffMemoryStale(d, c, m) ==
  CASE d = "mga" -> [mga_save(c, m) EXCEPT !.enable = FALSE, !.fresh = FALSE]
    [] d = "pm3" -> [m EXCEPT !.enable = FALSE]
    [] OTHER     -> m

OffMemory(d, c, m) ==
  CASE d = "mga" -> [mga_save(c, m) EXCEPT !.enable = FALSE, !.fresh = FALSE]
    [] d \in {"pm3", "savage"} -> [m EXCEPT !.enable = FALSE]
    [] OTHER     -> m

OffCard(d, c, m) ==
  CASE d \in {"cyberblade", "pm3"} -> Dark(c)
    [] d = "sis"       -> close_overlay(c)
    [] d = "unichrome" -> UnichromeOff(c)
    [] d = "pm2"       -> Pm2Off(c)
    [] d = "nvidia"    -> rivatv_overlay_stop(c, m)
    [] d = "mga"       -> mga_vid_write_regs(c, OffMemory(d, c, m))
    [] d = "s3"        -> S3StreamsOff(c)
    [] d = "savage"    -> SavageStreamsOff(c)
    [] d \in {"mach64", "mach64_old"} -> mach64_vid_stop_video(d, c)
    [] d \in {"radeon", "rage128"}    -> radeon_vid_stop_video(c)
    [] d = "radeonhd"  -> radeonhd_stop_video(c)

KeyMemory(d, c, m, r) ==
  CASE d = "nvidia" -> NvidiaRequest(m, r)
    [] d = "pm3"    -> Pm3Request(m, r)
    [] d = "mga"    -> [mga_save(c, m) EXCEPT !.req = r]
    [] OTHER        -> [m EXCEPT !.req = r]

KeyCard(d, c, m) ==
  CASE d = "cyberblade" -> CyberbladeSetGrKeys(c, m)
    [] d = "sis"        -> set_colorkey(c, m)
    [] d = "unichrome"  -> UnichromeSetGrKeys(c, m)
    [] d = "pm3"        -> Pm3SetGrKeys(c, m)
    [] d = "nvidia"     -> NvidiaSetGrKeys(c, m)
    [] d = "mga"        -> mga_vid_write_regs(c, m)
    [] d = "s3"         -> S3SetColorKeyOld(c, m)
    [] d = "savage"     -> SavageSetColorKeyOld(c, m)
    [] d \in {"mach64", "mach64_old"} -> Mach64SetGrKeys(c, m)
    [] d \in {"radeon", "rage128"}    -> radeon_key(d, c, m)
    [] d = "radeonhd"   -> radeonhd_set_gr_key(c, m)

EqCard(d, c, m) ==
  CASE d = "cyberblade" -> CyberbladeSetEq(c, m)
    [] d = "sis"        -> SisSetEq(c, m)
    [] d = "s3"         -> S3SetColorOld(c, m)
    [] d = "mga"        -> MgaSetEq(c, m)
    [] d \in {"mach64", "mach64_old"} -> Mach64SetEq(d, c, m)
    [] d \in {"radeon", "rage128"}    -> radeon_set_transform(c, m)
    [] OTHER            -> c       \* nvidia: until the overlay is started

DestroyCard(d, c, m) ==
  CASE d = "cyberblade" -> CyberbladeDestroy(c, m)
    [] d = "pm3"        -> KeyBack(c, m)
    [] d = "mga"        -> MgaDestroy(c, [m EXCEPT !.enable = FALSE, !.fresh = FALSE])
    [] d \in {"mach64", "mach64_old", "radeon", "rage128"} -> KeysBack(c, m)
    [] OTHER            -> c

-----------------------------------------------------------------------------
(***************************************************************************)
(* The calls.  A program turns playback off before it configures another   *)
(* movie or closes the driver.                                             *)
(***************************************************************************)
vixInit ==
  /\ phase = "none" /\ phase' = "loaded"
  /\ drv' = InitMemory(driver, card)
  /\ card' = InitCard(driver, card)
  /\ asked' = None /\ stops' = "never"
  /\ wish' = [eq |-> Neutral, deint |-> TRUE]
  /\ UNCHANGED driver

vixConfigPlayback ==
  /\ phase \notin {"none", "on"} /\ phase' = "ready"
  /\ drv' = ConfigMemory(driver, card, drv)
  /\ card' = ConfigCard(driver, card, drv')
  /\ stops' = IF stops = "never" THEN stops ELSE "before"
  /\ UNCHANGED <<driver, asked, wish>>

vixPlaybackOn ==
  /\ phase \in {"ready", "off"} /\ phase' = "on"
  /\ drv' = OnMemory(driver, drv)
  /\ card' = OnCard(driver, card, drv)
  /\ UNCHANGED <<driver, asked, wish, stops>>

vixPlaybackOff ==
  /\ phase = "on" /\ phase' = "off"
  /\ drv' = OffMemory(driver, card, drv)
  /\ card' = OffCard(driver, card, drv)
  /\ stops' = "since"
  /\ UNCHANGED <<driver, asked, wish>>

\* The drivers whose vixPlaybackFrameSelect writes more than an address; the
\* texture of pm2 is drawn where the unit is on.
vixPlaybackFrameSelect ==
  /\ phase = "on"
  /\ card' = CASE driver = "nvidia" -> rivatv_overlay_start(card, drv)
               [] driver = "mga"    -> [card EXCEPT !.lit = drv.enable]
               [] OTHER             -> card
  /\ UNCHANGED <<driver, phase, drv, asked, wish, stops>>

vixSetGrKeys(r) ==
  /\ phase # "none" /\ driver \notin NoKeys
  /\ drv' = KeyMemory(driver, card, drv, r)
  /\ card' = KeyCard(driver, card, drv')
  /\ asked' = IF AlphaRefused(driver, card, r) THEN None ELSE r
  /\ UNCHANGED <<driver, phase, wish, stops>>

vixPlaybackSetEq(p, v) ==
  /\ phase # "none" /\ driver \notin NoEq \cup Mute
  /\ drv' = [drv EXCEPT !.eq[p] = v]
  /\ card' = EqCard(driver, card, drv')
  /\ wish' = [wish EXCEPT !.eq[p] = v]
  /\ UNCHANGED <<driver, phase, asked, stops>>

vixPlaybackSetDeint(b) ==
  /\ phase # "none" /\ driver \in Deinterlacers
  /\ drv' = [drv EXCEPT !.deint = b]
  /\ card' = RadeonSetDeint(card, drv')
  /\ wish' = [wish EXCEPT !.deint = b]
  /\ UNCHANGED <<driver, phase, asked, stops>>

vixDestroy ==
  /\ phase \notin {"none", "on"} /\ phase' = "none"
  /\ card' = DestroyCard(driver, card, drv)
  /\ drv' = Memory
  /\ UNCHANGED <<driver, asked, wish, stops>>

Next ==
  \/ vixInit \/ vixConfigPlayback \/ vixPlaybackOn \/ vixPlaybackOff
  \/ vixPlaybackFrameSelect \/ vixDestroy
  \/ \E r \in Requests(driver) : vixSetGrKeys(r)
  \/ \E p \in Parts, v \in Values : vixPlaybackSetEq(p, v)
  \/ \E b \in BOOLEAN : vixPlaybackSetDeint(b)

Spec == Init /\ [][Next]_vars

-----------------------------------------------------------------------------
(***************************************************************************)
(* Properties.                                                             *)
(***************************************************************************)

\* Restarts the drivers are not written for: the Matrox and Permedia2 drivers,
\* which set up everything in vixConfigPlayback, stay dark after
\* vixPlaybackOff until it is called again, the Savage driver shows an eighth of
\* the stride and the Unichrome driver runs with a small FIFO.  The S3 driver
\* turns its streams on in vixInit and never again.
Lost ==
  \/ stops = "since" /\ driver \in {"mga", "pm2", "savage", "unichrome"}
  \/ stops # "never" /\ driver = "s3"

\* A driver that lights the overlay again in vixSetGrKeys.
Relights == {"nvidia"}

\* While playback is on the overlay is enabled and set up for the movie, through
\* any settings, restarts and movies before it; after vixPlaybackOff it is dark.
OverlayFollows ==
  /\ phase = "on" /\ ~Lost => card.lit /\ card.whole
  /\ phase = "off" /\ driver \notin Relights => ~card.lit

\* The colour has all bits of the key.
HasBits(colour, key) ==
  \A bit \in {1, 2, 4, 8, 16, 32, 64, 128} :
    (key \div bit) % 2 = 1 => (colour \div bit) % 2 = 1

\* Where the desktop has this colour the video shows.
Through(colour) ==
  CASE card.cmp = "always" -> TRUE
    [] card.cmp = "key"    -> Painted(card, colour) = card.key
    [] card.cmp = "bits"   -> HasBits(Painted(card, colour), card.key)
    [] OTHER               -> FALSE

\* How a card of these drivers widens a component of a 16 bit desktop to the
\* eight bits they write is not in the source; the last one programs results
\* of the comparison instead of a key.
Unknown ==
  \/ card.depth = 16 /\ driver \in {"sis", "pm3"}
  \/ driver = "radeonhd"

\* Requests that are not carried out as made: black disables the key of the S3
\* and Savage drivers and masks every bit of a Radeon's, which compares the bits
\* the key has set; S3 and Savage take the low bits of a component for a desktop of
\* 16 bits, Unichrome for every desktop; nVidia sets the highest bit of red in the key for
\* a desktop of 16 bits, so that black and dark reds are not keyed on there; Cyberblade
\* keys whatever is asked.
Misread(r) ==
  \/ r.op = "false" /\ driver = "cyberblade"
  \/ r.op = "true" /\
       \/ driver \in {"s3", "savage"} /\ r.colour = 0
       \/ driver \in {"s3", "savage", "unichrome"} /\ LowBits(card, r.colour) # Painted(card, r.colour)
       \/ driver = "unichrome" /\ card.depth = 32
       \/ driver = "radeon" /\ r.colour # 255
       \/ driver = "nvidia" /\ card.depth = 16 /\ r.colour < 128

\* While playback is on the video shows exactly where the program asked for it,
\* as far as the desktop tells colours apart:
\* the last key request that was accepted is the one in force, made before or
\* after vixConfigPlayback, before this movie or an earlier one.
KeyFollows ==
  phase = "on" /\ ~Lost /\ asked # None /\ ~Unknown /\ ~Misread(asked) =>
    CASE asked.op = "true"  ->
           \A colour \in Colours :
             Through(colour) <=> Painted(card, colour) = Painted(card, asked.colour)
      [] asked.op = "false" -> card.cmp = "always"
      [] asked.op = "alpha" -> card.cmp = "alpha"

\* Drivers that carry brightness and contrast over from one movie to the next.
\* The S3 driver forgets them in vixConfigPlayback, the Rage128 driver and the one
\* for old Mach64 cards in vixPlaybackOn. The nVidia driver takes them over only when it
\* next starts the overlay, and nothing is said of it here.
Remembering == {"cyberblade", "sis", "mga", "mach64", "radeon"}

\* While playback is on the card has the settings the program made last, for
\* whichever movie it made them.
EqFollows ==
  phase = "on" =>
    /\ driver \in Remembering => card.eq = wish.eq
    /\ driver \in Deinterlacers => card.deint = wish.deint

\* What the program set is in force: the key and the colours.
SettingsFollow == KeyFollows /\ EqFollows

\* Drivers that give the desktop its colour key back; the second set also the
\* mode of keying.
Savers     == {"cyberblade", "pm3"}
FullSavers == {"mga", "mach64", "mach64_old", "radeon", "rage128"}
\* Drivers that can leave the overlay enabled: s3 and savage enable it in vixInit,
\* pm2 in vixConfigPlayback and nvidia in vixSetGrKeys.
Leavers    == {"s3", "savage", "pm2", "nvidia"}

\* A desktop that keys its own overlay finds, after vixDestroy, the key it had
\* before vixInit, however often the driver was used, and the overlay dark.
DeskBack ==
  phase = "none" =>
    /\ driver \in Savers \cup FullSavers => card.key = Desk
    /\ driver \in FullSavers => card.cmp = "desk"
    /\ driver \notin Leavers => ~card.lit
=============================================================================
