---------------------------- MODULE OverlayCards ----------------------------
(***************************************************************************)
(* What thirteen drivers of vidix/drivers/ write to the overlay of their   *)
(* card: whether it is enabled, whether what it shows is set up, where the *)
(* desktop lets it through and with which colours.  Every operator takes   *)
(* the card c, or the driver's own memory m, and gives what a function of  *)
(* the driver leaves there.                                                *)
(***************************************************************************)
EXTENDS Integers

CONSTANTS None, Colours

\* Where the video shows, as below.
Modes == {"desk", "always", "key", "bits", "alpha", "other"}

ASSUME ColoursAssumption == Colours \subseteq 0 .. 255
ASSUME NoneAssumption    == None \notin [cmp : Modes, key : Int]

(***************************************************************************)
(* The card:                                                               *)
(*   depth  bits per pixel of the desktop, 16 or 32                        *)
(*   lit    the overlay is enabled                                         *)
(*   whole  buffers, format, window and scaling are those of the movie     *)
(*   cmp    where the video shows: "always", where the desktop has the     *)
(*          "key", or all "bits" of the key, by its "alpha", or "other"    *)
(*   key    the colour key, one component standing for three               *)
(*   eq     brightness and contrast, where a driver programs saturation    *)
(*          instead of contrast the latter stands for it                   *)
(*   deint  the adaptive deinterlacer                                      *)
(* The driver's memory: the key request, what vixInit or a later call      *)
(* saved, eq and deint as the program set them, the enable bit and, for    *)
(* pm3, the keying mode the driver keeps, and fresh, a value               *)
(* vixConfigPlayback sets and another call may use up.                     *)
(***************************************************************************)
Parts   == {"brightness", "contrast"}
Neutral == [p \in Parts |-> 0]

Request(op, colour) == [op |-> op, colour |-> colour]

Memory == [req |-> Request("false", 0), saved |-> None, eq |-> Neutral,
           deint |-> TRUE, enable |-> FALSE, fresh |-> FALSE, mode |-> "key"]

\* A colour as the desktop has it in its frame buffer.
Painted(c, colour) == IF c.depth = 16 THEN colour \div 8 ELSE colour

Saving(c, m) == [m EXCEPT !.saved = [cmp |-> c.cmp, key |-> c.key]]
KeyBack(c, m) == [c EXCEPT !.key = m.saved.key]
KeysBack(c, m) == [c EXCEPT !.key = m.saved.key, !.cmp = m.saved.cmp]

Lit(c)   == [c EXCEPT !.lit = TRUE]
Dark(c)  == [c EXCEPT !.lit = FALSE]
Setup(c) == [c EXCEPT !.whole = TRUE]
Spoilt(c) == [c EXCEPT !.whole = FALSE]

Keyed(c, op, colour) ==
  IF op = "true" THEN [c EXCEPT !.cmp = "key", !.key = colour]
  ELSE [c EXCEPT !.cmp = "always"]

-----------------------------------------------------------------------------
(***************************************************************************)
(* cyberblade: vixConfigPlayback turns keying on and programs the key and  *)
(* the equalizer; the operation of a key request is not looked at.         *)
(***************************************************************************)
CyberbladeSetGrKeys(c, m) == [c EXCEPT !.key = Painted(c, m.req.colour)]
CyberbladeSetEq(c, m)     == [c EXCEPT !.eq = m.eq]
CyberbladeConfig(c, m) ==
  Setup(CyberbladeSetEq(CyberbladeSetGrKeys([c EXCEPT !.cmp = "key"], m), m))
CyberbladeDestroy(c, m)   == KeyBack(Dark(c), m)

(***************************************************************************)
(* sis: one overlay, on the first CRT.                                     *)
(***************************************************************************)
init_overlay(c)    == [Dark(c) EXCEPT !.eq = Neutral]
set_colorkey(c, m) == [Keyed(c, m.req.op, 0) EXCEPT !.key = m.req.colour]
SisSetEq(c, m)     == [c EXCEPT !.eq = m.eq]
set_overlay(c)     == Setup(c)
close_overlay(c)   == Dark(c)
SisConfig(c, m)    == set_overlay(SisSetEq(set_colorkey(init_overlay(c), m), m))

(***************************************************************************)
(* unichrome: the key is written as for a desktop of 16 bits, the FIFO is  *)
(* set by vixConfigPlayback and set back by vixPlaybackOff.                *)
(***************************************************************************)
UnichromeSetGrKeys(c, m) == Keyed(c, m.req.op, m.req.colour % 32)
UnichromeConfig(c)       == Setup(Dark(c))
UnichromeOff(c)          == Spoilt(Dark(c))

(***************************************************************************)
(* pm2: no overlay, but a texture unit that is on from vixConfigPlayback   *)
(* to vixPlaybackOff.                                                      *)
(***************************************************************************)
Pm2Config(c) == Setup(Lit(c))
Pm2Off(c)    == Spoilt(Dark(c))

(***************************************************************************)
(* pm3: the mode and the enable bit are kept by the driver and share one   *)
(* register.  The blanking of the rest of the screen is left out.          *)
(***************************************************************************)
Pm3Request(m, r) == [m EXCEPT !.req = r, !.mode = IF r.op = "true" THEN "key" ELSE "always"]
Pm3Control(c, m) == [c EXCEPT !.lit = m.enable, !.cmp = m.mode]
Pm3SetGrKeys(c, m) ==
  Pm3Control(IF m.req.op = "true" THEN [c EXCEPT !.key = m.req.colour] ELSE c, m)

-----------------------------------------------------------------------------
(***************************************************************************)
(* nvidia: everything is written by rivatv_overlay_start, from the         *)
(* driver's memory.                                                        *)
(***************************************************************************)
\* The highest bit of a key of 16 bits is set whatever the colour: it is the highest of
\* red, which the component stands for here. Of 32 bits it lies above the colour.
NvidiaKey(c, colour) ==
  IF c.depth = 16 THEN 16 + (Painted(c, colour) % 16) ELSE Painted(c, colour)

rivatv_overlay_colorkey(c, m) == [c EXCEPT !.key = NvidiaKey(c, m.req.colour)]
rivatv_overlay_start(c, m) ==
  rivatv_overlay_colorkey(
    [Setup(Lit(c)) EXCEPT !.eq = m.eq, !.cmp = Keyed(c, m.req.op, 0).cmp], m)
rivatv_overlay_stop(c, m) == KeyBack(Dark(c), m)
\* A request to stop keying leaves the colour.
NvidiaRequest(m, r) ==
  [m EXCEPT !.req = IF r.op = "false" THEN [@ EXCEPT !.op = "false"] ELSE r]
\* The overlay is started if a movie has been configured.
NvidiaSetGrKeys(c, m) == IF m.fresh THEN rivatv_overlay_start(c, m) ELSE c

(***************************************************************************)
(* mga: a G400.  All registers are written from the driver's memory, and   *)
(* the desktop's key is saved before they are written first.               *)
(***************************************************************************)
mga_save_always(c, m) == Saving(c, m)
mga_save(c, m) == IF m.saved = None THEN Saving(c, m) ELSE m

mga_colkey(c, m) ==
  IF m.req.op = "true" THEN Keyed(c, "true", Painted(c, m.req.colour))
  ELSE [c EXCEPT !.cmp = "always"]

\* fresh is the format bit of besglobctl.
mga_write_besregs(c, m) ==
  [c EXCEPT !.lit = m.enable, !.whole = m.fresh, !.eq = m.eq]
mga_vid_write_regs(c, m) == mga_write_besregs(mga_colkey(c, m), m)

MgaConfigForgetful(c, m) == [mga_vid_write_regs(c, m) EXCEPT !.eq = Neutral]
MgaConfig(c, m) == mga_vid_write_regs(c, m)

\* mga_vid_write_regs(1), which saves if nothing was saved.
MgaDestroy(c, m) ==
  mga_write_besregs(IF m.saved = None THEN c ELSE KeysBack(c, m), m)
MgaSetEq(c, m) == [c EXCEPT !.eq = m.eq]

-----------------------------------------------------------------------------
(***************************************************************************)
(* s3 and savage: cards with the old streams engine.                       *)
(***************************************************************************)
S3InitStreamsOld(c) == [Spoilt(c) EXCEPT !.cmp = "other", !.key = 0, !.eq = Neutral]
S3StreamsOn(c)      == S3InitStreamsOld(Lit(c))
S3StreamsOff(c)     == Spoilt(Dark(c))
S3SetColorOld(c, m) == [c EXCEPT !.eq = m.eq]

\* The low bits of a component, where the desktop keeps the high ones.
LowBits(c, colour) == IF c.depth = 16 THEN colour % 32 ELSE colour

\* A key of 0 is no key.
S3SetColorKeyOld(c, m) ==
  IF m.req.op = "false" \/ m.req.colour = 0
  THEN [c EXCEPT !.cmp = "always", !.key = 0]
  ELSE Keyed(c, "true", LowBits(c, m.req.colour))
S3DisplayVideoOld(c) == Setup(c)

SavageInitStreamsOld(c) == [Spoilt(c) EXCEPT !.cmp = "other", !.key = 0, !.eq = Neutral]
SavageStreamsOn(c)      == SavageInitStreamsOld(Lit(c))
SavageStreamsOff(c)     == Spoilt(Dark(c))
\* The colours vixConfigPlayback resets, which nothing changes.
SavageSetColorOld(c)    == [c EXCEPT !.eq = Neutral]
SavageSetColorKeyOld(c, m) ==
  IF m.req.op = "false" \/ m.req.colour = 0
  THEN [c EXCEPT !.cmp = "always", !.key = 0]
  ELSE Keyed(c, "true", LowBits(c, m.req.colour))

\* The stride is written, and then the pitch it comes from divided by 8: fresh.
SavageDisplayVideoOld(c, m) ==
  [(IF m.enable THEN c
    ELSE SavageSetColorKeyOld(SavageSetColorOld(SavageStreamsOn(c)), m))
     EXCEPT !.whole = m.fresh]

-----------------------------------------------------------------------------
(***************************************************************************)
(* The ATI drivers.  "mach64_old" is a card without colour adjustment,     *)
(* whose gamma, for the brightness, shares the register of the enable bit. *)
(***************************************************************************)
Gamma(d, c, v) == IF d = "mach64_old" THEN [c EXCEPT !.eq["brightness"] = v] ELSE c

mach64_reset_regs(c)       == Spoilt(Dark([c EXCEPT !.eq = Neutral]))
\* A mask of 0: every colour is the key.
mach64_vid_make_default(c) == [c EXCEPT !.eq = Neutral, !.cmp = "always", !.key = 0]
Mach64Init(c)              == mach64_vid_make_default(mach64_reset_regs(c))
mach64_vid_stop_video(d, c)    == Gamma(d, Spoilt(Dark(c)), 0)
mach64_vid_display_video(d, c) == Gamma(d, Setup(Lit(c)), 0)
Mach64SetEq(d, c, m) ==
  IF d = "mach64_old" THEN Gamma(d, c, m.eq["brightness"]) ELSE [c EXCEPT !.eq = m.eq]
Mach64SetGrKeys(c, m) ==
  Keyed([c EXCEPT !.key = 0], m.req.op, Painted(c, m.req.colour))

make_default_gamma_correction(c) == [c EXCEPT !.eq = Neutral]
radeon_vid_make_default(c) == make_default_gamma_correction(c)
radeon_vid_stop_video(c) ==
  [Spoilt(Dark(c)) EXCEPT !.cmp = "other", !.deint = FALSE]

\* besr as set_gr_key leaves it: the mask of a Radeon is the key itself, and a
\* desktop of 16 bits has no alpha.
AlphaRefused(d, c, r) == d # "radeonhd" /\ r.op = "alpha" /\ c.depth # 32
radeon_key(d, c, m) ==
  CASE m.req.op = "true" ->
         [c EXCEPT !.cmp = IF d = "radeon" THEN "bits" ELSE "key",
                   !.key = Painted(c, m.req.colour)]
    [] m.req.op = "alpha" /\ c.depth = 32 -> [c EXCEPT !.cmp = "alpha", !.key = 0]
    [] OTHER -> [c EXCEPT !.cmp = "always", !.key = 0]

\* The Rage128 writes a brightness and a saturation that vixInit set once.
radeon_vid_display_video(d, c, m) ==
  LET k == [radeon_key(d, Setup(Lit(c)), m) EXCEPT !.deint = m.deint]
  IN  IF d = "rage128" THEN [k EXCEPT !.eq = Neutral] ELSE k
radeon_set_transform(c, m) == [c EXCEPT !.eq = m.eq]
RadeonSetDeint(c, m)       == [c EXCEPT !.deint = m.deint]

radeonhd_stop_video(c)    == Spoilt(Dark(c))
radeonhd_display_video(c) == Setup(Lit(c))
radeonhd_set_gr_key(c, m) ==
  CASE m.req.op = "true"  -> [c EXCEPT !.cmp = "always", !.key = m.req.colour]
    [] m.req.op = "alpha" -> [c EXCEPT !.cmp = "alpha", !.key = m.req.colour]
    [] OTHER              -> [c EXCEPT !.cmp = "other", !.key = 0]
=============================================================================
