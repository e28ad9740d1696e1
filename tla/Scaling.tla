------------------------------- MODULE Scaling -------------------------------
(***************************************************************************)
(* How the overlay of a card steps through a movie to fill a window: the   *)
(* scale registers that vixConfigPlayback, or what it leads to, computes   *)
(* for the drivers of vidix/drivers/ that scale.  A register is given by   *)
(* what the card makes of it after the width of its field has cut it.      *)
(***************************************************************************)
EXTENDS PlaybackLayout

\* Windows are records [x, y, w, h] and may start left of or above the screen; a
\* screen mode is a record [repl, dbl, inter, panel]: the overlay makes one of repl
\* pixels, lines are drawn twice, lines are interlaced, and a flat panel of so many
\* lines stretches LcdLines lines (0: no stretching).
CONSTANTS Windows, Modes

LcdLines == 600

ASSUME WindowAssumption ==
  \A win \in Windows :
    /\ {win.x, win.y} \subseteq Int /\ {win.w, win.h} \subseteq Nat \ {0, 1}
    /\ win.x + win.w > 0 /\ win.y + win.h > 0
ASSUME ModeAssumption ==
  \A mode \in Modes :
    /\ mode.repl \in {1, 2, 4} /\ {mode.dbl, mode.inter} \subseteq BOOLEAN
    /\ mode.panel \in Nat /\ ~(mode.dbl /\ mode.inter)

\* One direction of a scaler: for each of `out` pixels of the window it goes on by
\* pre * inc of the `one` units of a source pixel, of which there are `src`; inc is a
\* multiple of `grain`.  `skip` pixels of the window are off the screen and the
\* first on it is taken from the source position `from`.
Axis(one, inc, out, src) ==
  [one |-> one, inc |-> inc, pre |-> 1, grain |-> 1, out |-> out, src |-> src,
   skip |-> 0, from |-> 0]

\* A register that counts the pixels of the window for each pixel of the movie.
Turned(axis) == [axis EXCEPT !.out = axis.src, !.src = axis.out]

Cut(pos) == IF pos < 0 THEN 0 - pos ELSE 0
Larger(a, b) == IF a > b THEN a ELSE b

\* The number of the first halving, up to the fourth, that makes the movie no larger
\* than the window.
Halvings(src, out) ==
  IF \E d \in 1..4 : src \div 2^d <= out
  THEN CHOOSE d \in 1..4 : src \div 2^d <= out /\ \A e \in 1..d - 1 : src \div 2^e > out
  ELSE 4

-----------------------------------------------------------------------------
\* A window narrower than the movie also puts how many times narrower above the fraction,
\* which is left out.
CyberbladeX(src, out) ==
  IF src = out THEN Axis(1024, 1024, out, src)
  ELSE IF src < out THEN Axis(1024, ((src * 1024) \div (out - 2)) % 8192, out, src)
  ELSE Turned(Axis(1024, ((out * 1024) \div src) % 1024, out, src))

CyberbladeY(src, out) ==
  IF out < src THEN Turned(Axis(1024, (out * 1024) \div src, out, src))
  ELSE Axis(1024, (src * 1024) \div out, out, src)

\* The line buffer level: a line of the first plane in units of four bytes, nine bits.
LineBuffer(m) == ((Cyberblade(m).line + 2) \div 4) % 512

Pm2Axis(src, out) == Axis(2^20, (src * 2^20) \div out, out, src)

Quad(x) == x - (x % 4)

\* compute_scale_factor: widths become multiples of four, the step is rounded up to 16
\* units, and raised by 16 more where the last pixel would not fall on a group of four.
Pm3X(src, out) ==
  IF src = out THEN Axis(2^16, 2^16, out, src)
  ELSE LET s == Quad(src)
           d == Quad(out)
           q == AlignTo((s * 2^16) \div d, 16)
           inc == IF ((q * d) \div 2^16) % 4 # 0 THEN q + 16 ELSE q
       IN  [Axis(2^16, inc, d, s) EXCEPT !.grain = 32]

Pm3Y(src, out) == [Axis(2^16, AlignDown((src * 2^16) \div out, 16), out, src) EXCEPT !.grain = 16]

\* S3 chips from the Savage3D on; that SSTREAM_CONTROL tells the card how far a window less
\* than half as wide as the movie shrinks it is left out.
SavageX(src, out) == Axis(2^15, (src * 2^15) \div out, out, src)
SavageY(src, out) == Axis(2^15, ((src * 2^15) \div out) % 2^20, out, src)

\* rivatv_overlay_start on a card of the NV10 to NV30 families: the start address is
\* moved by whole pixels and by lines of width pixels, the pitch is not looked at.
NvidiaX(m, win) ==
  LET skip == Cut(win.x)
  IN  [Axis(2^20, (m.w * 2^20) \div win.w, win.w - skip, m.w)
         EXCEPT !.skip = skip, !.from = ((skip * m.w) \div win.w) * 2^20]

NvidiaRows(m, win) == (Cut(win.y) * m.h) \div win.h

NvidiaY(m, win) ==
  [Axis(2^20, (m.h * 2^20) \div win.h, win.h - Cut(win.y), m.h)
     EXCEPT !.skip = Cut(win.y),
            !.from = ((NvidiaRows(m, win) * 2 * m.w) \div Nvidia(m).line) * 2^20]

\* Both directions of the Matrox driver; the last pixel of the window is the last of
\* the movie.
MgaAxis(src, pos, out) ==
  LET inc  == ((src - 1) * 2^14) \div (out - 1)
      skip == Cut(pos)
  IN  [Axis(2^14, inc, out - skip, src) EXCEPT !.skip = skip, !.from = skip * inc]

\* The address is moved by lines of as many bytes as a line has pixels, and the weight
\* of the first line is what is left.
MgaRows(m, win) == MgaAxis(m.h, win.y, win.h).from \div 2^14

MgaPixels(m) == Mga(m, 1, 0).line \div (IF m.fourcc \in Planar THEN 1 ELSE 2)

MgaY(m, win) ==
  LET axis == MgaAxis(m.h, win.y, win.h)
  IN  [axis EXCEPT !.from =
         ((MgaRows(m, win) * MgaPixels(m)) \div Mga(m, 1, 0).line) * 2^14 + (axis.from % 2^14)]

-----------------------------------------------------------------------------
(***************************************************************************)
(* Mach64: 4.12 fixed point.  Doubled and stretched lines count as one,    *)
(* and of interlaced ones every other is drawn.                            *)
(***************************************************************************)

\* Both increments share a register: what of the vertical one is above its 16 bits gets
\* into this one (InReach).
Mach64X(src, out, mode) ==
  Axis(4096 * mode.repl, ((src * 4096 * mode.repl) \div out) % 2^16, out, src)

VertStretch(mode) ==
  IF mode.panel = 0 THEN 2^16 ELSE (LcdLines * 2^16 + mode.panel \div 2) \div mode.panel

Mach64Y(src, out, mode) ==
  LET scaled(x) == IF mode.inter THEN 2 * x ELSE IF mode.dbl THEN x \div 2 ELSE x
      inc == (scaled(src * VertStretch(mode)) \div out) \div 16
  IN  Axis(scaled(VertStretch(mode)) \div 16, inc % 2^16, out, src)

-----------------------------------------------------------------------------
(***************************************************************************)
(* Unichrome: a movie is first made smaller by a power of two, then larger *)
(* again.  That the window is out of reach is found out and not looked at. *)
(***************************************************************************)

\* Variant: the number of halvings in place of the power of two.
UnichromeXOff(src, out) ==
  LET d    == Halvings(src, out)
      mini == src \div 2^d
  IN  IF src <= out THEN Axis(2048, IF src = out THEN 2048 ELSE (src * 2048) \div out, out, src)
      ELSE [Axis(2048, IF mini < out THEN (((mini - 2) * 2048) \div out) % 2048 ELSE 2048,
                 out, src) EXCEPT !.pre = 2 * d]

UnichromeX(src, out) ==
  LET d    == Halvings(src, out)
      mini == src \div 2^d
  IN  IF src = out THEN Axis(2048, 2048, out, src)
      ELSE IF src < out THEN Axis(2048, ((src * 2048) \div out) % 2048, out, src)
      ELSE [Axis(2048, IF mini < out THEN (((mini - 2) * 2048) \div out) % 2048 ELSE 2048,
                 out, src) EXCEPT !.pre = 2^d]

UnichromeY(src, out) ==
  LET d    == Halvings(src, out)
      mini == src \div 2^d
  IN  IF src = out THEN Axis(1024, 1024, out, src)
      ELSE IF src < out THEN Axis(1024, ((src * 1024) \div out) % 1024, out, src)
      ELSE [Axis(1024, IF mini < out THEN ((mini * 1024) \div out) % 1024 ELSE 1024,
                 out, src) EXCEPT !.pre = 2^d]

\* uc_ovl_map_qwfetch: units of 16 bytes, of a plane or of a packed line.
UnichromeFetch(m) ==
  LET units == IF m.fourcc \in {"YV12", "I420"} THEN AlignTo(m.w, 32) \div 16
               ELSE AlignTo(Bytes(m.fourcc) * m.w, 16) \div 16 + 1
  IN  Larger(units, 4)

-----------------------------------------------------------------------------
(***************************************************************************)
(* SiS: a part of the movie that starts at a multiple of eight or of two   *)
(* pixels.  A card of the 300 family is meant.                             *)
(***************************************************************************)

SisCut(m, pos, out, src, unit) == AlignDown((src * Cut(pos)) \div out, unit)

\* calc_scale_factor, horizontally: larger by 16 bits of fraction, smaller by a power of
\* two first; never below an eighth unless lines start at multiples of 256 bytes.
SisStepX(src, out, pitch) ==
  LET o     == Larger(out, 32)
      least == IF pitch % 256 # 0 /\ (o * 1000) \div src < 125
               THEN (src * 125) \div 1000 + 1 ELSE o
      i     == CHOOSE k \in 0..11 : least * 2^k <= src /\ src < least * 2^(k + 1)
      d     == least * 2^i
  IN  IF o = src THEN [pre |-> 1, inc |-> 2^16]
      ELSE IF o > src THEN [pre |-> 1, inc |-> (src * 2^16) \div (o + 2)]
      ELSE [pre |-> 2^i,
            inc |-> 2^16 + (IF src % d # 0 THEN (((src - d) * 2^16) \div d) % 2^16 ELSE 0)]

\* Vertically: smaller by leaving out lines, as many as the 12 bits of the pitch allow.
SisStepY(src, out, pitch) ==
  LET o == Larger(out, 24)
      i == src \div o
      d == i * o
      rest == (((src - d) * 2^16) \div d) % 2^16
  IN  IF o = src THEN [pre |-> 1, inc |-> 2^16]
      ELSE IF o > src THEN [pre |-> 1, inc |-> (src * 2^16) \div (o + 2)]
      ELSE IF i >= 2 /\ (pitch * i) \div 4 > 4095
           THEN [pre |-> 8190 \div pitch, inc |-> 2^17 - 1]
           ELSE [pre |-> i, inc |-> 2^16 + rest]

SisAxis(step, out, src, skip, from) ==
  [Axis(2^16, step.inc, out, src) EXCEPT !.pre = step.pre, !.skip = skip, !.from = from * 2^16]

SisX(m, win) ==
  LET skip == Cut(win.x)
      from == SisCut(m, win.x, win.w, m.w, IF m.fourcc \in Planar THEN 8 ELSE 2)
  IN  SisAxis(SisStepX(m.w - from, win.w - skip, Sis(m).line), win.w - skip, m.w, skip, from)

SisY(m, win, mode) ==
  LET skip  == Cut(win.y)
      from  == SisCut(m, win.y, win.h, m.h, IF m.fourcc \in Planar THEN 2 ELSE 1)
      lines == IF mode.dbl THEN 2 * (win.h - skip)
               ELSE IF mode.inter THEN (win.h - skip) \div 2 ELSE win.h - skip
  IN  [SisAxis(SisStepY(m.h - from, lines, Sis(m).line), lines, m.h, skip, from)
         EXCEPT !.skip = (skip * lines) \div (win.h - skip)]

\* Variant: a part of a group of pixels is left out.
SisLineBufferShort(m, from) ==
  LET w == m.w - from
  IN  (IF m.fourcc \in Planar THEN 16 * (w \div 128) - 1 ELSE w \div 8 - 1) % 256

\* set_line_buf_size: groups of 128 pixels of a plane, or of eight packed pixels, less
\* one, in eight bits.  It is computed before the power of two by which the movie is
\* made smaller, which it would look at, so that is always 0 here.
SisLineBuffer(m, from) ==
  LET w == m.w - from
  IN  (IF m.fourcc \in Planar THEN 16 * (AlignTo(w, 128) \div 128) - 1
       ELSE AlignTo(w, 8) \div 8 - 1) % 256

-----------------------------------------------------------------------------
(***************************************************************************)
(* A window that starts left of or above the screen: by how much the       *)
(* address is moved that the card reads from.                              *)
(***************************************************************************)

Moved(y, uv) == [y |-> y, uv |-> uv]

SisMoved(m, win) ==
  LET planar == m.fourcc \in Planar
      sx == SisCut(m, win.x, win.w, m.w, IF planar THEN 8 ELSE 2)
      sy == SisCut(m, win.y, win.h, m.h, IF planar THEN 2 ELSE 1)
      line == Sis(m).line
  IN  IF planar THEN Moved(sx + sy * line, (sx + (sy * line) \div 2) \div 2)
      ELSE Moved(2 * sx + sy * line, 0)

NvidiaMoved(m, win) ==
  Moved(2 * ((Cut(win.x) * m.w) \div win.w + NvidiaRows(m, win) * m.w), 0)

\* The columns are cut by the card itself.
MgaMoved(m, win) ==
  Moved(MgaRows(m, win) * MgaPixels(m),
        IF m.fourcc \in Planar
        THEN (MgaAxis(m.h, win.y, win.h).from \div 2^16) * MgaPixels(m) ELSE 0)
=============================================================================
