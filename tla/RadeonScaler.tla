---------------------------- MODULE RadeonScaler ----------------------------
(***************************************************************************)
(* The scaler of the Radeon and Rage128 driver: Calc_H_INC_STEP_BY,        *)
(* ComputeXStartEnd, ComputeAccumInit, ComputeBorders, FilterSetup and     *)
(* radeon_vid_init_video, which calls them.  The source rectangle starts   *)
(* at 0, 0.  Ratios are exact here and of type double in the code.         *)
(***************************************************************************)
EXTENDS Scaling, Sequences, TLC

Surface(f) ==
  CASE f = "BGR16" -> 4
    [] f = "BGR32" -> 6
    [] f = "YVU9"  -> 9
    [] f \in Planar -> 10
    [] f = "UYVY"  -> 11
    [] OTHER       -> 12

SurfacePixel(s)  == IF s = 6 THEN 4 ELSE IF s \in {4, 11, 12} THEN 2 ELSE 1
ChromaPixel(s)   == CASE s \in {11, 12} -> 2 [] s \in {9, 10} -> 1 [] OTHER -> 0
SurfaceSub(s)    == CASE s \in {4, 6} -> 1 [] s = 9 -> 4 [] OTHER -> 2
SurfaceRowSub(s) == CASE s \in {4, 6, 11, 12} -> 1 [] s = 9 -> 4 [] OTHER -> 2

-----------------------------------------------------------------------------
(***************************************************************************)
(* Whether the 96 rows of the line buffer hold enough lines for the filter *)
(* of four taps: not at all if half of the line did not fit.               *)
(***************************************************************************)

OV0LB_Rows == 96
Words(pixels, bytes) == ((pixels - 1) * bytes) \div 16 + 1

\* rows: what a word takes of the buffer; first: the row the plane starts at.
TooWide(words, rows, first) ==
  /\ ((words \div 2) - 1) * rows + first <= OV0LB_Rows - 1
  /\ (words - 1) * rows + first > OV0LB_Rows - 1

NoFourTapLuma(s, w) ==
  TooWide(Words(w, SurfacePixel(s)), IF s \in {9, 10} THEN 2 ELSE 1, 0)

NoFourTapChroma(s, w) ==
  /\ s \in {9, 10}
  /\ \E first \in {1, 3} : TooWide(Words(w \div SurfaceSub(s), ChromaPixel(s)), 4, first)

-----------------------------------------------------------------------------
(***************************************************************************)
(* The horizontal step.  The overlay makes n pixels of w.  A rung says     *)
(* from which n / w on, in 256ths, it is taken, what it needs, and for the *)
(* first plane and the chroma the divisor of the increment and the code of *)
(* the step: 0 four taps, 1 two taps, and above that 2, 4, 8 and 16 pixels *)
(* at a time.                                                              *)
(***************************************************************************)

Rung(least, needs, y, uv) == [least |-> least, needs |-> needs, y |-> y, uv |-> uv]
By(mul, step) == [mul |-> mul, step |-> step]
StepSize(step) == IF step <= 1 THEN 1 ELSE 2^(step - 1)

Rgb16Rungs ==
  << Rung(128, "any", By(1, 1), By(1, 1)), Rung(64, "any", By(2, 2), By(2, 2)),
     Rung(32, "any", By(4, 3), By(4, 3)),  Rung(16, "any", By(8, 4), By(8, 4)),
     Rung(8, "any", By(16, 5), By(16, 5)) >>

Rgb32Rungs ==
  << Rung(384, "luma", By(1, 0), By(1, 0)), Rung(192, "any", By(1, 1), By(1, 1)),
     Rung(96, "any", By(2, 2), By(2, 2)),   Rung(64, "any", By(2, 2), By(4, 3)),
     Rung(48, "any", By(4, 3), By(4, 3)),   Rung(32, "any", By(4, 3), By(8, 4)),
     Rung(24, "any", By(8, 4), By(8, 4)),   Rung(16, "any", By(16, 5), By(16, 5)) >>

\* With a filter of four taps where the line buffer allows it.
Yuv9Filtered ==
  << Rung(192, "both", By(1, 0), By(4, 0)), Rung(128, "chroma", By(1, 1), By(4, 0)),
     Rung(160, "luma", By(1, 0), By(4, 1)), Rung(96, "any", By(1, 1), By(4, 1)) >>

Yuv9Stepped ==
  << Rung(80, "any", By(1, 1), By(8, 2)),  Rung(48, "any", By(2, 2), By(8, 2)),
     Rung(40, "any", By(2, 2), By(16, 3)), Rung(24, "any", By(4, 3), By(16, 3)),
     Rung(12, "any", By(8, 4), By(32, 4)), Rung(10, "any", By(8, 4), By(64, 5)),
     Rung(6, "any", By(16, 5), By(64, 5)) >>

Yuv12Filtered ==
  << Rung(256, "both", By(1, 0), By(2, 0)), Rung(192, "chroma", By(1, 1), By(2, 0)),
     Rung(192, "luma", By(1, 0), By(2, 1)), Rung(128, "any", By(1, 1), By(2, 1)) >>

Yuv12Stepped ==
  << Rung(96, "any", By(1, 1), By(4, 2)), Rung(64, "any", By(2, 2), By(4, 2)),
     Rung(48, "any", By(2, 2), By(8, 3)), Rung(32, "any", By(4, 3), By(8, 3)) >>

\* Planes step by four and eight, and by eight and sixteen; packed pixels cannot.
Yuv12Small ==
  << Rung(24, "any", By(4, 3), By(16, 4)), Rung(16, "any", By(8, 4), By(16, 4)),
     Rung(12, "any", By(8, 4), By(32, 5)), Rung(8, "any", By(16, 5), By(32, 5)) >>

Rungs(s) ==
  CASE s = 4  -> Rgb16Rungs
    [] s = 6  -> Rgb32Rungs
    [] s = 9  -> Yuv9Filtered \o Yuv9Stepped
    [] s = 10 -> Yuv12Filtered \o Yuv12Stepped \o Yuv12Small
    [] OTHER  -> Yuv12Filtered \o Yuv12Stepped \o <<Yuv12Small[2]>>

Rounded(a, b) == (2 * a + b) \div (2 * b)

\* (uint16_t)(1 / (ratio * mul) * 4096 + 0.5)
Increment(n, w, mul) == Rounded(4096 * w, n * mul) % 2^16

\* Fields of the registers that take it are 14 bits wide.
Field(inc) == inc % 2^14

Needs(s, w, rung) ==
  CASE rung.needs = "both"   -> ~NoFourTapLuma(s, w) /\ ~NoFourTapChroma(s, w)
    [] rung.needs = "chroma" -> NoFourTapLuma(s, w) /\ ~NoFourTapChroma(s, w)
    [] rung.needs = "luma"   -> ~NoFourTapLuma(s, w)
    [] OTHER                 -> TRUE

\* For surface 9 the increments are looked at as well; that of the first plane is not
\* yet divided where the rung of 40 / 256 looks at it, so that it is never taken.
Legal(s, n, w, rung) ==
  s = 9 => /\ Increment(n, w, IF rung.least = 40 THEN 1 ELSE rung.y.mul) <= 12288
           /\ Increment(n, w, rung.uv.mul) <= 8192

Fits(s, n, w, rung) == 256 * n >= rung.least * w /\ Needs(s, w, rung) /\ Legal(s, n, w, rung)

\* What is taken, and the ratio its increments are of: below the last rung its own.
Taken(s, n, w) ==
  LET r == Rungs(s)
      fit == {i \in 1..Len(r) : Fits(s, n, w, r[i])}
      last == r[Len(r)]
  IN  IF fit # {} THEN [rung |-> r[Min(fit)], n |-> n, w |-> w]
      ELSE [rung |-> last, n |-> last.least, w |-> 256]

-----------------------------------------------------------------------------
(***************************************************************************)
(* The filter of four taps: sixteenths of a pixel in five phases, by the   *)
(* step rounded to a hundredth.  Of the rows of the table those are listed *)
(* at which a phase changes; row 0 is for a ratio of a quarter, row 75     *)
(* for one.                                                                *)
(***************************************************************************)

Phase0 == (0 :> <<7, 16, 9, 0>>) @@ (26 :> <<7, 17, 8, 0>>) @@ (30 :> <<7, 18, 7, 0>>)
       @@ (35 :> <<7, 18, 8, -1>>) @@ (42 :> <<7, 20, 7, -2>>) @@ (49 :> <<6, 22, 6, -2>>)
       @@ (53 :> <<6, 21, 6, -1>>) @@ (54 :> <<5, 23, 5, -1>>) @@ (59 :> <<4, 25, 4, -1>>)
       @@ (61 :> <<4, 24, 4, 0>>) @@ (63 :> <<3, 26, 3, 0>>) @@ (67 :> <<2, 28, 2, 0>>)
       @@ (70 :> <<1, 30, 1, 0>>) @@ (74 :> <<0, 32, 0, 0>>)

Phase1 == (0 :> <<7, 16, 9, 0>>) @@ (26 :> <<6, 17, 9, 0>>) @@ (31 :> <<5, 18, 9, 0>>)
       @@ (35 :> <<6, 17, 10, -1>>) @@ (41 :> <<6, 18, 10, -2>>) @@ (42 :> <<5, 19, 10, -2>>)
       @@ (45 :> <<5, 20, 9, -2>>) @@ (48 :> <<4, 21, 9, -2>>) @@ (52 :> <<3, 22, 9, -2>>)
       @@ (55 :> <<3, 23, 8, -2>>) @@ (56 :> <<2, 24, 8, -2>>) @@ (59 :> <<1, 25, 8, -2>>)
       @@ (61 :> <<1, 25, 7, -1>>) @@ (63 :> <<0, 26, 7, -1>>) @@ (66 :> <<0, 27, 6, -1>>)
       @@ (68 :> <<0, 26, 6, 0>>) @@ (70 :> <<-1, 28, 5, 0>>) @@ (73 :> <<-2, 29, 5, 0>>)

Phase2 == (0 :> <<5, 15, 11, 1>>) @@ (27 :> <<5, 16, 11, 0>>) @@ (29 :> <<4, 17, 11, 0>>)
       @@ (39 :> <<4, 17, 12, -1>>) @@ (42 :> <<3, 18, 12, -1>>) @@ (43 :> <<3, 19, 12, -2>>)
       @@ (47 :> <<2, 20, 12, -2>>) @@ (50 :> <<1, 21, 12, -2>>) @@ (52 :> <<1, 22, 12, -3>>)
       @@ (54 :> <<0, 23, 12, -3>>) @@ (58 :> <<0, 23, 11, -2>>) @@ (61 :> <<-1, 24, 11, -2>>)
       @@ (65 :> <<-2, 25, 11, -2>>) @@ (68 :> <<-2, 25, 10, -1>>) @@ (70 :> <<-3, 26, 10, -1>>)
       @@ (73 :> <<-3, 27, 9, -1>>)

Phase3 == (0 :> <<4, 15, 12, 1>>) @@ (27 :> <<3, 15, 13, 1>>) @@ (31 :> <<2, 17, 13, 0>>)
       @@ (43 :> <<1, 18, 14, -1>>) @@ (47 :> <<0, 19, 15, -2>>) @@ (54 :> <<-1, 21, 15, -3>>)
       @@ (58 :> <<-2, 22, 15, -3>>) @@ (63 :> <<-3, 23, 15, -3>>)
       @@ (70 :> <<-3, 23, 14, -2>>) @@ (74 :> <<-4, 24, 14, -2>>)

Phase4 == (0 :> <<3, 13, 13, 3>>) @@ (26 :> <<2, 14, 14, 2>>) @@ (30 :> <<1, 15, 15, 1>>)
       @@ (40 :> <<0, 16, 16, 0>>) @@ (47 :> <<-1, 17, 17, -1>>)
       @@ (52 :> <<-2, 18, 18, -2>>) @@ (57 :> <<-3, 19, 19, -3>>)

\* FilterSetup: the row of a ratio of 4096 to the increment, kept between a quarter
\* and one.
FilterRow(inc) ==
  IF inc > 4 * 4096 THEN 0 ELSE IF inc < 4096 THEN 75 ELSE (100 * 4096) \div inc - 25

Phases(inc) ==
  {phase[Max({i \in DOMAIN phase : i <= FilterRow(inc)})] :
     phase \in {Phase0, Phase1, Phase2, Phase3, Phase4}}

\* The taps of a phase as the card reads them: fields of four and of seven bits.
Signed(x, bits) == ((x + 2^(bits - 1)) % 2^bits) - 2^(bits - 1)

Taps(coef) == << Signed(coef[1], 4), Signed(coef[2], 7), Signed(coef[3], 7), Signed(coef[4], 4) >>

-----------------------------------------------------------------------------
(***************************************************************************)
(* radeon_vid_init_video.                                                  *)
(***************************************************************************)

\* ceil((dest.w + 1) / horz_repl_factor)
OverlayPixels(win, mode) == (win.w + mode.repl) \div mode.repl

\* Above MinHScaleHard the filter with the coefficients of the card is used and the
\* step is computed anew, from the width of the window in pixels of the screen.
Hard(m, win, mode) == 4 * OverlayPixels(win, mode) > 3 * m.w

\* ComputeXStartEnd: the last pixel of a line that is fetched, a register of 11 bits.
XEnd(m, step) == ((m.w \div step) * step) % 2^11

HardX(m, win, mode) == Axis(4096, (m.w * 4096) \div win.w, OverlayPixels(win, mode), m.w)

SoftX(m, win, mode) ==
  LET n == OverlayPixels(win, mode)
      t == Taken(Surface(m.fourcc), n, m.w)
  IN  [Axis(4096, Field(Increment(t.n, t.w, t.rung.y.mul)), n, m.w)
         EXCEPT !.pre = StepSize(t.rung.y.step)]

HardUv(m, win, mode) ==
  LET s   == Surface(m.fourcc)
      inc == (m.w * 4096) \div win.w
      cut == IF s \in {4, 6} THEN 1 ELSE IF s = 9 THEN 4 ELSE 2
  IN  Axis(4096, inc \div cut, OverlayPixels(win, mode), m.w \div SurfaceSub(s))

SoftUv(m, win, mode) ==
  LET n == OverlayPixels(win, mode)
      s == Surface(m.fourcc)
      t == Taken(s, n, m.w)
  IN  [Axis(4096, Field(Increment(t.n, t.w, t.rung.uv.mul)), n, m.w \div SurfaceSub(s))
         EXCEPT !.pre = StepSize(t.rung.uv.step)]

\* v_inc, 16 bits.
RadeonY(m, win, mode) ==
  LET lines == IF mode.dbl THEN 2 * win.h ELSE win.h
      one   == IF mode.inter THEN 8192 ELSE 4096
  IN  Axis(one, Rounded(m.h * one, lines + 1) % 2^16, lines, m.h)

\* The start of the first accumulator, in 32nds of a pixel: ComputeAccumInit rounds
\* two pixels and a half and half a step, which the other way cuts.
AccumInit(inc, hard) ==
  (IF hard THEN (5 * 4096 + inc) \div 256 ELSE (5 * 4096 + inc + 128) \div 256) % 512

\* ComputeBorders: the lines of the first plane and of the chroma planes, less one.
ActiveLines(m) == (m.h - 1) % 2^12
ActiveUvLines(m) == (m.h \div SurfaceRowSub(Surface(m.fourcc)) - 1) % 2^11

RadeonScale(m, win, mode) ==
  LET hard == Hard(m, win, mode)
      x    == IF hard THEN HardX(m, win, mode) ELSE SoftX(m, win, mode)
      step == StepSize(Taken(Surface(m.fourcc), OverlayPixels(win, mode), m.w).rung.y.step)
  IN  [x     |-> x,
       y     |-> RadeonY(m, win, mode),
       uv    |-> IF hard THEN HardUv(m, win, mode) ELSE SoftUv(m, win, mode),
       taps  |-> IF hard THEN {} ELSE {Taps(c) : c \in Phases(x.inc)},
       start |-> AccumInit(x.inc, hard),
       reads |-> XEnd(m, step) + step,
       lines |-> [y |-> ActiveLines(m) + 1, uv |-> ActiveUvLines(m) + 1]]
=============================================================================
