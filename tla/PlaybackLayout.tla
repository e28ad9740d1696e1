--------------------------- MODULE PlaybackLayout ---------------------------
(***************************************************************************)
(* The memory layout that vixConfigPlayback computes and reports in        *)
(* vidix_playback_t, for thirteen of the drivers of vidix/drivers/.        *)
(* Addresses are bytes of the mapped video memory.  Which of two chroma    *)
(* planes is U and which is V is not told apart; the source rectangle      *)
(* starts at 0, 0.  What a window that is cut by the edge of the screen    *)
(* adds to the offsets is in Scaling.                                      *)
(***************************************************************************)
EXTENDS Integers, FiniteSetsExt

CONSTANTS
  Drivers,            \* the drivers under study, members of AllDrivers
  Movies,             \* records [fourcc, w, h, pitch]
  Asked,              \* values of num_frames the program passes
  MaxFrames,          \* VID_PLAY_MAXFRAMES
  MGA_DEFAULT_FRAMES, \* the most frames the Matrox driver reports
  CardMemory,         \* how much memory the card has, where the driver asks it
  ScreenMemory        \* what the visible screen takes of it

Ati        == {"mach64", "radeon", "radeonhd"}
AllDrivers == {"cyberblade", "pm2", "pm3", "sis", "unichrome", "savage", "s3",
               "nvidia", "ivtv", "mga"} \cup Ati
Planar == {"YV12", "I420", "YVU9"}
Packed == {"YUY2", "UYVY", "BGR16", "BGR32"}
KB     == 1024
MB     == 1024 * KB

\* How many times narrower and lower a chroma plane is.
Sub(f) == IF f = "YVU9" THEN 4 ELSE 2
\* Bytes of a pixel of the first plane.
Bytes(f) == IF f \in Planar THEN 1 ELSE IF f = "BGR32" THEN 4 ELSE 2

ASSUME DriverAssumption == Drivers \subseteq AllDrivers
ASSUME MovieAssumption ==
  \A m \in Movies :
    /\ m.fourcc \in Planar \cup Packed
    /\ m.w \in Nat \ {0} /\ m.h \in Nat \ {0} /\ m.pitch \in Nat
    /\ m.fourcc \in Planar => m.w % Sub(m.fourcc) = 0 /\ m.h % Sub(m.fourcc) = 0
ASSUME BoundAssumption ==
  /\ Asked \subseteq Nat \ {0} /\ MaxFrames \in Nat \ {0}
  /\ MGA_DEFAULT_FRAMES \in 1..MaxFrames
ASSUME MemoryAssumption == {CardMemory, ScreenMemory} \subseteq Nat

AlignTo(x, a)   == ((x + a - 1) \div a) * a
AlignDown(x, a) == x - (x % a)
\* x & ~b for a power of two b: one bit, not the bits below it.
ClearBit(x, b)  == IF (x \div b) % 2 = 1 THEN x - b ELSE x

-----------------------------------------------------------------------------
(***************************************************************************)
(* The layouts.  base: address of the first frame; line: bytes per line    *)
(* the card is told; align: dest.pitch.y; y, u, v: offset of each plane.   *)
(***************************************************************************)

Layout(base, num, size, line, align, u, v) ==
  [base |-> base, num |-> num, size |-> size, line |-> line, align |-> align,
   y |-> 0, u |-> u, v |-> v]

\* As many frames as fit, up to VID_PLAY_MAXFRAMES.
Fit(memory, size) == Min({memory \div size, MaxFrames})

ChromaLineShort(w, s) == AlignTo(w \div s, 4)

\* Bytes per line of a chroma plane.
ChromaLine(w, s) == AlignTo(w \div s, 16 \div s)

Cyberblade(m) ==
  LET planar == m.fourcc \in Planar
      line   == AlignTo(Bytes(m.fourcc) * m.w, 16)
      s      == Sub(m.fourcc)
      chroma == IF planar THEN ChromaLine(m.w, s) * (m.h \div s) ELSE 0
      size   == line * m.h + 2 * chroma
      v      == IF planar THEN line * m.h ELSE 0
  IN  Layout(6 * MB, Fit(2 * MB, size), size, line, 16, v + chroma, v)

\* The widths of ppcodes: the strides the texture unit of the card knows.
PpWidths == {0, 32, 64, 96, 128, 160, 192, 224, 256, 288, 320, 384, 416, 448,
             512, 544, 576, 640, 768, 800, 832, 896, 1024, 1056, 1088, 1152,
             1280, 1536, 1568, 1600, 1664, 1792, 2048}

PpStride(w) == CHOOSE x \in PpWidths : x >= w /\ \A z \in PpWidths : z >= w => x <= z
PpBelow(x)  == CHOOSE z \in PpWidths : z < x /\ \A t \in PpWidths : t < x => t <= z

Pm2(m) ==
  LET stride == PpStride(m.w)
      size   == stride * m.h * 2
  IN  Layout(2 * MB, Fit(6 * MB, size), size, 2 * stride,
             2 * (stride - PpBelow(stride)), 0, 0)

\* The only layout that honours the number of frames the program asks for.
Pm3(m, asked) ==
  LET size == m.w * m.h * 2
      num  == Min({asked, Fit(24 * MB, size)})
  IN  Layout(32 * MB - num * size, num, size, 2 * m.w, 2, 0, 0)

Sis(m) ==
  LET planar == m.fourcc \in Planar
      line   == IF planar THEN AlignTo(m.w, 8) ELSE AlignTo(2 * m.w, 4)
      total  == IF planar THEN (line * m.h * 3) \div 2 ELSE line * m.h
      near   == IF planar THEN m.h * line ELSE 0
      far    == IF planar THEN (m.h * line * 5) \div 4 ELSE 0
  IN  Layout(8 * MB, Fit(7 * MB, 2 * total), 2 * total, line, 16,
             IF m.fourcc = "YV12" THEN near ELSE far,
             IF m.fourcc = "YV12" THEN far ELSE near)

\* UYVY, a packed format, is laid out as the planar ones are.
Unichrome(m) ==
  LET planar == m.fourcc \in {"YV12", "I420", "UYVY"}
      line   == AlignTo((IF planar THEN 1 ELSE Bytes(m.fourcc)) * m.w, 32)
      chroma == IF planar THEN (line \div 2) * (m.h \div 2) ELSE 0
      size   == line * m.h + 2 * chroma
  IN  Layout(6 * MB, Fit(2 * MB, size), size, line, 32,
             line * m.h + chroma, line * m.h)

SavageAll(m) ==
  LET line == AlignTo(Bytes(m.fourcc) * m.w, 16)
  IN  Layout(ScreenMemory, Fit(CardMemory, line * m.h), line * m.h, line, 32, 0, 0)

\* Lines are aligned to 16 bytes and reported as aligned to 32.
Savage(m) ==
  LET line == AlignTo(Bytes(m.fourcc) * m.w, 16)
      size == line * m.h
  IN  Layout(ScreenMemory, Fit(CardMemory - ScreenMemory, size), size, line, 32, 0, 0)

NvMaxFrames == 3
NvBes       == 1024 * 2000 * 4
NvBase      == CardMemory - (IF CardMemory > 16 * MB THEN 2 * NvBes ELSE NvBes)

Nvidia(m) ==
  LET line == AlignTo(2 * m.w, 64)
      size == line * m.h
  IN  Layout(NvBase, Min({(CardMemory - NvBase) \div size, NvMaxFrames}), size, line, 64, 0, 0)

\* Copies from memory it allocates: address 0 is the start of that.
Ivtv(m) ==
  LET luma == m.w * m.h
  IN  Layout(0, 2, luma + luma \div 2, m.w, 1, luma, luma + luma \div 4)

S3(m) ==
  LET line == AlignTo(Bytes(m.fourcc) * m.w, 16)
      size == line * m.h
  IN  Layout(ScreenMemory, Fit(CardMemory - ScreenMemory, size), size, line, 32, 0, 0)

\* query_pitch of the ATI drivers: the pitch of the program's own lines, if it is one
\* the card knows and is no finer than the least one.
AtiPitch(m) ==
  LET least == IF m.fourcc = "YVU9" THEN 64 ELSE IF m.fourcc \in Planar THEN 32 ELSE 16
  IN  IF m.pitch \in {16, 32, 64, 128, 256} /\ m.pitch >= least THEN m.pitch ELSE least

AtiLine(m) == AlignTo(Bytes(m.fourcc) * m.w, AtiPitch(m))

\* Lines of a frame, the chroma planes counted by what they hold.
AtiRows(m) ==
  IF m.fourcc \notin Planar THEN m.h
  ELSE m.h + m.h \div (IF m.fourcc = "YVU9" THEN 8 ELSE 2)

AtiBase(memory, size, num) == AlignDown(memory - num * size, 64 * KB)

\* The most frames that lie between the screen and the end of the memory; when
\* that is three or less, the most frames of which the base is not below least.
AtiNum(memory, size, asked, least) ==
  LET above(limit) == {num \in 1..Min({asked, MaxFrames}) : AtiBase(memory, size, num) >= limit}
      most(S)      == IF S = {} THEN 0 ELSE Max(S)
  IN  IF most(above(ScreenMemory)) > 3 THEN most(above(ScreenMemory)) ELSE most(above(least))

Mach64Size(m) == ClearBit(AtiLine(m) * AtiRows(m) + 256, 16)

\* As many frames as fit; that their table may be shorter is in Overruns of Playback.
Mach64(m, asked) ==
  LET size  == Mach64Size(m)
      num   == AtiNum(CardMemory, size, asked, 0)
      luma  == AtiLine(m) * m.h
      far   == AlignTo(AlignTo(luma, 16) + luma \div (Sub(m.fourcc) * Sub(m.fourcc)), 16)
  IN  Layout(AtiBase(CardMemory, size, num), num, size, AtiLine(m), AtiPitch(m),
             IF m.fourcc \in Planar THEN AlignTo(luma, 16) ELSE 0,
             IF m.fourcc \in Planar THEN far ELSE 0)

\* The list of DMA descriptors, 16 bytes for each page of the memory, is kept
\* at its end: a card that can be a bus master is meant.
RadeonMemory == CardMemory - (CardMemory * 16) \div (4 * KB)

RadeonSize(m) == AlignTo(AtiLine(m) * AtiRows(m), 4 * KB)

Radeon(m, asked) ==
  LET size == RadeonSize(m)
      num  == AtiNum(RadeonMemory, size, asked, 1)
      luma == AtiLine(m) * m.h
      far  == luma + luma \div (Sub(m.fourcc) * Sub(m.fourcc))
  IN  Layout(AtiBase(RadeonMemory, size, num), num, size, AtiLine(m), AtiPitch(m),
             IF m.fourcc \in Planar THEN AlignDown(far, 16) ELSE 0,
             IF m.fourcc \in Planar THEN AlignDown(luma, 16) ELSE 0)

\* Built without bus mastering; lines of whatever pitch the program has.
RadeonHd(m, asked) ==
  LET line == AlignTo(Bytes(m.fourcc) * m.w, 256)
      size == AlignTo(line * m.h, 4 * KB)
      num  == AtiNum(CardMemory, size, asked, 1)
  IN  Layout(AtiBase(CardMemory, size, num), num, size, line, 256, 0, 0)

\* The number and the base come from the frame_size the program passes, which is
\* that of an earlier movie or 0.  Packed lines are widths of pixels rounded by
\* (sw + 8) & ~8.  A G400 card is meant: a G200 interleaves the chroma planes.
Mga(m, asked, told) ==
  LET base(n) == AlignDown(CardMemory \div 2 - (n + 1) * told, 64 * KB)
      most    == IF asked \in 1..MGA_DEFAULT_FRAMES THEN asked ELSE MGA_DEFAULT_FRAMES
      inside  == {n \in 1..most : base(n) >= 0}
      num     == IF inside = {} THEN 0 ELSE Max(inside)
      planar  == m.fourcc \in Planar
      w       == AlignTo(m.w, 2)
      line    == IF planar THEN AlignTo(w, 32) ELSE 2 * ClearBit(w + 8, 8)
      luma    == AlignTo(w, 32) * m.h
  IN  Layout(base(Max({num, 1})), num, IF planar THEN luma + luma \div 2 ELSE line * m.h, line,
             IF planar THEN 32 ELSE 16, luma + luma \div 4, luma)

LayoutOf(d, m, asked, told) ==
  CASE d = "cyberblade" -> Cyberblade(m)
    [] d = "pm2"        -> Pm2(m)
    [] d = "pm3"        -> Pm3(m, asked)
    [] d = "sis"        -> Sis(m)
    [] d = "unichrome"  -> Unichrome(m)
    [] d = "savage"     -> Savage(m)
    [] d = "nvidia"     -> Nvidia(m)
    [] d = "ivtv"       -> Ivtv(m)
    [] d = "s3"         -> S3(m)
    [] d = "mach64"     -> Mach64(m, asked)
    [] d = "radeon"     -> Radeon(m, asked)
    [] d = "radeonhd"   -> RadeonHd(m, asked)
    [] d = "mga"        -> Mga(m, asked, told)

\* is_supported_fourcc; the Permedia3 driver takes what vixQueryFourcc allows, the
\* Matrox driver refuses what its vixConfigPlayback does not know, and of the ATI
\* Mach64 cards one that takes planar formats is meant.
Supported(d) ==
  CASE d = "cyberblade" -> {"YUY2", "YV12", "I420", "YVU9", "BGR16"}
    [] d = "pm2"        -> {"YUY2"}
    [] d \in {"pm3", "nvidia"} -> {"YUY2", "UYVY"}
    [] d = "sis"        -> {"YV12", "I420", "UYVY", "YUY2"}
    [] d = "unichrome"  -> {"YV12", "I420", "UYVY", "YUY2", "BGR16", "BGR32"}
    [] d = "savage"     -> {"UYVY", "YUY2", "BGR32"}
    [] d = "ivtv"       -> {"YV12"}
    [] d = "s3"         -> {"YUY2", "BGR16", "BGR32"}
    [] d \in {"mach64", "radeon"} -> Planar \cup Packed
    [] d = "radeonhd"   -> {"BGR16", "BGR32"}
    [] d = "mga"        -> {"YV12", "I420", "YUY2", "UYVY"}

\* Reasons to refuse a movie that depend on its size.
Accepts(d, m, asked) ==
  /\ d = "pm2"    => \E x \in PpWidths : x >= m.w
  /\ d = "savage" => ScreenMemory + Savage(m).size <= CardMemory
  /\ d = "s3"     => ScreenMemory + S3(m).size <= CardMemory
  /\ d = "mga"    => m.w >= 4 /\ m.h >= 4
  /\ d = "mach64" => m.w <= 720 /\ m.h <= 720
  /\ d \in Ati    => LayoutOf(d, m, asked, 0).num > 0

\* How much of the card's memory the driver maps; the Radeon driver keeps its
\* descriptors at the end of it.
Mapped(d, p) ==
  CASE d \in {"cyberblade", "pm2", "unichrome"} -> 8 * MB
    [] d = "pm3"    -> 32 * MB
    [] d = "sis"    -> 16 * MB
    [] d = "radeon" -> RadeonMemory
    [] d = "ivtv"   -> p.num * p.size
    [] OTHER        -> CardMemory
=============================================================================
