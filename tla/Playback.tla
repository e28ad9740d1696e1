------------------------------ MODULE Playback ------------------------------
(***************************************************************************)
(* Where thirteen of the drivers of vidix/drivers/ put the frames of a     *)
(* movie, and which of them the card shows: vixConfigPlayback as far as it *)
(* lays out memory, vixPlaybackOn, vixPlaybackOff, vixPlaybackFrameSelect  *)
(* and vixSetGrKeys as far as they move the address the card reads from;   *)
(* and how the card is told to step through a frame to fill the window.    *)
(***************************************************************************)
EXTENDS RadeonScaler

CONSTANTS
  None,
  Wild,           \* where the card reads when nobody can tell
  MACH64_BUFFERS  \* entries of mach64_buffer_base

VARIABLES
  driver,       \* the driver that was loaded
  play,         \* what the last vixConfigPlayback told the program
  frames,       \* the static table of frame addresses
  cur,          \* info->cur_frame of the nVidia driver
  shown,        \* the start addresses the card reads from, None or Wild
  on,           \* the overlay is enabled
  scale,        \* how it steps through a movie, or None
  selected      \* the frame the program selected since vixPlaybackOn

vars == <<driver, play, frames, cur, shown, on, scale, selected>>

ASSUME NoneAssumption ==
  /\ None \notin [y : Int, u : Int, v : Int]
  /\ Wild \notin [y : Int, u : Int, v : Int] \cup {None}
ASSUME BufferAssumption == MACH64_BUFFERS \in Nat \ {0}

-----------------------------------------------------------------------------
(***************************************************************************)
(* Addresses in the card's registers.                                      *)
(***************************************************************************)

\* The start address registers count units of so many bytes; a SiS 300 card is
\* meant, the 315 counts units of two.
Unit(d) ==
  CASE d = "cyberblade"       -> 8
    [] d \in {"pm2", "pm3"}   -> 2
    [] d = "sis"              -> 4
    [] d \in {"mach64", "radeon"} -> 16
    [] d = "radeonhd"         -> 256
    [] OTHER                  -> 1

Written(d, a) == AlignDown(a, Unit(d))

\* What the registers hold for a frame that starts at an address; the ATI drivers
\* write the frame before it to a second set, for deinterlacing, which is left out.
Registers(d, p, frame) ==
  [y |-> Written(d, frame + p.y + p.moved.y), u |-> Written(d, frame + p.u + p.moved.uv),
   v |-> Written(d, frame + p.v + p.moved.uv)]

\* The drivers with a table of their own; that of the Mach64 driver has a column for each
\* plane, which holds what Registers makes of the start of the frame.
Tabled  == {"cyberblade", "pm2", "pm3", "sis", "unichrome", "mach64"}
Copying == {"pm2", "ivtv"}

\* The address vixPlaybackFrameSelect takes for a frame.  The Matrox driver writes
\* a number, of which the card takes two bits, for the four addresses it was given.
FrameAddress(i) ==
  CASE driver \in Tabled -> frames[i]
    [] driver = "mga"    -> play.base + (i % 4) * play.size
    [] OTHER             -> play.base + i * play.size

Show(frame) == shown' = Registers(driver, play, frame)

Init ==
  /\ driver \in Drivers
  /\ play = None
  /\ frames = [i \in 0..MaxFrames - 1 |-> 0]
  /\ cur = 0
  /\ shown = None
  /\ on = FALSE
  /\ scale = None
  /\ selected = None

FillTableShort(p) ==
  frames' = IF driver \notin Tabled THEN frames
            ELSE [i \in DOMAIN frames |->
                    IF i + 1 < p.num THEN p.base + i * p.size ELSE frames[i]]

\* Entries past the last frame keep what an earlier movie left in them.
FillTable(p) ==
  frames' = IF driver \notin Tabled THEN frames
            ELSE [i \in DOMAIN frames |->
                    IF i < p.num THEN p.base + i * p.size ELSE frames[i]]

\* The table of the Mach64 driver is filled without a look at how long it is: frames past
\* its end are written over the variables behind it.
Overruns(p) == driver = "mach64" /\ p.num > MACH64_BUFFERS

\* Some drivers program a frame at once: cyberblade and pm3 the start of the
\* memory set aside, as mga does, sis and unichrome entry 0 of the table.  The card of a
\* Copying driver reads a frame once, when it is selected.
ShowFirst(p) ==
  CASE driver \in {"cyberblade", "pm3", "mga"} -> shown' = Registers(driver, p, p.base)
    [] driver \in {"sis", "unichrome"}  -> shown' = Registers(driver, p, frames'[0])
    [] driver \in Copying               -> shown' = None
    [] OTHER                            -> UNCHANGED shown

\* What the card is told of the two directions of a movie; the copying ivtv and
\* radeonhd drivers do not scale.
ScaleOf(d, m, win, mode) ==
  LET plain(x, y) == [x |-> x, y |-> y]
      reading(x, y, pixels) == [x |-> x, y |-> y, reads |-> pixels]
      sisX == SisX(m, win)
  IN  CASE d = "cyberblade" -> reading(CyberbladeX(m.w, win.w), CyberbladeY(m.h, win.h),
                                       (LineBuffer(m) * 4) \div Bytes(m.fourcc))
        [] d = "pm2" -> plain(Pm2Axis(m.w, win.w), Pm2Axis(m.h, win.h))
        [] d = "pm3" -> plain(Pm3X(m.w, win.w), Pm3Y(m.h, win.h))
        [] d \in {"savage", "s3"} -> plain(SavageX(m.w, win.w), SavageY(m.h, win.h))
        [] d = "nvidia" -> plain(NvidiaX(m, win), NvidiaY(m, win))
        [] d = "mga" -> plain(MgaAxis(m.w, win.x, win.w), MgaY(m, win))
        [] d = "mach64" -> plain(Mach64X(m.w, win.w, mode), Mach64Y(m.h, win.h, mode))
        [] d = "unichrome" -> reading(UnichromeX(m.w, win.w), UnichromeY(m.h, win.h),
                                      (UnichromeFetch(m) * 16) \div Bytes(m.fourcc))
        [] d = "sis" -> reading(sisX, SisY(m, win, mode),
                                (SisLineBuffer(m, sisX.from \div 2^16) + 1) * 8)
        [] d = "radeon" -> RadeonScale(m, win, mode)
        [] OTHER -> [none |-> TRUE]

\* By how much a window that starts off the screen moves what is shown: the SiS driver
\* tells the program to write there too, the Matrox and nVidia drivers do not.
MovedBy(d, m, win) ==
  CASE d = "nvidia" -> NvidiaMoved(m, win)
    [] d = "mga"    -> MgaMoved(m, win)
    [] OTHER        -> Moved(0, 0)

\* vidix_playback_t as vixConfigPlayback leaves it, beside what the program asked for.
Reported(d, p, m, asked, told, win) ==
  LET by == IF d = "sis" THEN SisMoved(m, win) ELSE Moved(0, 0)
  IN  [base |-> p.base, num |-> p.num, size |-> p.size, line |-> p.line, align |-> p.align,
       y |-> p.y + by.y, u |-> p.u + by.uv, v |-> p.v + by.uv,
       movie |-> m, asked |-> asked, told |-> told, win |-> win, moved |-> MovedBy(d, m, win)]

\* frame_size as the program passes it: 0, or what it was told for an earlier movie.
Told == {0} \cup (IF play = None THEN {} ELSE {play.size})

ConfigPlayback(m, asked, told, win, mode) ==
  /\ ~on /\ shown # Wild
  /\ m.fourcc \in Supported(driver) /\ Accepts(driver, m, asked)
  /\ LET p == Reported(driver, LayoutOf(driver, m, asked, told), m, asked, told, win)
     IN  /\ play' = p
         /\ FillTable(p)
         /\ IF Overruns(p) THEN shown' = Wild /\ scale' = None
            ELSE ShowFirst(p) /\ scale' = ScaleOf(driver, m, win, mode)
  /\ UNCHANGED <<driver, cur, on, selected>>

\* vixConfigPlayback returns an error: the program gives up on the movie.
ConfigRefused(m, asked) ==
  /\ ~on /\ shown # Wild
  /\ ~(m.fourcc \in Supported(driver) /\ Accepts(driver, m, asked))
  /\ play' = None
  /\ scale' = None
  /\ UNCHANGED <<driver, frames, cur, shown, on, selected>>

\* The Savage, S3 and ATI drivers write the first frame, the nVidia driver the
\* frame that was selected last, whatever movie that was for.
PlaybackOn ==
  /\ ~on /\ play # None /\ shown # Wild
  /\ on' = TRUE
  /\ CASE driver \in Ati \cup {"savage", "s3"} -> Show(FrameAddress(0))
       [] driver = "nvidia" -> Show(FrameAddress(cur))
       [] OTHER             -> UNCHANGED shown
  /\ UNCHANGED <<driver, play, frames, cur, scale, selected>>

PlaybackOff ==
  /\ on
  /\ on' = FALSE /\ selected' = None
  /\ UNCHANGED <<driver, play, frames, cur, scale, shown>>

\* A single frame is not selected: the Mach64 driver looks at how many there are, the
\* other ATI drivers at how many the program asked for.
Single == \/ driver = "mach64" /\ play.num = 1
          \/ driver \in {"radeon", "radeonhd"} /\ play.asked = 1

PlaybackFrameSelect(i) ==
  /\ on /\ i < play.num
  /\ selected' = i
  /\ IF Single THEN UNCHANGED shown ELSE Show(FrameAddress(i))
  /\ cur' = IF driver = "nvidia" THEN i ELSE cur
  /\ UNCHANGED <<driver, play, frames, on, scale>>

\* The nVidia driver restarts the overlay, on frame 0.
SetGrKeys ==
  /\ on
  /\ IF driver = "nvidia" THEN Show(FrameAddress(0)) ELSE UNCHANGED shown
  /\ UNCHANGED <<driver, play, frames, cur, on, scale, selected>>

\* What a driver does that has written over its own variables is not followed.
Adrift == shown = Wild /\ UNCHANGED vars

Next ==
  \/ \E m \in Movies, asked \in Asked, told \in Told, win \in Windows, mode \in Modes :
       ConfigPlayback(m, asked, told, win, mode)
  \/ \E m \in Movies, asked \in Asked : ConfigRefused(m, asked)
  \/ PlaybackOn
  \/ PlaybackOff
  \/ \E i \in 0..MaxFrames - 1 : PlaybackFrameSelect(i)
  \/ SetGrKeys
  \/ Adrift

Spec == Init /\ [][Next]_vars

-----------------------------------------------------------------------------
(***************************************************************************)
(* Properties.                                                             *)
(***************************************************************************)

\* What a program reads in vidix_playback_t: a driver never reports more
\* frames than offsets[] holds, and selects one that was reported.
TypeOK ==
  /\ driver \in Drivers
  /\ play # None =>
       /\ play.num \in 0..MaxFrames
       /\ {play.base, play.size, play.line, play.align, play.u, play.v} \subseteq Nat
  /\ frames \in [0..MaxFrames - 1 -> Nat]
  /\ cur \in 0..MaxFrames - 1
  /\ shown \in {None, Wild} \cup [y : Nat, u : Nat, v : Nat]
  /\ on \in BOOLEAN
  /\ selected \in (0..MaxFrames - 1) \cup {None}
  /\ on => play # None

\* The Matrox driver was told the size of the frames before it computed it.
Foretold == driver = "mga" => play.told >= play.size

\* The frames reported by vixConfigPlayback lie in the memory the driver mapped,
\* for the Matrox driver if it could know how large they are.
FramesInside ==
  play # None /\ Foretold => play.base + play.num * play.size <= Mapped(driver, play)

\* The program's lines: a line of the movie, rounded up to dest.pitch.y.
ProgramLine == AlignTo(Bytes(play.movie.fourcc) * play.movie.w, play.align)

\* What is said of lines and planes leaves out the drivers that report a coarser
\* alignment than they program, packed lines of the Matrox driver that do not
\* end at a multiple of 16 pixels, for which it does not round to any alignment,
\* UYVY on the Unichrome, of which the lines are laid out as those of a plane, and
\* heights of YVU9 of which the ATI drivers count too few lines.
Coarse ==
  \/ driver \in {"savage", "s3", "sis"}
  \/ driver = "mga" /\ play.movie.fourcc \in Packed /\ play.movie.w % 16 # 0
  \/ driver = "unichrome" /\ play.movie.fourcc = "UYVY"
  \/ driver \in Ati /\ play.movie.fourcc = "YVU9" /\ play.movie.h % 8 # 0

\* The program and the card agree on the length of a line: rounding a line up
\* to the alignment the driver reports gives the pitch it programs, for the
\* Permedia2 one of the few strides its texture unit has.
LineAgrees == play # None /\ ~Coarse => ProgramLine = play.line

\* A plane as the program writes it: where it starts and how long it is.
ProgramPlanes ==
  LET m      == play.movie
      s      == Sub(m.fourcc)
      chroma == (ProgramLine \div s) * (m.h \div s)
  IN  {[at |-> play.y, size |-> ProgramLine * m.h]} \cup
      (IF m.fourcc \in Planar
       THEN {[at |-> play.u, size |-> chroma], [at |-> play.v, size |-> chroma]}
       ELSE {})

\* A frame written with the reported pitch and offsets stays within frame_size,
\* and its planes do not overlap.
PlanesFit ==
  play # None /\ ~Coarse =>
    /\ \A a \in ProgramPlanes : a.at + a.size <= play.size
    /\ \A a, b \in ProgramPlanes :
         a # b => a.at + a.size <= b.at \/ b.at + b.size <= a.at

\* The program and the card agree on where a frame's lines and planes are.
ProgramFits == LineAgrees /\ PlanesFit

Visible(frame) ==
  /\ shown # None /\ shown.y = frame + play.y + play.moved.y
  /\ play.movie.fourcc \in Planar =>
       /\ shown.u = frame + play.u + play.moved.uv
       /\ shown.v = frame + play.v + play.moved.uv

\* The frames of which a selection is not followed: the card of the Matrox driver
\* holds four, vixSetGrKeys of the nVidia driver shows frame 0 until the next
\* selection, and chroma planes of YVU9 may start where the registers of the
\* cyberblade cannot point.
Unfollowed ==
  \/ driver = "nvidia"
  \/ driver = "mga" /\ selected >= 4
  \/ driver = "cyberblade" /\ play.u % 8 # 0

\* The frame the nVidia driver starts on was selected for a movie of more frames.
Outlived == driver = "nvidia" /\ cur >= play.num

\* While the overlay is on the card reads from a frame of this movie, not from
\* one of an earlier movie or from memory that is no frame at all; some drivers take
\* a movie of which no frame fits.
ShownIsTold ==
  on /\ shown # None /\ play.num > 0 /\ ~Outlived =>
    \E i \in 0..play.num - 1 : shown.y = Written(driver, play.base + i * play.size + play.y + play.moved.y)

\* The frame that is shown is the one the program selected, at the addresses,
\* plane by plane, at which the program writes it.
ShownIsSelected ==
  on /\ selected # None /\ ~Unfollowed =>
    Visible(play.base + selected * play.size)

\* What is on the screen follows the program, from one movie to the next; of a movie
\* that overruns the table of the Mach64 driver nothing is shown here.
ShownFollows == ShownIsTold /\ ShownIsSelected

\* Magnitudes.
Near(a, b, most) == a - b <= most /\ b - a <= most

\* What the registers of a card can say: 16 bits of an increment, or 20, in both directions
\* of the Mach64, whose increments share a register; five shifts of
\* the Radeon and four halvings of the Unichrome, an eighth on SiS, of which the pitch
\* times the lines left out must fit 12 bits, and no less than 32 by 24.
InReach(axis, a) ==
  CASE driver = "mach64" -> \A b \in {scale.x, scale.y} : b.src * b.one < 2^16 * b.out
    [] driver = "radeon" -> IF axis = "y" THEN a.src * a.one < 2^16 * a.out
                            ELSE 16 * a.out >= play.movie.w
    [] driver \in {"savage", "s3"} -> a.src < 32 * a.out
    [] driver = "unichrome" -> 16 * a.out >= a.src
    [] driver = "sis" -> a.out >= 32 /\ 8 * a.out >= a.src /\ play.line * (a.src \div a.out) < 4 * 4095
    [] OTHER -> TRUE

\* Not looked at: the Radeon driver computes the step of its own filter for pixels of
\* the screen where the overlay makes one of several, the SiS driver has the program
\* write where a window that is cut is read from, and the Matrox driver moves packed
\* lines by half, the nVidia driver lines by their width without what rounds it up.
Misjudged(axis) ==
  \/ driver = "radeon" /\ axis # "y" /\ scale.x.out < play.win.w
  \/ driver = "sis" /\ (play.win.x < 0 \/ play.win.y < 0)
  \/ axis = "y" /\ play.win.y < 0
     /\ (driver = "mga" => play.movie.fourcc \in Packed)
     /\ (driver = "nvidia" => play.movie.w % 32 # 0)

\* The movie fills its window: what the card steps through while it draws the part of
\* the window that is on the screen is what the movie has from there on, to a unit of
\* the increment for each pixel, a pixel of the window and three of the movie, and it
\* starts where the cut part ends, to eight pixels.  The accumulator of the Radeon starts
\* in the middle of a step and two pixels and a half ahead, and so ends in the movie.
WindowFilled ==
  scale # None =>
    \A axis \in DOMAIN scale \cap {"x", "y", "uv"} :
      LET a == scale[axis]
      IN  InReach(axis, a) /\ ~Misjudged(axis) =>
            /\ Near(a.from + a.out * a.inc * a.pre, a.src * a.one,
                    a.pre * (a.grain * a.out + a.inc + 3 * a.one))
            /\ Near(a.from \div a.one, (a.skip * a.src) \div (a.skip + a.out), 8)
            /\ axis = "x" /\ "start" \in DOMAIN scale =>
                 128 * (scale.start - 80) + (a.out - 1) * a.inc <= (a.src \div a.pre + 2) * a.one

\* The level of the line buffer of the cyberblade driver has nine bits, which packed
\* lines of 1023 pixels and more do not fit.
LevelFits == driver = "cyberblade" => play.line < 2046

\* Lines of the movie come in whole: what the card fetches of a line, in groups of
\* pixels, covers it; it takes every line of every plane; and the filter of four taps
\* makes it neither lighter nor darker.
MovieWhole ==
  scale # None =>
    LET m == play.movie
    IN  /\ "reads" \in DOMAIN scale /\ LevelFits =>
             scale.x.from \div scale.x.one + scale.reads >= m.w
        /\ "lines" \in DOMAIN scale =>
             scale.lines.y = m.h /\ scale.lines.uv * SurfaceRowSub(Surface(m.fourcc)) = m.h
        /\ "taps" \in DOMAIN scale =>
             \A c \in scale.taps : c[1] + c[2] + c[3] + c[4] = 32
=============================================================================
