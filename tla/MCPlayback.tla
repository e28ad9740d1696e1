----------------------------- MODULE MCPlayback -----------------------------
\* An instance of Playback: movies of real sizes one after another, and every
\* width of a movie by itself.
EXTENDS Playback

Movie(f, w, h) == [fourcc |-> f, w |-> w, h |-> h, pitch |-> 0]

\* Formats that agree with the offsets and the alignment the drivers report.
Plain == {"YUY2", "YV12", "I420", "BGR16", "BGR32"}

\* A program that knows the pitch of its own lines passes it: 64 and 128 are
\* taken by the ATI drivers, 48 is not.
Mixed == {Movie(f, w, h) : f \in Plain, w \in {4, 130, 352}, h \in {2, 240}}
         \cup {Movie("YUY2", 720, 576), Movie("BGR32", 480, 360),
               Movie("UYVY", 352, 240), Movie("YVU9", 36, 12)}
         \cup {[Movie("YV12", 352, 240) EXCEPT !.pitch = p] : p \in {48, 64, 128}}

\* Every even width up to 1536; for the format of coarsest chroma those divisible
\* by 4.
Widths == {Movie(f, w, 4) : f \in {"YUY2", "YV12", "BGR32"}, w \in {2 * k : k \in 2..768}}
          \cup {Movie("YVU9", 4 * k, 8) : k \in 1..384}

\* Movies whose scaling is looked at.
Scaled == {Movie(f, w, h) : f \in Plain \cup {"YVU9"},
                            w \in {32, 96, 352, 720, 1920}, h \in {32, 240, 1080}}

MCMovies == Mixed \cup Widths \cup Scaled

Window(x, y, w, h) == [x |-> x, y |-> y, w |-> w, h |-> h]
Unscaled(m) == Window(0, 0, m.w, m.h)

Shrunk == {Window(0, 0, w, h) : w \in {32, 41, 100, 353, 700, 1280, 1900}, h \in {24, 75, 239, 480, 1081}}
OffScreen == {Window(x, y, 640, 480) : x \in {-200, -7, 0}, y \in {-111, 0}}

MCWindows == Shrunk \cup OffScreen \cup {Unscaled(m) : m \in MCMovies}

Mode(repl, dbl, inter, panel) == [repl |-> repl, dbl |-> dbl, inter |-> inter, panel |-> panel]
Simple == Mode(1, FALSE, FALSE, 0)
MCModes == {Simple, Mode(2, FALSE, FALSE, 0), Mode(1, TRUE, FALSE, 0),
            Mode(1, FALSE, TRUE, 0), Mode(1, FALSE, FALSE, 768)}

\* Only the Matrox driver looks at the size it is told, and the drivers named here at
\* the mode of the screen; of a window off the screen three have a part cut off.
MCTold == IF driver = "mga" THEN Told ELSE {0}
ModesLookedAt == IF driver \in {"mach64", "radeon", "sis"} THEN MCModes ELSE {Simple}
WindowsLookedAt == IF driver \in {"mga", "nvidia", "sis"} THEN Shrunk \cup OffScreen ELSE Shrunk

\* Three frames fit the table of the Mach64 driver, five do not; what one movie leaves in
\* it for another is looked at for some of them.
AskedLookedAt == IF driver = "mach64" THEN Asked ELSE Asked \ {3}
MixedLookedAt == IF driver = "mach64" THEN {m \in Mixed : m.w \in {36, 352, 480, 720} /\ m.h # 2}
                 ELSE Mixed

Choose(S, num) ==
  \E m \in S, asked \in num :
    \/ ConfigRefused(m, asked)
    \/ \E told \in MCTold : ConfigPlayback(m, asked, told, Unscaled(m), Simple)

\* A movie of Widths or one that is scaled is the only one that is played; a movie of
\* which no frame fits is not, and another one is tried.
Fresh == play = None /\ shown = None /\ \A i \in DOMAIN frames : frames[i] = 0

MCNext ==
  \/ Fresh /\ Choose(Widths, {2})
  \/ Fresh /\ \E m \in Scaled, win \in WindowsLookedAt, mode \in ModesLookedAt :
                      ConfigPlayback(m, 2, 0, win, mode)
  \/ (play # None /\ play.num > 0 => play.movie \in Mixed /\ play.win = Unscaled(play.movie))
     /\ Choose(MixedLookedAt, AskedLookedAt)
  \/ PlaybackOn
  \/ PlaybackOff
  \/ play # None /\ play.movie \in Mixed /\ play.win = Unscaled(play.movie)
     /\ (SetGrKeys \/ \E i \in 0..MaxFrames - 1 : PlaybackFrameSelect(i))
  \/ Adrift

MCSpec == Init /\ [][MCNext]_vars
=============================================================================
