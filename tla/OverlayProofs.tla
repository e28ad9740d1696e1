---------------------------- MODULE OverlayProofs ----------------------------
(***************************************************************************)
(* What the module Overlay promises, for every colour, desktop and sequence *)
(* of calls: the overlay is shown while playback is on, where and with the *)
(* settings the program asked for last, and the desktop has its key back.  *)
(* Each driver has an invariant of its own, which says what it remembers   *)
(* between calls, in its memory or on the card, and when that is to be     *)
(* trusted.                                                                *)
(***************************************************************************)
EXTENDS Overlay, TLAPS

-----------------------------------------------------------------------------
(***************************************************************************)
(* Types.                                                                  *)
(***************************************************************************)
Asks     == [op : {"false", "true", "alpha"}, colour : 0 .. 255]
Equals   == [Parts -> Values]
Saves    == {None} \cup [cmp : Modes, key : Int]
Cards    == [depth : {16, 32}, lit : BOOLEAN, whole : BOOLEAN, cmp : Modes, key : Int,
             eq : Equals, deint : BOOLEAN]
Memories == [req : Asks, saved : Saves, eq : Equals, deint : BOOLEAN, enable : BOOLEAN,
             fresh : BOOLEAN, mode : {"key", "always"}]

TypeOK ==
  /\ driver \in Known /\ phase \in {"none", "loaded", "ready", "on", "off"}
  /\ card \in Cards /\ drv \in Memories
  /\ asked \in {None} \cup Requests(driver)
  /\ wish \in [eq : Equals, deint : BOOLEAN]
  /\ stops \in {"never", "before", "since"}

-----------------------------------------------------------------------------
(***************************************************************************)
(* The invariant.                                                          *)
(***************************************************************************)
Loaded     == phase # "none"
Configured == phase \in {"ready", "on", "off"}

\* The overlay is enabled from vixPlaybackOn to vixPlaybackOff.
Dimmed ==
  /\ phase = "on" => card.lit = TRUE
  /\ phase # "on" => card.lit = FALSE

\* The settings are in the driver's memory; the S3 driver forgets its colours.
Remembers ==
  Loaded => (driver # "s3" => drv.eq = wish.eq) /\ drv.deint = wish.deint

\* And so is the last key request.
Noted == Loaded /\ asked # None => drv.req = asked

\* The card carries out a request to key on this value, or to stop keying.
InForce(r, key) ==
  /\ r.op = "true" => card.cmp = "key" /\ card.key = key
  /\ r.op = "false" => card.cmp = "always"

\* What vixInit saved is what the desktop had.
DeskKey ==
  /\ ~Loaded => card.key = Desk
  /\ Loaded  => drv.saved \in [cmp : Modes, key : {Desk}]
DeskMode ==
  /\ ~Loaded => card.cmp = "desk"
  /\ Loaded  => drv.saved = [cmp |-> "desk", key |-> Desk]

CyberbladeInv ==
  /\ Dimmed /\ DeskKey
  /\ Configured =>
       /\ card.whole = TRUE /\ card.cmp = "key" /\ card.eq = drv.eq
       /\ card.key = Painted(card, drv.req.colour)

SisInv ==
  /\ Dimmed
  /\ Loaded => drv.req.op # "alpha"
  /\ Configured =>
       card.whole = TRUE /\ card.eq = drv.eq /\ InForce(drv.req, drv.req.colour)

\* The FIFO is set for a movie by vixConfigPlayback only.
UnichromeInv ==
  /\ Dimmed
  /\ Loaded /\ asked # None => InForce(asked, asked.colour % 32)
  /\ phase \in {"ready", "on"} /\ stops # "since" => card.whole = TRUE
  /\ phase = "off" => stops = "since"

\* The texture unit is on from vixConfigPlayback.
Pm2Inv ==
  /\ asked = None
  /\ phase \in {"ready", "on"} /\ stops # "since" => card.lit = TRUE /\ card.whole = TRUE
  /\ phase = "off" => card.lit = FALSE /\ stops = "since"

\* The two variables of one register.
Pm3Inv ==
  /\ Dimmed /\ DeskKey
  /\ Loaded /\ phase # "on" => drv.enable = FALSE
  /\ phase = "on" => drv.enable = TRUE
  /\ Loaded /\ asked # None =>
       /\ InForce(asked, asked.colour) /\ card.cmp = drv.mode
  /\ Configured => card.whole = TRUE

\* A request to stop keying leaves the colour of the one before; what is noted
\* is written whenever the overlay is started, and it is once a movie is configured.
NvidiaInv ==
  /\ Loaded => drv.saved # None
  /\ Loaded /\ asked # None =>
       drv.req.op = asked.op /\ (asked.op = "true" => drv.req.colour = asked.colour)
  /\ Configured => drv.fresh = TRUE
  /\ phase = "on" =>
       /\ card.lit = TRUE /\ card.whole = TRUE
       /\ InForce(drv.req, NvidiaKey(card, drv.req.colour))

\* The key of the desktop is on the card as long as nothing was saved.
MgaInv ==
  /\ ~Loaded => card.lit = FALSE /\ card.key = Desk /\ card.cmp = "desk"
  /\ Loaded =>
       /\ card.lit = drv.enable
       /\ drv.saved = None => card.key = Desk /\ card.cmp = "desk"
       /\ drv.saved # None => drv.saved = [cmp |-> "desk", key |-> Desk]
       /\ asked # None => InForce(asked, Painted(card, asked.colour))
  /\ Configured => card.eq = drv.eq
  /\ phase \in {"ready", "on"} /\ stops # "since" =>
       card.whole = TRUE /\ drv.fresh = TRUE /\ drv.enable = TRUE
  /\ phase \in {"loaded", "off"} => drv.enable = FALSE
  /\ phase = "off" => stops = "since"

\* A key of 0 is none.
StreamsKey ==
  Loaded /\ asked # None /\ ~(asked.op = "true" /\ asked.colour = 0) =>
    InForce(asked, LowBits(card, asked.colour))

\* The streams are on until playback is turned off.
S3Inv ==
  /\ StreamsKey
  /\ Loaded /\ stops = "never" => card.lit = TRUE
  /\ phase = "on" /\ stops = "never" => card.whole = TRUE
  /\ phase = "off" => card.lit = FALSE /\ stops = "since"

SavageInv ==
  /\ StreamsKey
  /\ Loaded /\ drv.enable = TRUE => card.lit = TRUE
  /\ phase = "ready" => drv.fresh = TRUE
  /\ phase = "on" => card.lit = TRUE /\ drv.enable = TRUE
  /\ phase = "on" /\ stops # "since" => card.whole = TRUE
  /\ phase = "off" => card.lit = FALSE /\ stops = "since"

Mach64Inv ==
  /\ Dimmed /\ DeskKey /\ DeskMode
  /\ phase = "on" => card.whole = TRUE
  /\ Loaded /\ asked # None => InForce(asked, Painted(card, asked.colour))
  /\ Loaded /\ driver = "mach64" => card.eq = drv.eq

\* vixConfigPlayback clears the key and the deinterlacer, vixPlaybackOn writes
\* them from the driver's memory.
RadeonInv ==
  /\ Dimmed /\ DeskKey /\ DeskMode
  /\ asked # None /\ asked.op = "alpha" => card.depth = 32
  /\ Loaded /\ driver = "radeon" => card.eq = drv.eq
  /\ phase = "on" =>
       /\ card.whole = TRUE /\ card.deint = drv.deint
       /\ asked # None =>
            /\ asked.op = "true" =>
                 /\ card.cmp = IF driver = "radeon" THEN "bits" ELSE "key"
                 /\ card.key = Painted(card, asked.colour)
            /\ asked.op = "alpha" => card.cmp = "alpha"
            /\ asked.op = "false" => card.cmp = "always"

RadeonhdInv == Dimmed /\ (phase = "on" => card.whole = TRUE)

IInv ==
  /\ TypeOK /\ Remembers
  /\ driver # "nvidia" => Noted
  /\ driver = "cyberblade" => CyberbladeInv
  /\ driver = "sis"        => SisInv
  /\ driver = "unichrome"  => UnichromeInv
  /\ driver = "pm2"        => Pm2Inv
  /\ driver = "pm3"        => Pm3Inv
  /\ driver = "nvidia"     => NvidiaInv
  /\ driver = "mga"        => MgaInv
  /\ driver = "s3"         => S3Inv
  /\ driver = "savage"     => SavageInv
  /\ driver \in {"mach64", "mach64_old"} => Mach64Inv
  /\ driver \in {"radeon", "rage128"}    => RadeonInv
  /\ driver = "radeonhd"   => RadeonhdInv

-----------------------------------------------------------------------------
(***************************************************************************)
(* One field of a card, or of a driver's memory, at a time.                *)
(***************************************************************************)
LEMMA CardPut ==
  ASSUME NEW c \in Cards
  PROVE  /\ \A b \in BOOLEAN : [c EXCEPT !.lit = b] \in Cards
         /\ \A b \in BOOLEAN : [c EXCEPT !.whole = b] \in Cards
         /\ \A b \in BOOLEAN : [c EXCEPT !.deint = b] \in Cards
         /\ \A k \in Int : [c EXCEPT !.key = k] \in Cards
         /\ \A k \in Modes : [c EXCEPT !.cmp = k] \in Cards
         /\ \A k \in Equals : [c EXCEPT !.eq = k] \in Cards
  BY DEF Cards

\* The mode, the key and the colours together.
LEMMA CardKeyed ==
  ASSUME NEW c \in Cards, NEW k \in Modes, NEW x \in Int
  PROVE  /\ [c EXCEPT !.cmp = k, !.key = x] \in Cards
         /\ \A e \in Equals : [c EXCEPT !.cmp = k, !.key = x, !.eq = e] \in Cards
  <1>1. [c EXCEPT !.cmp = k] \in Cards
    BY CardPut
  <1>2. [c EXCEPT !.cmp = k, !.key = x] \in Cards
    BY <1>1, CardPut
  <1>3. \A e \in Equals : [c EXCEPT !.cmp = k, !.key = x, !.eq = e] \in Cards
    BY <1>2, CardPut
  <1> QED BY <1>2, <1>3

LEMMA MemoryPut ==
  ASSUME NEW m \in Memories
  PROVE  /\ \A b \in BOOLEAN : [m EXCEPT !.enable = b] \in Memories
         /\ \A b \in BOOLEAN : [m EXCEPT !.fresh = b] \in Memories
         /\ \A b \in BOOLEAN : [m EXCEPT !.deint = b] \in Memories
         /\ \A k \in {"key", "always"} : [m EXCEPT !.mode = k] \in Memories
         /\ \A r \in Asks : [m EXCEPT !.req = r] \in Memories
         /\ \A k \in Equals : [m EXCEPT !.eq = k] \in Memories
         /\ \A k \in Saves : [m EXCEPT !.saved = k] \in Memories
  BY DEF Memories

\* What can be written there.
LEMMA Fields ==
  /\ Neutral \in Equals /\ Memory \in Memories
  /\ "always" \in Modes /\ "key" \in Modes /\ "bits" \in Modes /\ "alpha" \in Modes
  /\ "other" \in Modes /\ 0 \in Int
  /\ \A c \in Cards : c.cmp \in Modes /\ c.key \in Int /\ c.eq \in Equals
  /\ \A m \in Memories :
       /\ m.req \in Asks /\ m.eq \in Equals /\ m.deint \in BOOLEAN
       /\ m.enable \in BOOLEAN /\ m.fresh \in BOOLEAN /\ m.mode \in Modes
       /\ m.saved # None => m.saved.key \in Int /\ m.saved.cmp \in Modes
  /\ \A r \in Asks : r.colour \in Int /\ r.colour % 32 \in Int
  /\ \A r \in Asks, c \in Cards :
       /\ Painted(c, r.colour) \in Int /\ LowBits(c, r.colour) \in Int
       /\ NvidiaKey(c, r.colour) \in Int
  <1>1. Neutral \in Equals
    BY DEF Neutral, Equals, Values
  <1>2. Memory \in Memories
    <2>1. Request("false", 0) \in Asks
      BY DEF Request, Asks
    <2> QED BY <1>1, <2>1 DEF Memory, Memories, Saves
  <1>3. /\ "always" \in Modes /\ "key" \in Modes /\ "bits" \in Modes /\ "alpha" \in Modes
        /\ "other" \in Modes /\ 0 \in Int
    BY DEF Modes
  <1>4. \A c \in Cards : c.cmp \in Modes /\ c.key \in Int /\ c.eq \in Equals
    BY DEF Cards
  <1>5. \A m \in Memories :
          /\ m.req \in Asks /\ m.eq \in Equals /\ m.deint \in BOOLEAN
          /\ m.enable \in BOOLEAN /\ m.fresh \in BOOLEAN /\ m.mode \in Modes
          /\ m.saved # None => m.saved.key \in Int /\ m.saved.cmp \in Modes
    BY DEF Memories, Saves, Modes
  <1>6. \A r \in Asks : r.colour \in Int /\ r.colour % 32 \in Int
    BY DEF Asks
  <1>7. \A r \in Asks, c \in Cards :
          /\ Painted(c, r.colour) \in Int /\ LowBits(c, r.colour) \in Int
          /\ NvidiaKey(c, r.colour) \in Int
    <2> SUFFICES ASSUME NEW r \in Asks, NEW c \in Cards
                 PROVE  /\ Painted(c, r.colour) \in Int /\ LowBits(c, r.colour) \in Int
                        /\ NvidiaKey(c, r.colour) \in Int
      OBVIOUS
    <2>1. r.colour \in Int
      BY DEF Asks
    <2>2. Painted(c, r.colour) \in Int /\ LowBits(c, r.colour) \in Int
      BY <2>1 DEF Painted, LowBits
    <2>3. \A n \in Int : 16 + (n % 16) \in Int
      OBVIOUS
    <2> QED BY <2>2, <2>3 DEF NvidiaKey
  <1> QED BY <1>1, <1>2, <1>3, <1>4, <1>5, <1>6, <1>7

LEMMA RequestsTyped ==
  ASSUME NEW d \in Known
  PROVE  Requests(d) \subseteq Asks
  BY ColoursAssumption DEF Requests, Asks

-----------------------------------------------------------------------------
(***************************************************************************)
(* What the drivers write are cards and memories again.                    *)
(***************************************************************************)
LEMMA SwitchesTyped ==
  ASSUME NEW c \in Cards
  PROVE  /\ Lit(c) \in Cards /\ Dark(c) \in Cards
         /\ Setup(c) \in Cards /\ Spoilt(c) \in Cards
         /\ \A k \in Int : \A op : Keyed(c, op, k) \in Cards
         /\ \A m \in Memories :
              m.saved # None => KeyBack(c, m) \in Cards /\ KeysBack(c, m) \in Cards
  BY CardPut, Fields DEF Lit, Dark, Setup, Spoilt, Keyed, KeyBack, KeysBack

LEMMA SavingTyped ==
  ASSUME NEW c \in Cards, NEW m \in Memories
  PROVE  Saving(c, m) \in Memories /\ mga_save(c, m) \in Memories
  <1>1. [cmp |-> c.cmp, key |-> c.key] \in Saves
    BY Fields DEF Saves
  <1> QED BY <1>1, MemoryPut DEF Saving, mga_save

LEMMA StreamsTyped ==
  ASSUME NEW c \in Cards
  PROVE  S3StreamsOn(c) \in Cards /\ SavageStreamsOn(c) \in Cards
  <1> DEFINE k == Spoilt(Lit(c))
  <1>1. k \in Cards
    BY SwitchesTyped
  <1>2. [k EXCEPT !.cmp = "other", !.key = 0, !.eq = Neutral] \in Cards
    BY <1>1, CardKeyed, Fields
  <1> QED
    BY <1>2 DEF S3StreamsOn, S3InitStreamsOld, SavageStreamsOn, SavageInitStreamsOld

LEMMA InitTyped ==
  ASSUME NEW d \in Known, NEW c \in Cards
  PROVE  InitMemory(d, c) \in Memories /\ InitCard(d, c) \in Cards
  <1>1. Saving(c, Memory) \in Memories /\ [Memory EXCEPT !.enable = TRUE] \in Memories
    BY SavingTyped, MemoryPut, Fields
  <1>2. S3StreamsOn(c) \in Cards /\ SavageStreamsOn(c) \in Cards
    BY StreamsTyped
  <1>3. Mach64Init(c) \in Cards /\ radeon_vid_make_default(c) \in Cards
    <2>1. [c EXCEPT !.eq = Neutral] \in Cards
      BY CardPut, Fields
    <2> DEFINE k == mach64_reset_regs(c)
    <2>2. k \in Cards
      BY <2>1, SwitchesTyped DEF mach64_reset_regs
    <2>3. [k EXCEPT !.eq = Neutral] \in Cards
      BY <2>2, CardPut, Fields
    <2>4. mach64_vid_make_default(k) \in Cards
      BY <2>3, CardKeyed, Fields DEF mach64_vid_make_default
    <2> QED
      BY <2>1, <2>4
      DEF Mach64Init, radeon_vid_make_default, make_default_gamma_correction
  <1>4. InitMemory(d, c) \in Memories
    BY <1>1, Fields DEF InitMemory
  <1> QED BY <1>2, <1>3, <1>4 DEF InitCard

LEMMA GammaTyped ==
  ASSUME NEW d, NEW c \in Cards
  PROVE  \A v \in Values : Gamma(d, c, v) \in Cards
  <1>1. \A v \in Values : [c.eq EXCEPT !["brightness"] = v] \in Equals
    BY Fields DEF Equals, Parts
  <1> QED BY <1>1, CardPut DEF Gamma

LEMMA set_colorkeyTyped ==
  ASSUME NEW c \in Cards, NEW m \in Memories
  PROVE  set_colorkey(c, m) \in Cards
  <1>1. Keyed(c, m.req.op, 0) \in Cards
    BY SwitchesTyped
  <1> QED BY <1>1, CardPut, Fields DEF set_colorkey

LEMMA MgaTyped ==
  ASSUME NEW c \in Cards, NEW m \in Memories
  PROVE  mga_write_besregs(c, m) \in Cards /\ mga_vid_write_regs(c, m) \in Cards
  <1>1. \A k \in Cards : mga_write_besregs(k, m) \in Cards
    <2> TAKE k \in Cards
    <2>1. [k EXCEPT !.lit = m.enable] \in Cards
      BY CardPut, Fields
    <2>2. [k EXCEPT !.lit = m.enable, !.whole = m.fresh] \in Cards
      BY <2>1, CardPut, Fields
    <2>3. [k EXCEPT !.lit = m.enable, !.whole = m.fresh, !.eq = m.eq] \in Cards
      BY <2>2, CardPut, Fields
    <2> QED BY <2>3 DEF mga_write_besregs
  <1>2. mga_colkey(c, m) \in Cards
    BY CardPut, Fields, SwitchesTyped DEF mga_colkey
  <1> QED BY <1>1, <1>2 DEF mga_vid_write_regs

LEMMA ConfigTyped ==
  ASSUME NEW d \in Known, NEW c \in Cards, NEW m \in Memories
  PROVE  ConfigMemory(d, c, m) \in Memories /\ ConfigCard(d, c, m) \in Cards
  <1>1. ConfigMemory(d, c, m) \in Memories
    BY SavingTyped, MemoryPut, Fields DEF ConfigMemory
  <1>2. CyberbladeConfig(c, m) \in Cards
    BY CardPut, Fields, SwitchesTyped
    DEF CyberbladeConfig, CyberbladeSetEq, CyberbladeSetGrKeys
  <1>3. SisConfig(c, m) \in Cards
    <2>1. init_overlay(c) \in Cards
      BY CardPut, Fields, SwitchesTyped DEF init_overlay
    <2>2. set_colorkey(init_overlay(c), m) \in Cards
      BY <2>1, set_colorkeyTyped
    <2>3. SisSetEq(set_colorkey(init_overlay(c), m), m) \in Cards
      BY <2>2, CardPut, Fields DEF SisSetEq
    <2> QED BY <2>3, SwitchesTyped DEF SisConfig, set_overlay
  <1>4. MgaConfig(c, m) \in Cards
    BY MgaTyped DEF MgaConfig
  <1>5. mach64_vid_stop_video(d, c) \in Cards /\ radeon_vid_stop_video(c) \in Cards
    BY CardPut, Fields, SwitchesTyped, GammaTyped
    DEF mach64_vid_stop_video, radeon_vid_stop_video, Values
  <1>6. /\ UnichromeConfig(c) \in Cards /\ Pm2Config(c) \in Cards
        /\ radeonhd_stop_video(c) \in Cards
    BY SwitchesTyped DEF UnichromeConfig, Pm2Config, radeonhd_stop_video
  <1>7. ConfigCard(d, c, m) \in Cards
    BY <1>2, <1>3, <1>4, <1>5, <1>6, SwitchesTyped DEF ConfigCard, Known
  <1> QED BY <1>1, <1>7

LEMMA radeon_keyTyped ==
  ASSUME NEW d, NEW c \in Cards, NEW m \in Memories
  PROVE  radeon_key(d, c, m) \in Cards
  <1>1. Painted(c, m.req.colour) \in Int
    BY Fields
  <1> QED BY <1>1, CardPut, CardKeyed, Fields DEF radeon_key

LEMMA StartTyped ==
  ASSUME NEW c \in Cards, NEW m \in Memories
  PROVE  rivatv_overlay_start(c, m) \in Cards
  <1> DEFINE k == Setup(Lit(c))
             n == [k EXCEPT !.eq = m.eq, !.cmp = Keyed(c, m.req.op, 0).cmp]
  <1>1. k \in Cards /\ Keyed(c, m.req.op, 0) \in Cards
    BY SwitchesTyped
  <1>2. Keyed(c, m.req.op, 0).cmp \in Modes
    BY <1>1, Fields
  <1>3. [k EXCEPT !.eq = m.eq] \in Cards
    BY <1>1, CardPut, Fields
  <1>4. n \in Cards
    BY <1>2, <1>3, CardPut
  <1> HIDE DEF n
  <1>5. rivatv_overlay_colorkey(n, m) \in Cards
    BY <1>4, CardPut, Fields DEF rivatv_overlay_colorkey
  <1> QED BY <1>5 DEF rivatv_overlay_start, n

LEMMA SavageKeyTyped ==
  ASSUME NEW c \in Cards, NEW m \in Memories
  PROVE  SavageSetColorKeyOld(c, m) \in Cards /\ S3SetColorKeyOld(c, m) \in Cards
  <1>1. LowBits(c, m.req.colour) \in Int
    BY Fields
  <1>2. Keyed(c, "true", LowBits(c, m.req.colour)) \in Cards
    BY <1>1, SwitchesTyped
  <1>3. [c EXCEPT !.cmp = "always", !.key = 0] \in Cards
    BY CardKeyed, Fields
  <1> QED BY <1>2, <1>3 DEF SavageSetColorKeyOld, S3SetColorKeyOld

LEMMA OnTyped ==
  ASSUME NEW d \in Known, NEW c \in Cards, NEW m \in Memories
  PROVE  OnMemory(d, m) \in Memories /\ OnCard(d, c, m) \in Cards
  <1>1. OnMemory(d, m) \in Memories
    BY MemoryPut DEF OnMemory
  <1>2. SavageDisplayVideoOld(c, m) \in Cards
    <2>1. SavageSetColorOld(SavageStreamsOn(c)) \in Cards
      BY StreamsTyped, CardPut, Fields DEF SavageSetColorOld
    <2> QED BY <2>1, SavageKeyTyped, CardPut, Fields DEF SavageDisplayVideoOld
  <1>3. Pm3Control(c, OnMemory(d, m)) \in Cards
    BY <1>1, CardPut, Fields DEF Pm3Control
  <1>4. radeon_vid_display_video(d, c, m) \in Cards
    <2>1. radeon_key(d, Setup(Lit(c)), m) \in Cards
      BY SwitchesTyped, radeon_keyTyped
    <2> QED BY <2>1, CardPut, Fields DEF radeon_vid_display_video
  <1>5. /\ S3DisplayVideoOld(c) \in Cards /\ radeonhd_display_video(c) \in Cards
        /\ mach64_vid_display_video(d, c) \in Cards
    BY SwitchesTyped, GammaTyped
    DEF S3DisplayVideoOld, radeonhd_display_video, mach64_vid_display_video, Values
  <1>6. OnCard(d, c, m) \in Cards
    BY <1>2, <1>3, <1>4, <1>5, SwitchesTyped, StartTyped DEF OnCard
  <1> QED BY <1>1, <1>6

LEMMA OffTyped ==
  ASSUME NEW d \in Known, NEW c \in Cards, NEW m \in Memories,
         d = "nvidia" => m.saved # None
  PROVE  OffMemory(d, c, m) \in Memories /\ OffCard(d, c, m) \in Cards
  <1>1. OffMemory(d, c, m) \in Memories
    BY SavingTyped, MemoryPut DEF OffMemory
  <1>2. mga_vid_write_regs(c, OffMemory(d, c, m)) \in Cards
    BY <1>1, MgaTyped
  <1>3. mach64_vid_stop_video(d, c) \in Cards /\ radeon_vid_stop_video(c) \in Cards
    BY CardPut, Fields, SwitchesTyped, GammaTyped
    DEF mach64_vid_stop_video, radeon_vid_stop_video, Values
  <1>4. CASE d = "nvidia"
    BY <1>4, SwitchesTyped, <1>1 DEF OffCard, rivatv_overlay_stop
  <1>5. CASE d # "nvidia"
    <2>1. /\ close_overlay(c) \in Cards /\ UnichromeOff(c) \in Cards /\ Pm2Off(c) \in Cards
          /\ S3StreamsOff(c) \in Cards /\ SavageStreamsOff(c) \in Cards
          /\ radeonhd_stop_video(c) \in Cards
      BY SwitchesTyped
      DEF close_overlay, UnichromeOff, Pm2Off, S3StreamsOff, SavageStreamsOff,
          radeonhd_stop_video
    <2> QED BY <1>1, <1>2, <1>3, <1>5, <2>1, SwitchesTyped DEF OffCard, Known
  <1> QED BY <1>4, <1>5

LEMMA KeyTyped ==
  ASSUME NEW d \in Known, NEW c \in Cards, NEW m \in Memories, NEW r \in Asks
  PROVE  /\ KeyMemory(d, c, m, r) \in Memories
         /\ d \notin NoKeys => KeyCard(d, c, m) \in Cards
  <1>1. KeyMemory(d, c, m, r) \in Memories
    <2>1. NvidiaRequest(m, r) \in Memories
      <3>1. [m.req EXCEPT !.op = "false"] \in Asks
        BY Fields DEF Asks
      <3> QED BY <3>1, MemoryPut DEF NvidiaRequest
    <2>2. Pm3Request(m, r) \in Memories
      <3>1. [m EXCEPT !.req = r] \in Memories
        BY MemoryPut
      <3>2. CASE r.op = "true"
        BY <3>1, <3>2, MemoryPut DEF Pm3Request
      <3>3. CASE r.op # "true"
        BY <3>1, <3>3, MemoryPut DEF Pm3Request
      <3> QED BY <3>2, <3>3
    <2>3. [mga_save(c, m) EXCEPT !.req = r] \in Memories /\ [m EXCEPT !.req = r] \in Memories
      BY SavingTyped, MemoryPut
    <2> QED BY <2>1, <2>2, <2>3 DEF KeyMemory
  <1>2. /\ CyberbladeSetGrKeys(c, m) \in Cards /\ mga_vid_write_regs(c, m) \in Cards
        /\ NvidiaSetGrKeys(c, m) \in Cards
    BY CardPut, Fields, StartTyped, MgaTyped DEF CyberbladeSetGrKeys, NvidiaSetGrKeys
  <1>3. /\ set_colorkey(c, m) \in Cards /\ UnichromeSetGrKeys(c, m) \in Cards
        /\ Mach64SetGrKeys(c, m) \in Cards
    <2>1. m.req.colour \in Int /\ m.req.colour % 32 \in Int /\ Painted(c, m.req.colour) \in Int
      BY Fields
    <2>2. [c EXCEPT !.key = 0] \in Cards
      BY CardPut
    <2> QED
      BY <2>1, <2>2, SwitchesTyped, set_colorkeyTyped
      DEF UnichromeSetGrKeys, Mach64SetGrKeys
  <1>4. Pm3SetGrKeys(c, m) \in Cards
    BY CardPut, Fields DEF Pm3SetGrKeys, Pm3Control
  <1>5. radeonhd_set_gr_key(c, m) \in Cards
    <2>1. m.req.colour \in Int
      BY Fields
    <2> QED BY <2>1, CardKeyed, Fields DEF radeonhd_set_gr_key
  <1>6. d \notin NoKeys => KeyCard(d, c, m) \in Cards
    BY <1>2, <1>3, <1>4, <1>5, SavageKeyTyped, radeon_keyTyped DEF KeyCard, Known, NoKeys
  <1> QED BY <1>1, <1>6

LEMMA EqTyped ==
  ASSUME NEW d \in Known, NEW c \in Cards, NEW m \in Memories
  PROVE  EqCard(d, c, m) \in Cards
  <1>1. [c EXCEPT !.eq = m.eq] \in Cards
    BY CardPut, Fields
  <1>2. Gamma(d, c, m.eq["brightness"]) \in Cards
    <2>1. m.eq["brightness"] \in Values
      BY Fields DEF Equals, Parts
    <2> QED BY <2>1, GammaTyped
  <1> QED
    BY <1>1, <1>2
    DEF EqCard, CyberbladeSetEq, SisSetEq, S3SetColorOld, MgaSetEq, Mach64SetEq,
        radeon_set_transform

\* What these drivers give back to the desktop they have saved.
LEMMA DestroyTyped ==
  ASSUME NEW d \in Known, NEW c \in Cards, NEW m \in Memories,
         d \in {"cyberblade", "pm3", "mach64", "mach64_old", "radeon", "rage128"} =>
           m.saved # None
  PROVE  DestroyCard(d, c, m) \in Cards
  <1>1. MgaDestroy(c, [m EXCEPT !.enable = FALSE, !.fresh = FALSE]) \in Cards
    <2> DEFINE n == [m EXCEPT !.enable = FALSE, !.fresh = FALSE]
    <2>1. n \in Memories
      BY MemoryPut
    <2> HIDE DEF n
    <2>2. MgaDestroy(c, n) \in Cards
      BY <2>1, MgaTyped, SwitchesTyped DEF MgaDestroy
    <2> QED BY <2>2 DEF n
  <1>2. CASE d \in {"cyberblade", "pm3", "mach64", "mach64_old", "radeon", "rage128"}
    BY <1>2, SwitchesTyped DEF DestroyCard, CyberbladeDestroy
  <1> QED BY <1>1, <1>2 DEF DestroyCard

-----------------------------------------------------------------------------
(***************************************************************************)
(* What all drivers have in common: types, and the memory of settings.     *)
(***************************************************************************)
LEMMA TypeHolds == IInv /\ Next => TypeOK'
  <1> SUFFICES ASSUME IInv, Next
               PROVE  TypeOK'
    OBVIOUS
  <1>1. /\ driver \in Known /\ card \in Cards /\ drv \in Memories
        /\ wish \in [eq : Equals, deint : BOOLEAN]
    BY DEF IInv, TypeOK
  <1>2. phase # "none" /\ driver = "nvidia" => drv.saved # None
    BY DEF IInv, NvidiaInv, Loaded
  <1>3. phase # "none" /\ driver \in {"cyberblade", "pm3", "mach64", "mach64_old", "radeon",
                                     "rage128"} => drv.saved # None
    <2>1. phase # "none" /\ driver \in {"cyberblade", "pm3", "mach64", "mach64_old", "radeon",
                                       "rage128"} => drv.saved \in [cmp : Modes, key : {Desk}]
      BY DEF IInv, CyberbladeInv, Pm3Inv, Mach64Inv, RadeonInv, DeskKey, Loaded
    <2>2. None \notin [cmp : Modes, key : {Desk}]
      BY NoneAssumption, DeskAssumption
    <2> QED BY <2>1, <2>2
  <1>4. CASE vixInit
    <2>1. drv' \in Memories /\ card' \in Cards
      BY <1>1, <1>4, InitTyped DEF vixInit
    <2>2. wish' \in [eq : Equals, deint : BOOLEAN]
      BY <1>4, Fields DEF vixInit
    <2> QED BY <1>1, <1>4, <2>1, <2>2 DEF vixInit, TypeOK
  <1>5. CASE vixConfigPlayback
    <2>1. drv' \in Memories /\ card' \in Cards
      BY <1>1, <1>5, ConfigTyped DEF vixConfigPlayback
    <2> QED BY <1>5, <2>1 DEF vixConfigPlayback, IInv, TypeOK
  <1>6. CASE vixPlaybackOn
    <2>1. drv' \in Memories /\ card' \in Cards
      BY <1>1, <1>6, OnTyped DEF vixPlaybackOn
    <2> QED BY <1>6, <2>1 DEF vixPlaybackOn, IInv, TypeOK
  <1>7. CASE vixPlaybackOff
    <2>1. drv' \in Memories /\ card' \in Cards
      BY <1>1, <1>2, <1>7, OffTyped DEF vixPlaybackOff
    <2> QED BY <1>7, <2>1 DEF vixPlaybackOff, IInv, TypeOK
  <1>8. CASE vixPlaybackFrameSelect
    <2>1. card' \in Cards
      BY <1>1, <1>8, StartTyped, CardPut, Fields DEF vixPlaybackFrameSelect
    <2> QED BY <1>8, <2>1 DEF vixPlaybackFrameSelect, IInv, TypeOK
  <1>9. CASE vixDestroy
    <2>1. drv' \in Memories /\ card' \in Cards
      BY <1>1, <1>3, <1>9, DestroyTyped, Fields DEF vixDestroy
    <2> QED BY <1>9, <2>1 DEF vixDestroy, IInv, TypeOK
  <1>10. ASSUME NEW r \in Requests(driver), vixSetGrKeys(r)
         PROVE  TypeOK'
    <2>1. r \in Asks
      BY <1>1, RequestsTyped
    <2>2. drv' \in Memories /\ card' \in Cards
      BY <1>1, <1>10, <2>1, KeyTyped DEF vixSetGrKeys
    <2>3. asked' \in {None} \cup Requests(driver)
      BY <1>10 DEF vixSetGrKeys
    <2> QED BY <1>10, <2>2, <2>3 DEF vixSetGrKeys, IInv, TypeOK
  <1>11. ASSUME NEW p \in Parts, NEW v \in Values, vixPlaybackSetEq(p, v)
         PROVE  TypeOK'
    <2>1. \A e \in Equals : [e EXCEPT ![p] = v] \in Equals
      BY DEF Equals
    <2>2. drv' \in Memories
      <3>1. [drv.eq EXCEPT ![p] = v] \in Equals
        BY <1>1, <2>1, Fields
      <3>2. drv' = [drv EXCEPT !.eq = [drv.eq EXCEPT ![p] = v]]
        BY <1>11 DEF vixPlaybackSetEq
      <3> QED BY <1>1, <3>1, <3>2, MemoryPut
    <2>3. card' \in Cards
      BY <1>1, <1>11, <2>2, EqTyped DEF vixPlaybackSetEq
    <2>4. wish' \in [eq : Equals, deint : BOOLEAN]
      <3>1. [wish.eq EXCEPT ![p] = v] \in Equals
        BY <1>1, <2>1
      <3>2. wish' = [wish EXCEPT !.eq = [wish.eq EXCEPT ![p] = v]]
        BY <1>11 DEF vixPlaybackSetEq
      <3> HIDE DEF Equals
      <3> QED BY <1>1, <3>1, <3>2
    <2> QED BY <1>11, <2>2, <2>3, <2>4 DEF vixPlaybackSetEq, IInv, TypeOK
  <1>12. ASSUME NEW b \in BOOLEAN, vixPlaybackSetDeint(b)
         PROVE  TypeOK'
    <2>1. drv' \in Memories
      BY <1>1, <1>12, MemoryPut DEF vixPlaybackSetDeint
    <2>2. card' \in Cards
      BY <1>1, <1>12, <2>1, CardPut, Fields DEF vixPlaybackSetDeint, RadeonSetDeint
    <2>3. wish' \in [eq : Equals, deint : BOOLEAN]
      BY <1>1, <1>12 DEF vixPlaybackSetDeint
    <2> QED BY <1>12, <2>1, <2>2, <2>3 DEF vixPlaybackSetDeint, IInv, TypeOK
  <1> QED
    BY <1>4, <1>5, <1>6, <1>7, <1>8, <1>9, <1>10, <1>11, <1>12 DEF Next

\* What no call but its own changes in the driver's memory.
SameSettings(m, n) == n.eq = m.eq /\ n.deint = m.deint

LEMMA MemoryKept ==
  ASSUME NEW d \in Known, NEW c \in Cards, NEW m \in Memories
  PROVE  /\ ConfigMemory(d, c, m).req = m.req
         /\ ConfigMemory(d, c, m).deint = m.deint
         /\ d # "s3" => ConfigMemory(d, c, m).eq = m.eq
         /\ OnMemory(d, m).req = m.req /\ SameSettings(m, OnMemory(d, m))
         /\ OffMemory(d, c, m).req = m.req /\ SameSettings(m, OffMemory(d, c, m))
         /\ \A r \in Asks :
              /\ SameSettings(m, KeyMemory(d, c, m, r))
              /\ d # "nvidia" => KeyMemory(d, c, m, r).req = r
  <1> DEFINE Like(n) == n.req = m.req /\ n.deint = m.deint /\ n.eq = m.eq
  <1>1. mga_save(c, m) \in Memories /\ Like(mga_save(c, m))
    <2>1. Like(Saving(c, m))
      BY DEF Saving, Memories
    <2> QED BY <2>1, SavingTyped DEF mga_save
  <1>2. \A n \in Memories, a \in BOOLEAN, b \in BOOLEAN :
          /\ Like(n) => Like([n EXCEPT !.enable = a]) /\ Like([n EXCEPT !.fresh = a])
          /\ Like(n) => Like([n EXCEPT !.enable = a, !.fresh = b])
    BY DEF Memories
  <1>3. \A n \in Memories, r \in Asks :
          Like(n) => SameSettings(m, [n EXCEPT !.req = r]) /\ [n EXCEPT !.req = r].req = r
    BY DEF Memories, SameSettings
  <1>4. \A r \in Asks :
          /\ SameSettings(m, NvidiaRequest(m, r))
          /\ SameSettings(m, Pm3Request(m, r)) /\ Pm3Request(m, r).req = r
    BY DEF Memories, SameSettings, NvidiaRequest, Pm3Request
  <1>5. Like(m)
    OBVIOUS
  <1>6. /\ ConfigMemory(d, c, m).req = m.req
        /\ ConfigMemory(d, c, m).deint = m.deint
        /\ d # "s3" => ConfigMemory(d, c, m).eq = m.eq
    <2>1. CASE d = "s3"
      <3>1. ConfigMemory(d, c, m) = [m EXCEPT !.eq = Neutral]
        BY <2>1 DEF ConfigMemory
      <3> QED BY <2>1, <3>1 DEF Memories
    <2>2. CASE d # "s3"
      <3>1. Like(ConfigMemory(d, c, m))
        BY <1>1, <1>2, <1>5, <2>2 DEF ConfigMemory
      <3> QED BY <3>1
    <2> QED BY <2>1, <2>2
  <1>7. Like(OnMemory(d, m))
    BY <1>2, <1>5 DEF OnMemory
  <1>8. Like(OffMemory(d, c, m))
    BY <1>1, <1>2, <1>5 DEF OffMemory
  <1>9. ASSUME NEW r \in Asks
        PROVE  /\ SameSettings(m, KeyMemory(d, c, m, r))
               /\ d # "nvidia" => KeyMemory(d, c, m, r).req = r
    BY <1>1, <1>3, <1>4, <1>5 DEF KeyMemory
  <1> QED BY <1>6, <1>7, <1>8, <1>9 DEF SameSettings

LEMMA SettingsHold ==
  IInv /\ Next => Remembers' /\ (driver # "nvidia" => Noted)'
  <1> SUFFICES ASSUME IInv, Next
               PROVE  Remembers' /\ (driver # "nvidia" => Noted)'
    OBVIOUS
  <1>1. driver \in Known /\ card \in Cards /\ drv \in Memories
    BY DEF IInv, TypeOK
  <1>2. wish \in [eq : Equals, deint : BOOLEAN] /\ wish.eq \in Equals
    BY DEF IInv, TypeOK
  <1>3. Remembers /\ (driver # "nvidia" => Noted)
    BY DEF IInv
  <1>4. CASE vixInit
    <2>1. drv'.eq = Neutral /\ drv'.deint = TRUE
      <3>1. drv' \in {Saving(card, Memory), [Memory EXCEPT !.enable = TRUE], Memory}
        BY <1>4 DEF vixInit, InitMemory
      <3> QED BY <3>1, Fields DEF Saving, Memory, Memories
    <2> QED BY <1>4, <2>1 DEF vixInit, Remembers, Noted, Loaded
  <1>5. CASE vixConfigPlayback
    <2>1. drv'.req = drv.req /\ drv'.deint = drv.deint /\ (driver # "s3" => drv'.eq = drv.eq)
      BY <1>1, <1>5, MemoryKept DEF vixConfigPlayback
    <2> QED BY <1>3, <1>5, <2>1 DEF vixConfigPlayback, Remembers, Noted, Loaded
  <1>6. CASE vixPlaybackOn
    <2>1. drv'.req = drv.req /\ SameSettings(drv, drv')
      BY <1>1, <1>6, MemoryKept DEF vixPlaybackOn
    <2> QED BY <1>3, <1>6, <2>1 DEF vixPlaybackOn, Remembers, Noted, Loaded, SameSettings
  <1>7. CASE vixPlaybackOff
    <2>1. drv'.req = drv.req /\ SameSettings(drv, drv')
      BY <1>1, <1>7, MemoryKept DEF vixPlaybackOff
    <2> QED BY <1>3, <1>7, <2>1 DEF vixPlaybackOff, Remembers, Noted, Loaded, SameSettings
  <1>8. CASE vixPlaybackFrameSelect
    BY <1>3, <1>8 DEF vixPlaybackFrameSelect, Remembers, Noted, Loaded
  <1>9. CASE vixDestroy
    BY <1>9 DEF vixDestroy, Remembers, Noted, Loaded
  <1>10. ASSUME NEW r \in Requests(driver), vixSetGrKeys(r)
         PROVE  Remembers' /\ (driver # "nvidia" => Noted)'
    <2>1. r \in Asks
      BY <1>1, RequestsTyped
    <2>2. SameSettings(drv, drv') /\ (driver # "nvidia" => drv'.req = r)
      BY <1>1, <1>10, <2>1, MemoryKept DEF vixSetGrKeys
    <2>3. asked' = r \/ asked' = None
      BY <1>10 DEF vixSetGrKeys
    <2> QED
      BY <1>3, <1>10, <2>2, <2>3 DEF vixSetGrKeys, Remembers, Noted, Loaded, SameSettings
  <1>11. ASSUME NEW p \in Parts, NEW v \in Values, vixPlaybackSetEq(p, v)
         PROVE  Remembers' /\ (driver # "nvidia" => Noted)'
    <2>1. /\ drv'.eq = [drv.eq EXCEPT ![p] = v] /\ wish'.eq = [wish.eq EXCEPT ![p] = v]
          /\ drv'.req = drv.req /\ drv'.deint = drv.deint /\ wish'.deint = wish.deint
      BY <1>1, <1>2, <1>11 DEF vixPlaybackSetEq, Memories
    <2> QED BY <1>3, <1>11, <2>1 DEF vixPlaybackSetEq, Remembers, Noted, Loaded
  <1>12. ASSUME NEW b \in BOOLEAN, vixPlaybackSetDeint(b)
         PROVE  Remembers' /\ (driver # "nvidia" => Noted)'
    <2>1. /\ drv'.eq = drv.eq /\ wish'.eq = wish.eq
          /\ drv'.req = drv.req /\ drv'.deint = b /\ wish'.deint = b
      BY <1>1, <1>2, <1>12 DEF vixPlaybackSetDeint, Memories
    <2> QED BY <1>3, <1>12, <2>1 DEF vixPlaybackSetDeint, Remembers, Noted, Loaded
  <1> QED
    BY <1>4, <1>5, <1>6, <1>7, <1>8, <1>9, <1>10, <1>11, <1>12 DEF Next

-----------------------------------------------------------------------------
(***************************************************************************)
(* The writes several calls share, field by field.                         *)
(***************************************************************************)
LEMMA KeyedWrites ==
  ASSUME NEW c \in Cards, NEW op, NEW x \in Int
  PROVE  /\ Keyed(c, op, x).depth = c.depth /\ Keyed(c, op, x).eq = c.eq
         /\ Keyed(c, op, x).lit = c.lit /\ Keyed(c, op, x).whole = c.whole
         /\ op = "true" => Keyed(c, op, x).cmp = "key" /\ Keyed(c, op, x).key = x
         /\ op # "true" => Keyed(c, op, x).cmp = "always"
  BY DEF Keyed, Cards

LEMMA DarkWrites ==
  ASSUME NEW c \in Cards
  PROVE  /\ Spoilt(Dark(c)).depth = c.depth /\ Spoilt(Dark(c)).eq = c.eq
         /\ Spoilt(Dark(c)).lit = FALSE
         /\ Spoilt(Dark(c)).cmp = c.cmp /\ Spoilt(Dark(c)).key = c.key
  BY DEF Spoilt, Dark, Cards

LEMMA set_colorkeyWrites ==
  ASSUME NEW c \in Cards, NEW m \in Memories
  PROVE  /\ set_colorkey(c, m).lit = c.lit /\ set_colorkey(c, m).whole = c.whole
         /\ set_colorkey(c, m).eq = c.eq /\ set_colorkey(c, m).key = m.req.colour
         /\ m.req.op = "true" => set_colorkey(c, m).cmp = "key"
         /\ m.req.op # "true" => set_colorkey(c, m).cmp = "always"
  <1> DEFINE n == Keyed(c, m.req.op, 0)
  <1>1. /\ n \in Cards /\ n.lit = c.lit /\ n.whole = c.whole /\ n.eq = c.eq
        /\ m.req.op = "true" => n.cmp = "key"
        /\ m.req.op # "true" => n.cmp = "always"
    BY SwitchesTyped, KeyedWrites
  <1>2. set_colorkey(c, m) = [n EXCEPT !.key = m.req.colour]
    BY DEF set_colorkey
  <1> HIDE DEF n
  <1> QED BY <1>1, <1>2 DEF Cards

LEMMA CyberbladeWrites ==
  ASSUME NEW c \in Cards, NEW m \in Memories
  PROVE  /\ CyberbladeConfig(c, m).lit = c.lit
         /\ CyberbladeConfig(c, m).whole = TRUE
         /\ CyberbladeConfig(c, m).cmp = "key"
         /\ CyberbladeConfig(c, m).key = Painted(CyberbladeConfig(c, m), m.req.colour)
         /\ CyberbladeConfig(c, m).eq = m.eq
  BY DEF CyberbladeConfig, CyberbladeSetEq, CyberbladeSetGrKeys, Setup, Painted, Cards

LEMMA SisWrites ==
  ASSUME NEW c \in Cards, NEW m \in Memories
  PROVE  /\ SisConfig(c, m).lit = FALSE
         /\ SisConfig(c, m).whole = TRUE
         /\ SisConfig(c, m).eq = m.eq
         /\ SisConfig(c, m).key = m.req.colour
         /\ m.req.op = "true" => SisConfig(c, m).cmp = "key"
         /\ m.req.op # "true" => SisConfig(c, m).cmp = "always"
  <1> DEFINE k == init_overlay(c)
             n == set_colorkey(k, m)
  <1>1. k \in Cards /\ k.lit = FALSE
    <2>1. Dark(c) \in Cards /\ Dark(c).lit = FALSE
      BY SwitchesTyped DEF Dark, Cards
    <2> QED BY <2>1, CardPut, Fields DEF init_overlay, Cards
  <1> HIDE DEF k
  <1>2. /\ n \in Cards /\ n.lit = FALSE /\ n.key = m.req.colour
        /\ m.req.op = "true" => n.cmp = "key"
        /\ m.req.op # "true" => n.cmp = "always"
    BY <1>1, set_colorkeyTyped, set_colorkeyWrites
  <1> HIDE DEF n
  <1>3. SisConfig(c, m) = Setup([n EXCEPT !.eq = m.eq])
    BY DEF SisConfig, set_overlay, SisSetEq, k, n
  <1> QED BY <1>2, <1>3 DEF Setup, Cards

LEMMA StartWrites ==
  ASSUME NEW c \in Cards, NEW m \in Memories
  PROVE  /\ rivatv_overlay_start(c, m).lit = TRUE
         /\ rivatv_overlay_start(c, m).whole = TRUE
         /\ rivatv_overlay_start(c, m).depth = c.depth
         /\ rivatv_overlay_start(c, m).key = NvidiaKey(c, m.req.colour)
         /\ m.req.op = "true" => rivatv_overlay_start(c, m).cmp = "key"
         /\ m.req.op # "true" => rivatv_overlay_start(c, m).cmp = "always"
  <1> DEFINE k == [Setup(Lit(c)) EXCEPT !.eq = m.eq, !.cmp = Keyed(c, m.req.op, 0).cmp]
  <1>1. /\ k.depth = c.depth /\ k.lit = TRUE /\ k.whole = TRUE
        /\ k.cmp = Keyed(c, m.req.op, 0).cmp
    BY DEF Setup, Lit, Cards
  <1>2. k \in Cards
    <2>1. Setup(Lit(c)) \in Cards /\ Keyed(c, m.req.op, 0) \in Cards
      BY SwitchesTyped
    <2>2. [Setup(Lit(c)) EXCEPT !.eq = m.eq] \in Cards
      BY <2>1, CardPut, Fields
    <2> QED BY <2>1, <2>2, CardPut, Fields
  <1>3. /\ m.req.op = "true" => k.cmp = "key"
        /\ m.req.op # "true" => k.cmp = "always"
    BY <1>1, KeyedWrites
  <1>4. rivatv_overlay_start(c, m) = [k EXCEPT !.key = NvidiaKey(k, m.req.colour)]
    BY DEF rivatv_overlay_start, rivatv_overlay_colorkey
  <1> HIDE DEF k
  <1>5. NvidiaKey(k, m.req.colour) = NvidiaKey(c, m.req.colour)
    BY <1>1 DEF NvidiaKey, Painted
  <1> QED BY <1>1, <1>2, <1>3, <1>4, <1>5 DEF Cards

LEMMA MgaWrites ==
  ASSUME NEW c \in Cards, NEW m \in Memories
  PROVE  /\ mga_vid_write_regs(c, m).lit = m.enable
         /\ mga_vid_write_regs(c, m).whole = m.fresh
         /\ mga_vid_write_regs(c, m).eq = m.eq
         /\ mga_vid_write_regs(c, m).depth = c.depth
         /\ m.req.op = "true" =>
              /\ mga_vid_write_regs(c, m).cmp = "key"
              /\ mga_vid_write_regs(c, m).key = Painted(c, m.req.colour)
         /\ m.req.op # "true" => mga_vid_write_regs(c, m).cmp = "always"
  <1> DEFINE k == mga_colkey(c, m)
  <1>1. Painted(c, m.req.colour) \in Int
    BY Fields
  <1>2. /\ k.depth = c.depth
        /\ m.req.op = "true" => k.cmp = "key" /\ k.key = Painted(c, m.req.colour)
        /\ m.req.op # "true" => k.cmp = "always"
    BY <1>1, KeyedWrites DEF mga_colkey, Cards
  <1>3. k \in Cards
    BY <1>1, CardPut, Fields, SwitchesTyped DEF mga_colkey
  <1> HIDE DEF k
  <1>4. mga_vid_write_regs(c, m) = [k EXCEPT !.lit = m.enable, !.whole = m.fresh, !.eq = m.eq]
    BY DEF mga_vid_write_regs, mga_write_besregs, k
  <1> QED BY <1>2, <1>3, <1>4 DEF Cards

LEMMA MgaSaves ==
  ASSUME NEW c \in Cards, NEW m \in Memories
  PROVE  /\ mga_save(c, m).saved # None
         /\ m.saved = None => mga_save(c, m).saved = [cmp |-> c.cmp, key |-> c.key]
         /\ m.saved # None => mga_save(c, m) = m
         /\ mga_save(c, m).enable = m.enable /\ mga_save(c, m).fresh = m.fresh
  <1>1. [cmp |-> c.cmp, key |-> c.key] # None
    BY NoneAssumption, Fields
  <1>2. /\ Saving(c, m).saved = [cmp |-> c.cmp, key |-> c.key]
        /\ Saving(c, m).enable = m.enable /\ Saving(c, m).fresh = m.fresh
    BY DEF Saving, Memories
  <1> QED BY <1>1, <1>2 DEF mga_save

LEMMA MgaSavesDesk ==
  ASSUME card \in Cards, drv \in Memories,
         drv.saved = None => card.key = Desk /\ card.cmp = "desk",
         drv.saved # None => drv.saved = [cmp |-> "desk", key |-> Desk]
  PROVE  /\ mga_save(card, drv).saved # None
         /\ mga_save(card, drv).saved = [cmp |-> "desk", key |-> Desk]
  <1>1. CASE drv.saved = None
    BY <1>1, MgaSaves
  <1>2. CASE drv.saved # None
    BY <1>2, MgaSaves
  <1> QED BY <1>1, <1>2

\* The S3 and the Savage driver write the same.
LEMMA StreamsKeyWrites ==
  ASSUME NEW c \in Cards, NEW m \in Memories
  PROVE  /\ S3SetColorKeyOld(c, m) = SavageSetColorKeyOld(c, m)
         /\ SavageSetColorKeyOld(c, m).depth = c.depth
         /\ SavageSetColorKeyOld(c, m).lit = c.lit
         /\ SavageSetColorKeyOld(c, m).whole = c.whole
         /\ m.req.op = "false" => SavageSetColorKeyOld(c, m).cmp = "always"
         /\ m.req.op = "true" /\ m.req.colour # 0 =>
              /\ SavageSetColorKeyOld(c, m).cmp = "key"
              /\ SavageSetColorKeyOld(c, m).key = LowBits(c, m.req.colour)
  <1>1. S3SetColorKeyOld(c, m) = SavageSetColorKeyOld(c, m)
    BY DEF S3SetColorKeyOld, SavageSetColorKeyOld
  <1>2. CASE m.req.op = "false" \/ m.req.colour = 0
    <2>1. SavageSetColorKeyOld(c, m) = [c EXCEPT !.cmp = "always", !.key = 0]
      BY <1>2 DEF SavageSetColorKeyOld
    <2> QED BY <1>1, <1>2, <2>1 DEF Cards
  <1>3. CASE ~(m.req.op = "false" \/ m.req.colour = 0)
    <2>1. SavageSetColorKeyOld(c, m) = Keyed(c, "true", LowBits(c, m.req.colour))
      BY <1>3 DEF SavageSetColorKeyOld
    <2>2. LowBits(c, m.req.colour) \in Int
      BY Fields
    <2> QED BY <1>1, <1>3, <2>1, <2>2, KeyedWrites
  <1> QED BY <1>2, <1>3

LEMMA radeon_keyWrites ==
  ASSUME NEW d, NEW c \in Cards, NEW m \in Memories
  PROVE  /\ radeon_key(d, c, m).depth = c.depth
         /\ radeon_key(d, c, m).lit = c.lit /\ radeon_key(d, c, m).whole = c.whole
         /\ radeon_key(d, c, m).deint = c.deint /\ radeon_key(d, c, m).eq = c.eq
         /\ m.req.op = "true" =>
              /\ radeon_key(d, c, m).cmp = IF d = "radeon" THEN "bits" ELSE "key"
              /\ radeon_key(d, c, m).key = Painted(c, m.req.colour)
         /\ m.req.op = "alpha" /\ c.depth = 32 => radeon_key(d, c, m).cmp = "alpha"
         /\ m.req.op = "false" => radeon_key(d, c, m).cmp = "always"
  <1> DEFINE k == IF d = "radeon" THEN "bits" ELSE "key"
  <1>1. CASE m.req.op = "true"
    <2>1. radeon_key(d, c, m) = [c EXCEPT !.cmp = k, !.key = Painted(c, m.req.colour)]
      BY <1>1 DEF radeon_key
    <2> HIDE DEF k
    <2>2. /\ radeon_key(d, c, m).depth = c.depth
          /\ radeon_key(d, c, m).lit = c.lit /\ radeon_key(d, c, m).whole = c.whole
          /\ radeon_key(d, c, m).deint = c.deint /\ radeon_key(d, c, m).eq = c.eq
          /\ radeon_key(d, c, m).cmp = k
          /\ radeon_key(d, c, m).key = Painted(c, m.req.colour)
      BY <2>1 DEF Cards
    <2> QED BY <1>1, <2>2 DEF k
  <1>2. CASE m.req.op = "alpha" /\ c.depth = 32
    <2>1. radeon_key(d, c, m) = [c EXCEPT !.cmp = "alpha", !.key = 0]
      BY <1>2 DEF radeon_key
    <2> QED BY <1>2, <2>1 DEF Cards
  <1>3. CASE m.req.op # "true" /\ ~(m.req.op = "alpha" /\ c.depth = 32)
    <2>1. radeon_key(d, c, m) = [c EXCEPT !.cmp = "always", !.key = 0]
      BY <1>3 DEF radeon_key
    <2> QED BY <1>3, <2>1 DEF Cards
  <1> QED BY <1>1, <1>2, <1>3

-----------------------------------------------------------------------------
(***************************************************************************)
(* Every step of a program keeps what its driver is relied on for: one     *)
(* lemma for each driver, or two that are written alike, one case for each *)
(* call.                                                                   *)
(***************************************************************************)
LEMMA CyberbladeHolds ==
  ASSUME TypeOK, TypeOK', CyberbladeInv, driver = "cyberblade", Next
  PROVE  CyberbladeInv'
  <1> USE DEF CyberbladeInv, Dimmed, DeskKey, Painted, InForce, Loaded, Configured,
              TypeOK, Cards, Memories
  <1>1. CASE vixInit
    <2>1. drv' = Saving(card, Memory) /\ card' = card
      BY <1>1 DEF vixInit, InitMemory, InitCard
    <2> QED BY <1>1, <2>1 DEF vixInit, Saving, Memory
  <1>2. CASE vixConfigPlayback
    <2>1. drv' = drv /\ card' = CyberbladeConfig(card, drv)
      BY <1>2 DEF vixConfigPlayback, ConfigMemory, ConfigCard
    <2>2. card \in Cards /\ drv \in Memories
      BY DEF TypeOK
    <2> HIDE DEF Cards, Memories, Painted
    <2>3. /\ card'.lit = card.lit /\ card'.whole = TRUE /\ card'.cmp = "key"
          /\ card'.key = Painted(card', drv.req.colour) /\ card'.eq = drv.eq
      BY <2>1, <2>2, CyberbladeWrites
    <2> QED BY <1>2, <2>1, <2>3 DEF vixConfigPlayback
  <1>3. CASE vixPlaybackOn
    <2>1. drv' = drv /\ card' = Lit(card)
      BY <1>3 DEF vixPlaybackOn, OnMemory, OnCard
    <2> QED BY <1>3, <2>1 DEF vixPlaybackOn, Lit
  <1>4. CASE vixPlaybackOff
    <2>1. drv' = drv /\ card' = Dark(card)
      BY <1>4 DEF vixPlaybackOff, OffMemory, OffCard
    <2> QED BY <1>4, <2>1 DEF vixPlaybackOff, Dark
  <1>5. CASE vixPlaybackFrameSelect
    BY <1>5 DEF vixPlaybackFrameSelect
  <1>6. CASE vixDestroy
    <2>1. card' = CyberbladeDestroy(card, drv)
      BY <1>6 DEF vixDestroy, DestroyCard
    <2> QED BY <1>6, <2>1 DEF vixDestroy, CyberbladeDestroy, KeyBack, Dark
  <1>7. ASSUME NEW r \in Requests(driver), vixSetGrKeys(r)
        PROVE  CyberbladeInv'
    <2>1. drv' = [drv EXCEPT !.req = r] /\ card' = CyberbladeSetGrKeys(card, drv')
      BY <1>7 DEF vixSetGrKeys, KeyMemory, KeyCard
    <2>2. asked' = r \/ asked' = None
      BY <1>7 DEF vixSetGrKeys
    <2> QED BY <1>7, <2>1, <2>2 DEF vixSetGrKeys, CyberbladeSetGrKeys
  <1>8. ASSUME NEW p \in Parts, NEW v \in Values, vixPlaybackSetEq(p, v)
        PROVE  CyberbladeInv'
    <2>1. card' = CyberbladeSetEq(card, drv')
      BY <1>8 DEF vixPlaybackSetEq, EqCard
    <2> QED BY <1>8, <2>1 DEF vixPlaybackSetEq, CyberbladeSetEq
  <1>9. ASSUME NEW b \in BOOLEAN, vixPlaybackSetDeint(b)
        PROVE  CyberbladeInv'
    BY <1>9 DEF vixPlaybackSetDeint, Deinterlacers
  <1> QED BY <1>1, <1>2, <1>3, <1>4, <1>5, <1>6, <1>7, <1>8, <1>9 DEF Next

LEMMA SisHolds ==
  ASSUME TypeOK, TypeOK', SisInv, driver = "sis", Next
  PROVE  SisInv'
  <1> USE DEF SisInv, Dimmed, InForce, Loaded, Configured, TypeOK, Cards, Memories
  <1>1. CASE vixInit
    <2>1. drv' = Memory /\ card' = card
      BY <1>1 DEF vixInit, InitMemory, InitCard
    <2> QED BY <1>1, <2>1 DEF vixInit, Memory, Request
  <1>2. CASE vixConfigPlayback
    <2>1. drv' = drv
      BY <1>2 DEF vixConfigPlayback, ConfigMemory
    <2>2. card' = SisConfig(card, drv)
      BY <1>2, <2>1 DEF vixConfigPlayback, ConfigCard
    <2>3. card \in Cards /\ drv \in Memories
      BY DEF TypeOK
    <2> HIDE DEF SisInv, TypeOK, Cards, Memories
    <2>4. /\ card'.lit = FALSE /\ card'.whole = TRUE /\ card'.eq = drv.eq
          /\ card'.key = drv.req.colour
          /\ drv.req.op = "true" => card'.cmp = "key"
          /\ drv.req.op # "true" => card'.cmp = "always"
      BY <2>2, <2>3, SisWrites
    <2> QED BY <1>2, <2>1, <2>4 DEF vixConfigPlayback, SisInv
  <1>3. CASE vixPlaybackOn
    <2>1. drv' = drv /\ card' = Lit(card)
      BY <1>3 DEF vixPlaybackOn, OnMemory, OnCard
    <2> QED BY <1>3, <2>1 DEF vixPlaybackOn, Lit
  <1>4. CASE vixPlaybackOff
    <2>1. drv' = drv /\ card' = close_overlay(card)
      BY <1>4 DEF vixPlaybackOff, OffMemory, OffCard
    <2> QED BY <1>4, <2>1 DEF vixPlaybackOff, close_overlay, Dark
  <1>5. CASE vixPlaybackFrameSelect
    BY <1>5 DEF vixPlaybackFrameSelect
  <1>6. CASE vixDestroy
    <2>1. card' = card
      BY <1>6 DEF vixDestroy, DestroyCard
    <2> QED BY <1>6, <2>1 DEF vixDestroy
  <1>7. ASSUME NEW r \in Requests(driver), vixSetGrKeys(r)
        PROVE  SisInv'
    <2>1. card' = set_colorkey(card, drv')
      BY <1>7 DEF vixSetGrKeys, KeyCard
    <2>2. drv'.req = r /\ drv'.eq = drv.eq /\ r.op # "alpha"
      BY <1>7 DEF vixSetGrKeys, KeyMemory, Requests, Blenders
    <2>3. card \in Cards /\ drv' \in Memories
      BY DEF TypeOK
    <2> HIDE DEF Cards, Memories
    <2>4. /\ card'.lit = card.lit /\ card'.whole = card.whole /\ card'.eq = card.eq
          /\ card'.key = drv'.req.colour
          /\ drv'.req.op = "true" => card'.cmp = "key"
          /\ drv'.req.op # "true" => card'.cmp = "always"
      BY <2>1, <2>3, set_colorkeyWrites
    <2> QED BY <1>7, <2>2, <2>4 DEF vixSetGrKeys
  <1>8. ASSUME NEW p \in Parts, NEW v \in Values, vixPlaybackSetEq(p, v)
        PROVE  SisInv'
    <2>1. card' = SisSetEq(card, drv')
      BY <1>8 DEF vixPlaybackSetEq, EqCard
    <2> QED BY <1>8, <2>1 DEF vixPlaybackSetEq, SisSetEq
  <1>9. ASSUME NEW b \in BOOLEAN, vixPlaybackSetDeint(b)
        PROVE  SisInv'
    BY <1>9 DEF vixPlaybackSetDeint, Deinterlacers
  <1> QED BY <1>1, <1>2, <1>3, <1>4, <1>5, <1>6, <1>7, <1>8, <1>9 DEF Next

LEMMA UnichromeHolds ==
  ASSUME TypeOK, TypeOK', Noted', UnichromeInv, driver = "unichrome", Next
  PROVE  UnichromeInv'
  <1> USE DEF UnichromeInv, Dimmed, InForce, Loaded, Configured, TypeOK, Cards, Memories
  <1>1. CASE vixInit
    <2>1. drv' = Memory /\ card' = card
      BY <1>1 DEF vixInit, InitMemory, InitCard
    <2> QED BY <1>1, <2>1 DEF vixInit, Memory
  <1>2. CASE vixConfigPlayback
    <2>1. drv' = drv /\ card' = UnichromeConfig(card)
      BY <1>2 DEF vixConfigPlayback, ConfigMemory, ConfigCard
    <2> QED BY <1>2, <2>1 DEF vixConfigPlayback, UnichromeConfig, Setup, Dark
  <1>3. CASE vixPlaybackOn
    <2>1. drv' = drv /\ card' = Lit(card)
      BY <1>3 DEF vixPlaybackOn, OnMemory, OnCard
    <2> QED BY <1>3, <2>1 DEF vixPlaybackOn, Lit
  <1>4. CASE vixPlaybackOff
    <2>1. drv' = drv /\ card' = Spoilt(Dark(card))
      BY <1>4 DEF vixPlaybackOff, OffMemory, OffCard, UnichromeOff
    <2>2. card \in Cards
      BY DEF TypeOK
    <2>3. /\ card'.depth = card.depth /\ card'.lit = FALSE
          /\ card'.cmp = card.cmp /\ card'.key = card.key
      BY <2>1, <2>2, DarkWrites
    <2> QED BY <1>4, <2>1, <2>3 DEF vixPlaybackOff
  <1>5. CASE vixPlaybackFrameSelect
    BY <1>5 DEF vixPlaybackFrameSelect
  <1>6. CASE vixDestroy
    <2>1. card' = card
      BY <1>6 DEF vixDestroy, DestroyCard
    <2> QED BY <1>6, <2>1 DEF vixDestroy
  <1>7. ASSUME NEW r \in Requests(driver), vixSetGrKeys(r)
        PROVE  UnichromeInv'
    <2>1. card' = UnichromeSetGrKeys(card, drv')
      BY <1>7 DEF vixSetGrKeys, KeyCard
    <2>2. /\ card'.lit = card.lit /\ card'.whole = card.whole
          /\ drv'.req.op = "true" =>
               card'.cmp = "key" /\ card'.key = drv'.req.colour % 32
          /\ drv'.req.op # "true" => card'.cmp = "always"
      <3>1. drv'.req.colour % 32 \in Int
        BY Fields DEF TypeOK
      <3> QED BY <2>1, <3>1, KeyedWrites DEF UnichromeSetGrKeys, TypeOK
    <2> QED BY <1>7, <2>2 DEF vixSetGrKeys, Noted
  <1>8. ASSUME NEW p \in Parts, NEW v \in Values, vixPlaybackSetEq(p, v)
        PROVE  UnichromeInv'
    BY <1>8 DEF vixPlaybackSetEq, NoEq, Mute
  <1>9. ASSUME NEW b \in BOOLEAN, vixPlaybackSetDeint(b)
        PROVE  UnichromeInv'
    BY <1>9 DEF vixPlaybackSetDeint, Deinterlacers
  <1> QED BY <1>1, <1>2, <1>3, <1>4, <1>5, <1>6, <1>7, <1>8, <1>9 DEF Next

LEMMA Pm2Holds ==
  ASSUME TypeOK, TypeOK', Pm2Inv, driver = "pm2", Next
  PROVE  Pm2Inv'
  <1> USE DEF Pm2Inv, InForce, Loaded, Configured, TypeOK, Cards, Memories
  <1>1. CASE vixInit
    <2>1. drv' = Memory /\ card' = card
      BY <1>1 DEF vixInit, InitMemory, InitCard
    <2> QED BY <1>1, <2>1 DEF vixInit, Memory
  <1>2. CASE vixConfigPlayback
    <2>1. drv' = drv /\ card' = Pm2Config(card)
      BY <1>2 DEF vixConfigPlayback, ConfigMemory, ConfigCard
    <2> QED BY <1>2, <2>1 DEF vixConfigPlayback, Pm2Config, Setup, Lit
  <1>3. CASE vixPlaybackOn
    <2>1. drv' = drv /\ card' = card
      BY <1>3 DEF vixPlaybackOn, OnMemory, OnCard
    <2> QED BY <1>3, <2>1 DEF vixPlaybackOn
  <1>4. CASE vixPlaybackOff
    <2>1. drv' = drv /\ card' = Pm2Off(card)
      BY <1>4 DEF vixPlaybackOff, OffMemory, OffCard
    <2> QED BY <1>4, <2>1 DEF vixPlaybackOff, Pm2Off, Spoilt, Dark
  <1>5. CASE vixPlaybackFrameSelect
    BY <1>5 DEF vixPlaybackFrameSelect
  <1>6. CASE vixDestroy
    <2>1. card' = card
      BY <1>6 DEF vixDestroy, DestroyCard
    <2> QED BY <1>6, <2>1 DEF vixDestroy
  <1>7. ASSUME NEW r \in Requests(driver), vixSetGrKeys(r)
        PROVE  Pm2Inv'
    BY <1>7 DEF vixSetGrKeys, NoKeys
  <1>8. ASSUME NEW p \in Parts, NEW v \in Values, vixPlaybackSetEq(p, v)
        PROVE  Pm2Inv'
    BY <1>8 DEF vixPlaybackSetEq, NoEq, Mute
  <1>9. ASSUME NEW b \in BOOLEAN, vixPlaybackSetDeint(b)
        PROVE  Pm2Inv'
    BY <1>9 DEF vixPlaybackSetDeint, Deinterlacers
  <1> QED BY <1>1, <1>2, <1>3, <1>4, <1>5, <1>6, <1>7, <1>8, <1>9 DEF Next

LEMMA Pm3Holds ==
  ASSUME TypeOK, TypeOK', Pm3Inv, driver = "pm3", Next
  PROVE  Pm3Inv'
  <1> USE DEF Pm3Inv, Dimmed, DeskKey, InForce, Loaded, Configured, TypeOK, Cards, Memories
  <1>1. CASE vixInit
    <2>1. drv' = Saving(card, Memory) /\ card' = card
      BY <1>1 DEF vixInit, InitMemory, InitCard
    <2> QED BY <1>1, <2>1 DEF vixInit, Saving, Memory
  <1>2. CASE vixConfigPlayback
    <2>1. drv' = [drv EXCEPT !.enable = FALSE] /\ card' = Setup(card)
      BY <1>2 DEF vixConfigPlayback, ConfigMemory, ConfigCard
    <2> QED BY <1>2, <2>1 DEF vixConfigPlayback, Setup
  <1>3. CASE vixPlaybackOn
    <2>1. drv' = [drv EXCEPT !.enable = TRUE] /\ card' = Pm3Control(card, drv')
      BY <1>3 DEF vixPlaybackOn, OnMemory, OnCard
    <2>2. /\ drv'.enable = TRUE /\ drv'.mode = drv.mode /\ drv'.saved = drv.saved
          /\ card'.lit = drv'.enable /\ card'.cmp = drv'.mode
          /\ card'.whole = card.whole /\ card'.key = card.key
      BY <2>1 DEF Pm3Control
    <2> QED BY <1>3, <2>2 DEF vixPlaybackOn
  <1>4. CASE vixPlaybackOff
    <2>1. drv' = [drv EXCEPT !.enable = FALSE] /\ card' = Dark(card)
      BY <1>4 DEF vixPlaybackOff, OffMemory, OffCard
    <2> QED BY <1>4, <2>1 DEF vixPlaybackOff, Dark
  <1>5. CASE vixPlaybackFrameSelect
    BY <1>5 DEF vixPlaybackFrameSelect
  <1>6. CASE vixDestroy
    <2>1. card' = KeyBack(card, drv)
      BY <1>6 DEF vixDestroy, DestroyCard
    <2> QED BY <1>6, <2>1 DEF vixDestroy, KeyBack
  <1>7. ASSUME NEW r \in Requests(driver), vixSetGrKeys(r)
        PROVE  Pm3Inv'
    <2>1. drv' = Pm3Request(drv, r) /\ card' = Pm3SetGrKeys(card, drv')
      BY <1>7 DEF vixSetGrKeys, KeyMemory, KeyCard
    <2>2. /\ drv'.enable = drv.enable /\ drv'.saved = drv.saved /\ drv'.req = r
          /\ r.op = "true" => drv'.mode = "key"
          /\ r.op # "true" => drv'.mode = "always"
      BY <2>1 DEF Pm3Request
    <2>3. /\ card'.lit = drv'.enable /\ card'.cmp = drv'.mode /\ card'.whole = card.whole
          /\ r.op = "true" => card'.key = r.colour
      BY <2>1, <2>2 DEF Pm3SetGrKeys, Pm3Control
    <2>4. asked' = r \/ asked' = None
      BY <1>7 DEF vixSetGrKeys
    <2> QED BY <1>7, <2>2, <2>3, <2>4 DEF vixSetGrKeys
  <1>8. ASSUME NEW p \in Parts, NEW v \in Values, vixPlaybackSetEq(p, v)
        PROVE  Pm3Inv'
    BY <1>8 DEF vixPlaybackSetEq, NoEq, Mute
  <1>9. ASSUME NEW b \in BOOLEAN, vixPlaybackSetDeint(b)
        PROVE  Pm3Inv'
    BY <1>9 DEF vixPlaybackSetDeint, Deinterlacers
  <1> QED BY <1>1, <1>2, <1>3, <1>4, <1>5, <1>6, <1>7, <1>8, <1>9 DEF Next

LEMMA NvidiaHolds ==
  ASSUME TypeOK, TypeOK', NvidiaInv, driver = "nvidia", Next
  PROVE  NvidiaInv'
  <1> USE DEF NvidiaInv, InForce, Loaded, Configured, TypeOK, Cards, Memories
  <1>1. CASE vixInit
    <2>1. drv' = Saving(card, Memory)
      BY <1>1 DEF vixInit, InitMemory
    <2>2. drv'.saved = [cmp |-> card.cmp, key |-> card.key]
      BY <2>1 DEF Saving, Memory
    <2>3. drv'.saved # None
      BY <2>2, NoneAssumption, Fields
    <2> QED BY <1>1, <2>3 DEF vixInit
  <1>2. CASE vixConfigPlayback
    <2>1. drv' = [drv EXCEPT !.fresh = TRUE] /\ card' = Spoilt(card)
      BY <1>2 DEF vixConfigPlayback, ConfigMemory, ConfigCard
    <2> QED BY <1>2, <2>1 DEF vixConfigPlayback, Spoilt
  <1>3. CASE vixPlaybackOn
    <2>1. drv' = drv /\ card' = rivatv_overlay_start(card, drv)
      BY <1>3 DEF vixPlaybackOn, OnMemory, OnCard
    <2>2. card \in Cards /\ drv \in Memories
      BY DEF TypeOK
    <2> HIDE DEF Cards, Memories
    <2>3. /\ card'.lit = TRUE /\ card'.whole = TRUE /\ card'.depth = card.depth
          /\ card'.key = NvidiaKey(card, drv.req.colour)
          /\ drv.req.op = "true" => card'.cmp = "key"
          /\ drv.req.op # "true" => card'.cmp = "always"
      BY <2>1, <2>2, StartWrites
    <2>4. NvidiaKey(card', drv.req.colour) = NvidiaKey(card, drv.req.colour)
      BY <2>3 DEF NvidiaKey, Painted
    <2> QED BY <1>3, <2>1, <2>3, <2>4 DEF vixPlaybackOn
  <1>4. CASE vixPlaybackOff
    <2>1. drv' = drv /\ card' = rivatv_overlay_stop(card, drv)
      BY <1>4 DEF vixPlaybackOff, OffMemory, OffCard
    <2> QED BY <1>4, <2>1 DEF vixPlaybackOff, rivatv_overlay_stop, KeyBack, Dark
  <1>5. CASE vixPlaybackFrameSelect
    <2>1. card' = rivatv_overlay_start(card, drv)
      BY <1>5 DEF vixPlaybackFrameSelect
    <2>2. card \in Cards /\ drv \in Memories
      BY DEF TypeOK
    <2> HIDE DEF Cards, Memories
    <2>3. /\ card'.lit = TRUE /\ card'.whole = TRUE /\ card'.depth = card.depth
          /\ card'.key = NvidiaKey(card, drv.req.colour)
          /\ drv.req.op = "true" => card'.cmp = "key"
          /\ drv.req.op # "true" => card'.cmp = "always"
      BY <2>1, <2>2, StartWrites
    <2>4. NvidiaKey(card', drv.req.colour) = NvidiaKey(card, drv.req.colour)
      BY <2>3 DEF NvidiaKey, Painted
    <2> QED BY <1>5, <2>3, <2>4 DEF vixPlaybackFrameSelect
  <1>6. CASE vixDestroy
    <2>1. card' = card
      BY <1>6 DEF vixDestroy, DestroyCard
    <2> QED BY <1>6, <2>1 DEF vixDestroy
  <1>7. ASSUME NEW r \in Requests(driver), vixSetGrKeys(r)
        PROVE  NvidiaInv'
    <2>1. /\ drv' = NvidiaRequest(drv, r)
          /\ card' = IF drv'.fresh THEN rivatv_overlay_start(card, drv') ELSE card
      BY <1>7 DEF vixSetGrKeys, KeyMemory, KeyCard, NvidiaSetGrKeys
    <2>2. r \in Asks
      BY RequestsTyped DEF TypeOK
    <2>3. /\ drv'.saved = drv.saved /\ drv'.fresh = drv.fresh /\ drv'.req.op = r.op
          /\ r.op = "true" => drv'.req.colour = r.colour
      BY <2>1, <2>2 DEF NvidiaRequest, Asks
    <2>4. asked' = r \/ asked' = None
      BY <1>7 DEF vixSetGrKeys
    <2>5. phase = "on" =>
            /\ card'.lit = TRUE /\ card'.whole = TRUE
            /\ card'.key = NvidiaKey(card', drv'.req.colour)
            /\ drv'.req.op = "true" => card'.cmp = "key"
            /\ drv'.req.op # "true" => card'.cmp = "always"
      <3>1. phase = "on" => card' = rivatv_overlay_start(card, drv')
        BY <2>1, <2>3
      <3>2. card \in Cards /\ drv' \in Memories
        BY DEF TypeOK
      <3> HIDE DEF Cards, Memories, TypeOK, NvidiaInv
      <3>3. ASSUME phase = "on"
            PROVE  /\ card'.lit = TRUE /\ card'.whole = TRUE /\ card'.depth = card.depth
                   /\ card'.key = NvidiaKey(card, drv'.req.colour)
                   /\ drv'.req.op = "true" => card'.cmp = "key"
                   /\ drv'.req.op # "true" => card'.cmp = "always"
        <4>1. card' = rivatv_overlay_start(card, drv')
          BY <3>1, <3>3
        <4> QED BY <3>2, <4>1, StartWrites
      <3> QED BY <3>3 DEF NvidiaKey, Painted
    <2> QED BY <1>7, <2>3, <2>4, <2>5 DEF vixSetGrKeys
  <1>8. ASSUME NEW p \in Parts, NEW v \in Values, vixPlaybackSetEq(p, v)
        PROVE  NvidiaInv'
    <2>1. card' = card
      BY <1>8 DEF vixPlaybackSetEq, EqCard
    <2> QED BY <1>8, <2>1 DEF vixPlaybackSetEq
  <1>9. ASSUME NEW b \in BOOLEAN, vixPlaybackSetDeint(b)
        PROVE  NvidiaInv'
    BY <1>9 DEF vixPlaybackSetDeint, Deinterlacers
  <1> QED BY <1>1, <1>2, <1>3, <1>4, <1>5, <1>6, <1>7, <1>8, <1>9 DEF Next

LEMMA MgaHolds ==
  ASSUME TypeOK, TypeOK', Noted, Noted', MgaInv, driver = "mga", Next
  PROVE  MgaInv'
  <1> USE DEF MgaInv, Painted, InForce, Loaded, Configured, TypeOK, Cards, Memories
  <1>1. CASE vixInit
    <2>1. drv' = Memory /\ card' = card
      BY <1>1 DEF vixInit, InitMemory, InitCard
    <2>2. drv'.saved = None /\ drv'.enable = FALSE
      BY <2>1 DEF Memory
    <2> QED BY <1>1, <2>1, <2>2 DEF vixInit
  <1>2. CASE vixConfigPlayback
    <2>1. /\ drv' = [mga_save(card, drv) EXCEPT !.enable = TRUE, !.fresh = TRUE]
          /\ card' = mga_vid_write_regs(card, drv')
      BY <1>2 DEF vixConfigPlayback, ConfigMemory, ConfigCard, MgaConfig
    <2>2. /\ drv'.enable = TRUE /\ drv'.fresh = TRUE
          /\ drv'.saved = mga_save(card, drv).saved
      BY <2>1, SavingTyped
    <2>3. drv'.saved # None /\ drv'.saved = [cmp |-> "desk", key |-> Desk]
      BY <1>2, <2>2, MgaSavesDesk DEF vixConfigPlayback
    <2> QED BY <1>2, <2>1, <2>2, <2>3, MgaWrites DEF vixConfigPlayback, Noted, Asks
  <1>3. CASE vixPlaybackOn
    <2>1. drv' = drv /\ card' = card
      BY <1>3 DEF vixPlaybackOn, OnMemory, OnCard
    <2> QED BY <1>3, <2>1 DEF vixPlaybackOn
  <1>4. CASE vixPlaybackOff
    <2>1. /\ drv' = [mga_save(card, drv) EXCEPT !.enable = FALSE, !.fresh = FALSE]
          /\ card' = mga_vid_write_regs(card, drv')
      BY <1>4 DEF vixPlaybackOff, OffMemory, OffCard
    <2>2. drv'.enable = FALSE /\ drv'.saved = mga_save(card, drv).saved
      BY <2>1, SavingTyped
    <2>3. drv'.saved # None /\ drv'.saved = [cmp |-> "desk", key |-> Desk]
      BY <1>4, <2>2, MgaSavesDesk DEF vixPlaybackOff
    <2> QED BY <1>4, <2>1, <2>2, <2>3, MgaWrites DEF vixPlaybackOff, Noted, Asks
  <1>5. CASE vixPlaybackFrameSelect
    <2>1. card' = [card EXCEPT !.lit = drv.enable]
      BY <1>5 DEF vixPlaybackFrameSelect
    <2> QED BY <1>5, <2>1 DEF vixPlaybackFrameSelect
  <1>6. CASE vixDestroy
    <2> DEFINE m == [drv EXCEPT !.enable = FALSE, !.fresh = FALSE]
    <2>1. card' = MgaDestroy(card, m)
      BY <1>6 DEF vixDestroy, DestroyCard
    <2>2. m.enable = FALSE /\ m.saved = drv.saved
      OBVIOUS
    <2> HIDE DEF m
    <2>3. CASE drv.saved = None
      <3>1. card' = mga_write_besregs(card, m)
        BY <2>1, <2>2, <2>3 DEF MgaDestroy
      <3> QED BY <1>6, <2>2, <2>3, <3>1 DEF vixDestroy, mga_write_besregs
    <2>4. CASE drv.saved # None
      <3>1. card' = mga_write_besregs(KeysBack(card, m), m)
        BY <2>1, <2>2, <2>4 DEF MgaDestroy
      <3>2. drv.saved.cmp = "desk" /\ drv.saved.key = Desk
        BY <1>6, <2>4 DEF vixDestroy
      <3>3. /\ KeysBack(card, m) = [card EXCEPT !.key = Desk, !.cmp = "desk"]
        BY <2>2, <3>2 DEF KeysBack
      <3>4. card'.lit = FALSE /\ card'.key = Desk /\ card'.cmp = "desk"
        BY <2>2, <3>1, <3>3 DEF mga_write_besregs
      <3> QED BY <1>6, <3>4 DEF vixDestroy
    <2> QED BY <2>3, <2>4
  <1>7. ASSUME NEW r \in Requests(driver), vixSetGrKeys(r)
        PROVE  MgaInv'
    <2>1. /\ drv' = [mga_save(card, drv) EXCEPT !.req = r]
          /\ card' = mga_vid_write_regs(card, drv')
      BY <1>7 DEF vixSetGrKeys, KeyMemory, KeyCard
    <2>2. /\ drv'.enable = drv.enable /\ drv'.fresh = drv.fresh
          /\ drv'.saved = mga_save(card, drv).saved
      <3>1. /\ drv'.enable = mga_save(card, drv).enable
            /\ drv'.fresh = mga_save(card, drv).fresh
            /\ drv'.saved = mga_save(card, drv).saved
        BY <2>1, SavingTyped
      <3> HIDE DEF Cards, Memories
      <3> QED BY <3>1, MgaSaves
    <2>3. drv'.saved # None /\ drv'.saved = [cmp |-> "desk", key |-> Desk]
      BY <1>7, <2>2, MgaSavesDesk DEF vixSetGrKeys
    <2> QED BY <1>7, <2>1, <2>2, <2>3, MgaWrites DEF vixSetGrKeys, Noted
  <1>8. ASSUME NEW p \in Parts, NEW v \in Values, vixPlaybackSetEq(p, v)
        PROVE  MgaInv'
    <2>1. card' = MgaSetEq(card, drv')
      BY <1>8 DEF vixPlaybackSetEq, EqCard
    <2> QED BY <1>8, <2>1 DEF vixPlaybackSetEq, MgaSetEq
  <1>9. ASSUME NEW b \in BOOLEAN, vixPlaybackSetDeint(b)
        PROVE  MgaInv'
    BY <1>9 DEF vixPlaybackSetDeint, Deinterlacers
  <1> QED BY <1>1, <1>2, <1>3, <1>4, <1>5, <1>6, <1>7, <1>8, <1>9 DEF Next

LEMMA S3Holds ==
  ASSUME TypeOK, TypeOK', Noted', S3Inv, driver = "s3", Next
  PROVE  S3Inv'
  <1> USE DEF S3Inv, StreamsKey, LowBits, InForce, Loaded, Configured, TypeOK, Cards,
              Memories
  <1>1. CASE vixInit
    <2>1. drv' = Memory /\ card' = S3StreamsOn(card)
      BY <1>1 DEF vixInit, InitMemory, InitCard
    <2> QED BY <1>1, <2>1 DEF vixInit, Memory, S3StreamsOn, S3InitStreamsOld, Spoilt, Lit
  <1>2. CASE vixConfigPlayback
    <2>1. drv' = [drv EXCEPT !.eq = Neutral] /\ card' = Spoilt(card)
      BY <1>2 DEF vixConfigPlayback, ConfigMemory, ConfigCard
    <2> QED BY <1>2, <2>1 DEF vixConfigPlayback, Spoilt
  <1>3. CASE vixPlaybackOn
    <2>1. drv' = drv /\ card' = S3DisplayVideoOld(card)
      BY <1>3 DEF vixPlaybackOn, OnMemory, OnCard
    <2> QED BY <1>3, <2>1 DEF vixPlaybackOn, S3DisplayVideoOld, Setup
  <1>4. CASE vixPlaybackOff
    <2>1. drv' = drv /\ card' = Spoilt(Dark(card))
      BY <1>4 DEF vixPlaybackOff, OffMemory, OffCard, S3StreamsOff
    <2>2. card \in Cards
      BY DEF TypeOK
    <2>3. /\ card'.depth = card.depth /\ card'.lit = FALSE
          /\ card'.cmp = card.cmp /\ card'.key = card.key
      BY <2>1, <2>2, DarkWrites
    <2> QED BY <1>4, <2>1, <2>3 DEF vixPlaybackOff
  <1>5. CASE vixPlaybackFrameSelect
    BY <1>5 DEF vixPlaybackFrameSelect
  <1>6. CASE vixDestroy
    <2>1. card' = card
      BY <1>6 DEF vixDestroy, DestroyCard
    <2> QED BY <1>6, <2>1 DEF vixDestroy
  <1>7. ASSUME NEW r \in Requests(driver), vixSetGrKeys(r)
        PROVE  S3Inv'
    <2>1. card' = S3SetColorKeyOld(card, drv')
      BY <1>7 DEF vixSetGrKeys, KeyCard
    <2> QED BY <1>7, <2>1, StreamsKeyWrites DEF vixSetGrKeys, Noted
  <1>8. ASSUME NEW p \in Parts, NEW v \in Values, vixPlaybackSetEq(p, v)
        PROVE  S3Inv'
    <2>1. card' = S3SetColorOld(card, drv')
      BY <1>8 DEF vixPlaybackSetEq, EqCard
    <2> QED BY <1>8, <2>1 DEF vixPlaybackSetEq, S3SetColorOld
  <1>9. ASSUME NEW b \in BOOLEAN, vixPlaybackSetDeint(b)
        PROVE  S3Inv'
    BY <1>9 DEF vixPlaybackSetDeint, Deinterlacers
  <1> QED BY <1>1, <1>2, <1>3, <1>4, <1>5, <1>6, <1>7, <1>8, <1>9 DEF Next

LEMMA SavageHolds ==
  ASSUME TypeOK, TypeOK', Noted, Noted', SavageInv, driver = "savage", Next
  PROVE  SavageInv'
  <1> USE DEF SavageInv, Noted, StreamsKey, LowBits, InForce, Loaded, Configured, TypeOK,
              Cards, Memories
  <1>1. CASE vixInit
    <2>1. drv' = [Memory EXCEPT !.enable = TRUE] /\ card' = SavageStreamsOn(card)
      BY <1>1 DEF vixInit, InitMemory, InitCard
    <2> QED
      BY <1>1, <2>1
      DEF vixInit, Memory, SavageStreamsOn, SavageInitStreamsOld, Spoilt, Lit
  <1>2. CASE vixConfigPlayback
    <2>1. drv' = [drv EXCEPT !.fresh = TRUE] /\ card' = Spoilt(card)
      BY <1>2 DEF vixConfigPlayback, ConfigMemory, ConfigCard
    <2> QED BY <1>2, <2>1 DEF vixConfigPlayback, Spoilt
  <1>3. CASE vixPlaybackOn
    <2>1. drv' = [drv EXCEPT !.enable = TRUE, !.fresh = FALSE]
      BY <1>3 DEF vixPlaybackOn, OnMemory
    <2>2. drv'.enable = TRUE /\ drv'.fresh = FALSE /\ drv'.req = drv.req
      BY <2>1
    <2>3. card' = SavageDisplayVideoOld(card, drv)
      BY <1>3 DEF vixPlaybackOn, OnCard
    <2>4. CASE drv.enable = TRUE
      <3>1. card' = [card EXCEPT !.whole = drv.fresh]
        BY <2>3, <2>4 DEF SavageDisplayVideoOld
      <3> QED BY <1>3, <2>2, <2>4, <3>1 DEF vixPlaybackOn
    <2>5. CASE drv.enable # TRUE
      <3> DEFINE k == SavageSetColorOld(SavageStreamsOn(card))
      <3>1. k \in Cards /\ k.lit = TRUE /\ k.depth = card.depth
        <4>1. SavageStreamsOn(card).lit = TRUE /\ SavageStreamsOn(card).depth = card.depth
          BY DEF SavageStreamsOn, SavageInitStreamsOld, Spoilt, Lit
        <4>2. SavageStreamsOn(card) \in Cards
          BY StreamsTyped
        <4> QED BY <4>1, <4>2, CardPut, Fields DEF SavageSetColorOld
      <3> HIDE DEF k
      <3> DEFINE n == SavageSetColorKeyOld(k, drv)
      <3>2. n \in Cards
        BY <3>1, SavageKeyTyped
      <3>3. /\ n.lit = TRUE /\ n.depth = card.depth
            /\ drv.req.op = "false" => n.cmp = "always"
            /\ drv.req.op = "true" /\ drv.req.colour # 0 =>
                 n.cmp = "key" /\ n.key = LowBits(card, drv.req.colour)
        BY <3>1, StreamsKeyWrites
      <3> HIDE DEF n
      <3>4. card' = [n EXCEPT !.whole = drv.fresh]
        BY <2>3, <2>5 DEF SavageDisplayVideoOld, k, n
      <3> QED BY <1>3, <2>2, <3>2, <3>3, <3>4 DEF vixPlaybackOn
    <2> QED BY <2>4, <2>5
  <1>4. CASE vixPlaybackOff
    <2>1. drv' = [drv EXCEPT !.enable = FALSE] /\ card' = Spoilt(Dark(card))
      BY <1>4 DEF vixPlaybackOff, OffMemory, OffCard, SavageStreamsOff
    <2>2. card \in Cards
      BY DEF TypeOK
    <2>3. /\ card'.depth = card.depth /\ card'.lit = FALSE
          /\ card'.cmp = card.cmp /\ card'.key = card.key
      BY <2>1, <2>2, DarkWrites
    <2> QED BY <1>4, <2>1, <2>3 DEF vixPlaybackOff
  <1>5. CASE vixPlaybackFrameSelect
    BY <1>5 DEF vixPlaybackFrameSelect
  <1>6. CASE vixDestroy
    <2>1. card' = card
      BY <1>6 DEF vixDestroy, DestroyCard
    <2> QED BY <1>6, <2>1 DEF vixDestroy
  <1>7. ASSUME NEW r \in Requests(driver), vixSetGrKeys(r)
        PROVE  SavageInv'
    <2>1. /\ drv' = [drv EXCEPT !.req = r]
          /\ card' = SavageSetColorKeyOld(card, drv')
      BY <1>7 DEF vixSetGrKeys, KeyMemory, KeyCard
    <2>2. drv'.enable = drv.enable /\ drv'.fresh = drv.fresh
      BY <2>1
    <2> QED BY <1>7, <2>1, <2>2, StreamsKeyWrites DEF vixSetGrKeys
  <1>8. ASSUME NEW p \in Parts, NEW v \in Values, vixPlaybackSetEq(p, v)
        PROVE  SavageInv'
    BY <1>8 DEF vixPlaybackSetEq, NoEq, Mute
  <1>9. ASSUME NEW b \in BOOLEAN, vixPlaybackSetDeint(b)
        PROVE  SavageInv'
    BY <1>9 DEF vixPlaybackSetDeint, Deinterlacers
  <1> QED BY <1>1, <1>2, <1>3, <1>4, <1>5, <1>6, <1>7, <1>8, <1>9 DEF Next

LEMMA Mach64Holds ==
  ASSUME TypeOK, TypeOK', Noted', Mach64Inv, driver \in {"mach64", "mach64_old"}, Next
  PROVE  Mach64Inv'
  <1> USE DEF Mach64Inv, Dimmed, DeskKey, DeskMode, Painted, InForce, Loaded, Configured,
              TypeOK, Cards, Memories
  <1>1. CASE vixInit
    <2>1. drv' = Saving(card, Memory) /\ card' = Mach64Init(card)
      BY <1>1 DEF vixInit, InitMemory, InitCard
    <2> QED
      BY <1>1, <2>1
      DEF vixInit, Saving, Memory, Mach64Init, mach64_vid_make_default,
          mach64_reset_regs, Spoilt, Dark
  <1>2. CASE vixConfigPlayback
    <2>1. drv' = drv /\ card' = Gamma(driver, Spoilt(Dark(card)), 0)
      BY <1>2 DEF vixConfigPlayback, ConfigMemory, ConfigCard, mach64_vid_stop_video
    <2>2. Spoilt(Dark(card)) \in Cards
      BY SwitchesTyped DEF TypeOK
    <2>3. /\ card'.depth = card.depth /\ card'.lit = FALSE
          /\ card'.cmp = card.cmp /\ card'.key = card.key
          /\ driver = "mach64" => card'.eq = card.eq
      BY <2>1, <2>2, DarkWrites DEF Gamma
    <2> QED BY <1>2, <2>1, <2>3 DEF vixConfigPlayback
  <1>3. CASE vixPlaybackOn
    <2>1. drv' = drv /\ card' = mach64_vid_display_video(driver, card)
      BY <1>3 DEF vixPlaybackOn, OnMemory, OnCard
    <2> QED BY <1>3, <2>1 DEF vixPlaybackOn, mach64_vid_display_video, Gamma, Setup, Lit
  <1>4. CASE vixPlaybackOff
    <2>1. drv' = drv /\ card' = Gamma(driver, Spoilt(Dark(card)), 0)
      BY <1>4 DEF vixPlaybackOff, OffMemory, OffCard, mach64_vid_stop_video
    <2>2. Spoilt(Dark(card)) \in Cards
      BY SwitchesTyped DEF TypeOK
    <2>3. /\ card'.depth = card.depth /\ card'.lit = FALSE
          /\ card'.cmp = card.cmp /\ card'.key = card.key
          /\ driver = "mach64" => card'.eq = card.eq
      BY <2>1, <2>2, DarkWrites DEF Gamma
    <2> QED BY <1>4, <2>1, <2>3 DEF vixPlaybackOff
  <1>5. CASE vixPlaybackFrameSelect
    BY <1>5 DEF vixPlaybackFrameSelect
  <1>6. CASE vixDestroy
    <2>1. card' = KeysBack(card, drv)
      BY <1>6 DEF vixDestroy, DestroyCard
    <2> QED BY <1>6, <2>1 DEF vixDestroy, KeysBack
  <1>7. ASSUME NEW r \in Requests(driver), vixSetGrKeys(r)
        PROVE  Mach64Inv'
    <2>1. /\ drv' = [drv EXCEPT !.req = r]
          /\ card' = Mach64SetGrKeys(card, drv')
      BY <1>7 DEF vixSetGrKeys, KeyMemory, KeyCard
    <2>2. drv'.saved = drv.saved /\ drv'.eq = drv.eq
      BY <2>1
    <2>3. Painted(card, drv'.req.colour) \in Int
      BY Fields DEF TypeOK
    <2>4. [card EXCEPT !.key = 0] \in Cards
      BY CardPut DEF TypeOK
    <2>5. /\ card'.depth = card.depth /\ card'.eq = card.eq
          /\ card'.lit = card.lit /\ card'.whole = card.whole
          /\ drv'.req.op = "true" =>
               card'.cmp = "key" /\ card'.key = Painted(card, drv'.req.colour)
          /\ drv'.req.op # "true" => card'.cmp = "always"
      BY <2>1, <2>3, <2>4, KeyedWrites DEF Mach64SetGrKeys
    <2> QED BY <1>7, <2>2, <2>5 DEF vixSetGrKeys, Noted
  <1>8. ASSUME NEW p \in Parts, NEW v \in Values, vixPlaybackSetEq(p, v)
        PROVE  Mach64Inv'
    <2>1. card' = Mach64SetEq(driver, card, drv')
      BY <1>8 DEF vixPlaybackSetEq, EqCard
    <2> QED BY <1>8, <2>1, SMTT(20) DEF vixPlaybackSetEq, Mach64SetEq, Gamma
  <1>9. ASSUME NEW b \in BOOLEAN, vixPlaybackSetDeint(b)
        PROVE  Mach64Inv'
    BY <1>9 DEF vixPlaybackSetDeint, Deinterlacers
  <1> QED BY <1>1, <1>2, <1>3, <1>4, <1>5, <1>6, <1>7, <1>8, <1>9 DEF Next

LEMMA RadeonHolds ==
  ASSUME TypeOK, TypeOK', Noted, Noted', RadeonInv, driver \in {"radeon", "rage128"}, Next
  PROVE  RadeonInv'
  <1> USE DEF RadeonInv, Noted, Dimmed, DeskKey, DeskMode, Painted, InForce, Loaded,
              Configured, TypeOK, Cards, Memories
  <1>1. CASE vixInit
    <2>1. drv' = Saving(card, Memory) /\ card' = radeon_vid_make_default(card)
      BY <1>1 DEF vixInit, InitMemory, InitCard
    <2> QED
      BY <1>1, <2>1
      DEF vixInit, Saving, Memory, radeon_vid_make_default, make_default_gamma_correction
  <1>2. CASE vixConfigPlayback
    <2>1. drv' = drv /\ card' = radeon_vid_stop_video(card)
      BY <1>2 DEF vixConfigPlayback, ConfigMemory, ConfigCard
    <2> QED BY <1>2, <2>1 DEF vixConfigPlayback, radeon_vid_stop_video, Spoilt, Dark
  <1>3. CASE vixPlaybackOn
    <2>1. drv' = drv /\ card' = radeon_vid_display_video(driver, card, drv)
      BY <1>3 DEF vixPlaybackOn, OnMemory, OnCard
    <2> QED
      BY <1>3, <2>1
      DEF vixPlaybackOn, radeon_vid_display_video, radeon_key, Setup, Lit
  <1>4. CASE vixPlaybackOff
    <2>1. drv' = drv /\ card' = radeon_vid_stop_video(card)
      BY <1>4 DEF vixPlaybackOff, OffMemory, OffCard
    <2> QED BY <1>4, <2>1 DEF vixPlaybackOff, radeon_vid_stop_video, Spoilt, Dark
  <1>5. CASE vixPlaybackFrameSelect
    BY <1>5 DEF vixPlaybackFrameSelect
  <1>6. CASE vixDestroy
    <2>1. card' = KeysBack(card, drv)
      BY <1>6 DEF vixDestroy, DestroyCard
    <2> QED BY <1>6, <2>1 DEF vixDestroy, KeysBack
  <1>7. ASSUME NEW r \in Requests(driver), vixSetGrKeys(r)
        PROVE  RadeonInv'
    <2>1. /\ drv' = [drv EXCEPT !.req = r]
          /\ card' = radeon_key(driver, card, drv')
      BY <1>7 DEF vixSetGrKeys, KeyMemory, KeyCard
    <2>2. drv'.saved = drv.saved /\ drv'.eq = drv.eq /\ drv'.deint = drv.deint
      BY <2>1
    <2>3. /\ card'.depth = card.depth /\ card'.eq = card.eq /\ card'.deint = card.deint
          /\ card'.lit = card.lit /\ card'.whole = card.whole
          /\ drv'.req.op = "true" =>
               /\ card'.cmp = IF driver = "radeon" THEN "bits" ELSE "key"
               /\ card'.key = Painted(card, drv'.req.colour)
          /\ drv'.req.op = "alpha" /\ card.depth = 32 => card'.cmp = "alpha"
          /\ drv'.req.op = "false" => card'.cmp = "always"
      BY <2>1, radeon_keyWrites
    <2>4. asked' # None /\ asked'.op = "alpha" => card.depth = 32
      BY <1>7 DEF vixSetGrKeys, AlphaRefused
    <2> QED BY <1>7, <2>2, <2>3, <2>4 DEF vixSetGrKeys
  <1>8. ASSUME NEW p \in Parts, NEW v \in Values, vixPlaybackSetEq(p, v)
        PROVE  RadeonInv'
    <2>1. card' = radeon_set_transform(card, drv')
      BY <1>8 DEF vixPlaybackSetEq, EqCard
    <2> QED BY <1>8, <2>1 DEF vixPlaybackSetEq, radeon_set_transform
  <1>9. ASSUME NEW b \in BOOLEAN, vixPlaybackSetDeint(b)
        PROVE  RadeonInv'
    <2>1. card' = RadeonSetDeint(card, drv')
      BY <1>9 DEF vixPlaybackSetDeint
    <2> QED BY <1>9, <2>1 DEF vixPlaybackSetDeint, RadeonSetDeint
  <1> QED BY <1>1, <1>2, <1>3, <1>4, <1>5, <1>6, <1>7, <1>8, <1>9 DEF Next

LEMMA RadeonhdHolds ==
  ASSUME TypeOK, TypeOK', RadeonhdInv, driver = "radeonhd", Next
  PROVE  RadeonhdInv'
  <1> USE DEF RadeonhdInv, Dimmed, InForce, Loaded, Configured, TypeOK, Cards, Memories
  <1>1. CASE vixInit
    <2>1. drv' = Memory /\ card' = card
      BY <1>1 DEF vixInit, InitMemory, InitCard
    <2> QED BY <1>1, <2>1 DEF vixInit, Memory
  <1>2. CASE vixConfigPlayback
    <2>1. drv' = drv /\ card' = radeonhd_stop_video(card)
      BY <1>2 DEF vixConfigPlayback, ConfigMemory, ConfigCard
    <2> QED BY <1>2, <2>1 DEF vixConfigPlayback, radeonhd_stop_video, Spoilt, Dark
  <1>3. CASE vixPlaybackOn
    <2>1. drv' = drv /\ card' = radeonhd_display_video(card)
      BY <1>3 DEF vixPlaybackOn, OnMemory, OnCard
    <2> QED BY <1>3, <2>1 DEF vixPlaybackOn, radeonhd_display_video, Setup, Lit
  <1>4. CASE vixPlaybackOff
    <2>1. drv' = drv /\ card' = radeonhd_stop_video(card)
      BY <1>4 DEF vixPlaybackOff, OffMemory, OffCard
    <2> QED BY <1>4, <2>1 DEF vixPlaybackOff, radeonhd_stop_video, Spoilt, Dark
  <1>5. CASE vixPlaybackFrameSelect
    BY <1>5 DEF vixPlaybackFrameSelect
  <1>6. CASE vixDestroy
    <2>1. card' = card
      BY <1>6 DEF vixDestroy, DestroyCard
    <2> QED BY <1>6, <2>1 DEF vixDestroy
  <1>7. ASSUME NEW r \in Requests(driver), vixSetGrKeys(r)
        PROVE  RadeonhdInv'
    <2>1. card' = radeonhd_set_gr_key(card, drv')
      BY <1>7 DEF vixSetGrKeys, KeyCard
    <2>2. card'.lit = card.lit /\ card'.whole = card.whole
      <3>1. \/ \E x : card' = [card EXCEPT !.cmp = "always", !.key = x]
            \/ \E x : card' = [card EXCEPT !.cmp = "alpha", !.key = x]
            \/ card' = [card EXCEPT !.cmp = "other", !.key = 0]
        BY <2>1 DEF radeonhd_set_gr_key
      <3> QED BY <3>1, ZenonT(40)
    <2> QED BY <1>7, <2>2 DEF vixSetGrKeys
  <1>8. ASSUME NEW p \in Parts, NEW v \in Values, vixPlaybackSetEq(p, v)
        PROVE  RadeonhdInv'
    BY <1>8 DEF vixPlaybackSetEq, NoEq, Mute
  <1>9. ASSUME NEW b \in BOOLEAN, vixPlaybackSetDeint(b)
        PROVE  RadeonhdInv'
    BY <1>9 DEF vixPlaybackSetDeint, Deinterlacers
  <1> QED BY <1>1, <1>2, <1>3, <1>4, <1>5, <1>6, <1>7, <1>8, <1>9 DEF Next

-----------------------------------------------------------------------------
(***************************************************************************)
(* The invariant holds.                                                    *)
(***************************************************************************)
LEMMA InitHolds == Init => IInv
  <1> SUFFICES ASSUME Init
               PROVE  IInv
    OBVIOUS
  <1>1. PICK depth \in Depths :
          card = [depth |-> depth, lit |-> FALSE, whole |-> FALSE, cmp |-> "desk",
                  key |-> Desk, eq |-> Neutral, deint |-> FALSE]
    BY DEF Init
  <1>2. card \in Cards
    BY <1>1, Fields, DeskAssumption DEF Cards, Modes
  <1>3. driver \in Known /\ drv \in Memories /\ wish \in [eq : Equals, deint : BOOLEAN]
    BY Fields, DriversAssumption DEF Init
  <1>4. TypeOK
    BY <1>2, <1>3 DEF Init, TypeOK
  <1>5. /\ phase = "none" /\ asked = None
        /\ card.lit = FALSE /\ card.key = Desk /\ card.cmp = "desk"
    BY <1>1 DEF Init
  <1> QED
    BY <1>4, <1>5
    DEF IInv, Remembers, Noted, Loaded, Configured, Dimmed, DeskKey, DeskMode, StreamsKey,
        CyberbladeInv, SisInv, UnichromeInv, Pm2Inv, Pm3Inv, NvidiaInv, MgaInv, S3Inv,
        SavageInv, Mach64Inv, RadeonInv, RadeonhdInv

LEMMA Inductive == IInv /\ [Next]_vars => IInv'
  <1> SUFFICES ASSUME IInv, [Next]_vars
               PROVE  IInv'
    OBVIOUS
  <1>1. CASE Next
    <2>1. driver' = driver
      BY <1>1
      DEF Next, vixInit, vixConfigPlayback, vixPlaybackOn, vixPlaybackOff,
          vixPlaybackFrameSelect, vixDestroy, vixSetGrKeys, vixPlaybackSetEq,
          vixPlaybackSetDeint
    <2>2. TypeOK /\ TypeOK'
      BY <1>1, TypeHolds DEF IInv
    <2>3. Remembers' /\ (driver # "nvidia" => Noted /\ Noted')
      BY <1>1, <2>1, SettingsHold DEF IInv
    <2>4. /\ driver = "cyberblade" => CyberbladeInv'
          /\ driver = "sis"        => SisInv'
          /\ driver = "unichrome"  => UnichromeInv'
          /\ driver = "pm2"        => Pm2Inv'
          /\ driver = "pm3"        => Pm3Inv'
          /\ driver = "nvidia"     => NvidiaInv'
      BY <1>1, <2>2, <2>3, CyberbladeHolds, SisHolds, UnichromeHolds, Pm2Holds, Pm3Holds,
         NvidiaHolds DEF IInv
    <2>5. /\ driver = "mga"        => MgaInv'
          /\ driver = "s3"         => S3Inv'
          /\ driver = "savage"     => SavageInv'
          /\ driver \in {"mach64", "mach64_old"} => Mach64Inv'
          /\ driver \in {"radeon", "rage128"}    => RadeonInv'
          /\ driver = "radeonhd"   => RadeonhdInv'
      BY <1>1, <2>2, <2>3, MgaHolds, S3Holds, SavageHolds, Mach64Holds, RadeonHolds,
         RadeonhdHolds DEF IInv
    <2> QED BY <2>1, <2>2, <2>3, <2>4, <2>5 DEF IInv
  <1>2. CASE UNCHANGED vars
    BY <1>2
    DEF vars, IInv, TypeOK, Remembers, Noted, Loaded, Configured, Dimmed, DeskKey, DeskMode,
        InForce, StreamsKey, CyberbladeInv, SisInv, UnichromeInv, Pm2Inv, Pm3Inv, NvidiaInv,
        MgaInv, S3Inv, SavageInv, Mach64Inv, RadeonInv, RadeonhdInv
  <1> QED BY <1>1, <1>2

LEMMA Invariance == Spec => []IInv
  BY InitHolds, Inductive, PTL DEF Spec

-----------------------------------------------------------------------------
(***************************************************************************)
(* What follows from it.                                                   *)
(***************************************************************************)

\* While playback is on the overlay is enabled and set up for the movie, through
\* any settings, restarts and movies before it, as far as the driver is written
\* for restarts; after vixPlaybackOff it is dark.
THEOREM OverlayCorrect == Spec => []OverlayFollows
  <1>1. IInv => OverlayFollows
    <2> SUFFICES ASSUME IInv
                 PROVE  OverlayFollows
      OBVIOUS
    <2>1. driver \in Known /\ card \in Cards /\ stops \in {"never", "before", "since"}
      BY DEF IInv, TypeOK
    <2>2. phase = "on" /\ ~Lost => card.lit = TRUE /\ card.whole = TRUE
      <3> SUFFICES ASSUME phase = "on", ~Lost
                   PROVE  card.lit = TRUE /\ card.whole = TRUE
        OBVIOUS
      <3>1. CASE driver \in {"cyberblade", "sis", "unichrome", "pm2", "pm3", "nvidia"}
        BY <3>1
        DEF IInv, Lost, Configured, Dimmed, CyberbladeInv, SisInv, UnichromeInv, Pm2Inv,
            Pm3Inv, NvidiaInv
      <3>2. CASE driver \in {"mga", "s3", "savage"}
        BY <3>2 DEF IInv, Lost, Loaded, MgaInv, S3Inv, SavageInv
      <3>3. CASE driver \in {"mach64", "mach64_old", "radeon", "rage128", "radeonhd"}
        BY <3>3 DEF IInv, Dimmed, Mach64Inv, RadeonInv, RadeonhdInv
      <3> QED BY <2>1, <3>1, <3>2, <3>3 DEF Known
    <2>3. phase = "off" /\ driver \notin Relights => card.lit = FALSE
      <3> SUFFICES ASSUME phase = "off", driver # "nvidia"
                   PROVE  card.lit = FALSE
        BY DEF Relights
      <3>1. CASE driver \in {"pm2", "mga", "s3", "savage"}
        BY <3>1 DEF IInv, Loaded, Pm2Inv, MgaInv, S3Inv, SavageInv
      <3>2. CASE driver \notin {"pm2", "mga", "s3", "savage"}
        BY <2>1, <3>2
        DEF IInv, Known, Dimmed, CyberbladeInv, SisInv, UnichromeInv, Pm3Inv, Mach64Inv,
            RadeonInv, RadeonhdInv
      <3> QED BY <3>1, <3>2
    <2> QED BY <2>2, <2>3 DEF OverlayFollows
  <1> QED BY <1>1, Invariance, PTL

\* The bits of a colour the key of a Radeon asks for.
LEMMA BitsOf255 ==
  ASSUME NEW x \in 0 .. 255, HasBits(x, 255)
  PROVE  x = 255
  <1>1. \A bit \in {1, 2, 4, 8, 16, 32, 64, 128} : (x \div bit) % 2 = 1
    BY DEF HasBits
  <1>2. /\ x % 2 = 1 /\ (x \div 2) % 2 = 1 /\ (x \div 4) % 2 = 1 /\ (x \div 8) % 2 = 1
        /\ (x \div 16) % 2 = 1 /\ (x \div 32) % 2 = 1 /\ (x \div 64) % 2 = 1
        /\ (x \div 128) % 2 = 1
    BY <1>1
  <1> QED BY <1>2

LEMMA BitsOf31 ==
  ASSUME NEW x \in 0 .. 31, HasBits(x, 31)
  PROVE  x = 31
  <1>1. /\ x % 2 = 1 /\ (x \div 2) % 2 = 1 /\ (x \div 4) % 2 = 1 /\ (x \div 8) % 2 = 1
        /\ (x \div 16) % 2 = 1
    BY DEF HasBits
  <1> QED BY <1>1

LEMMA HasOwnBits == HasBits(255, 255) /\ HasBits(31, 31)
  BY DEF HasBits

\* A card that keys on the value the desktop has for the colour of the request, or
\* that stops keying, does what the request says.
KeyedRight ==
  asked.op \in {"true", "false"} /\ InForce(asked, Painted(card, asked.colour))

LEMMA InForceFollows ==
  ASSUME asked # None, KeyedRight
  PROVE  KeyFollows
  <1>1. CASE asked.op = "true"
    <2>1. \A colour \in Colours :
            Through(colour) <=> Painted(card, colour) = Painted(card, asked.colour)
      BY <1>1 DEF KeyedRight, InForce, Through
    <2> QED BY <1>1, <2>1 DEF KeyFollows
  <1>2. CASE asked.op = "false"
    BY <1>2 DEF KeyedRight, InForce, KeyFollows
  <1> QED BY <1>1, <1>2 DEF KeyedRight

LEMMA KeyShown == IInv => KeyFollows
  <1> SUFFICES ASSUME IInv, phase = "on", ~Lost, asked # None, ~Unknown, ~Misread(asked)
               PROVE  KeyFollows
    BY DEF KeyFollows
  <1>1. /\ driver \in Known /\ card \in Cards /\ drv \in Memories /\ card.depth \in {16, 32}
        /\ asked \in Requests(driver)
    BY DEF IInv, TypeOK, Cards
  <1>2. asked.colour \in 0 .. 255
    BY <1>1, RequestsTyped DEF Asks
  <1>3. driver # "nvidia" => drv.req = asked
    BY DEF IInv, Noted, Loaded
  <1>4. driver \notin Blenders => asked.op \in {"true", "false"}
    BY <1>1 DEF Requests
  <1>5. CASE driver = "cyberblade"
    <2>1. asked.op = "true"
      BY <1>4, <1>5 DEF Misread, Blenders
    <2>2. card.cmp = "key" /\ card.key = Painted(card, asked.colour)
      BY <1>3, <1>5 DEF IInv, CyberbladeInv, Configured
    <2> QED BY <2>1, <2>2, InForceFollows DEF KeyedRight, InForce
  <1>6. CASE driver = "sis"
    <2>1. card.depth # 16 /\ Painted(card, asked.colour) = asked.colour
      BY <1>6 DEF Unknown, Painted
    <2>2. InForce(asked, asked.colour)
      BY <1>3, <1>6 DEF IInv, SisInv, Configured
    <2> QED BY <1>4, <1>6, <2>1, <2>2, InForceFollows DEF KeyedRight, Blenders
  <1>7. CASE driver = "unichrome"
    <2>1. InForce(asked, asked.colour % 32)
      BY <1>7 DEF IInv, UnichromeInv, Loaded
    <2>2. asked.op = "true" => asked.colour % 32 = Painted(card, asked.colour)
      BY <1>1, <1>7 DEF Misread, LowBits
    <2> QED BY <1>4, <1>7, <2>1, <2>2, InForceFollows DEF KeyedRight, InForce, Blenders
  <1>8. CASE driver = "pm2"
    BY <1>8 DEF IInv, Pm2Inv
  <1>9. CASE driver = "pm3"
    <2>1. card.depth # 16 /\ Painted(card, asked.colour) = asked.colour
      BY <1>9 DEF Unknown, Painted
    <2>2. InForce(asked, asked.colour)
      BY <1>9 DEF IInv, Pm3Inv, Loaded
    <2> QED BY <1>4, <1>9, <2>1, <2>2, InForceFollows DEF KeyedRight, Blenders
  <1>10. CASE driver = "nvidia"
    <2>1. /\ drv.req.op = asked.op /\ (asked.op = "true" => drv.req.colour = asked.colour)
          /\ InForce(drv.req, NvidiaKey(card, drv.req.colour))
      BY <1>10 DEF IInv, NvidiaInv, Loaded
    <2>2. ASSUME asked.op = "true"
          PROVE  NvidiaKey(card, asked.colour) = Painted(card, asked.colour)
      <3>1. CASE card.depth = 16
        <4>1. asked.colour \in 128 .. 255
          BY <1>2, <1>10, <2>2, <3>1 DEF Misread
        <4>2. \A x \in 128 .. 255 : 16 + ((x \div 8) % 16) = x \div 8
          OBVIOUS
        <4> QED BY <3>1, <4>1, <4>2 DEF NvidiaKey, Painted
      <3>2. CASE card.depth # 16
        BY <3>2 DEF NvidiaKey
      <3> QED BY <3>1, <3>2
    <2> QED BY <1>4, <1>10, <2>1, <2>2, InForceFollows DEF KeyedRight, InForce, Blenders
  <1>11. CASE driver = "mga"
    <2>1. InForce(asked, Painted(card, asked.colour))
      BY <1>11 DEF IInv, MgaInv, Loaded
    <2> QED BY <1>4, <1>11, <2>1, InForceFollows DEF KeyedRight, Blenders
  <1>12. CASE driver \in {"s3", "savage"}
    <2>1. /\ ~(asked.op = "true" /\ asked.colour = 0)
          /\ asked.op = "true" => LowBits(card, asked.colour) = Painted(card, asked.colour)
      BY <1>12 DEF Misread
    <2>2. InForce(asked, LowBits(card, asked.colour))
      BY <1>12, <2>1 DEF IInv, S3Inv, SavageInv, StreamsKey, Loaded
    <2> QED BY <1>4, <1>12, <2>1, <2>2, InForceFollows DEF KeyedRight, InForce, Blenders
  <1>13. CASE driver \in {"mach64", "mach64_old"}
    <2>1. InForce(asked, Painted(card, asked.colour))
      BY <1>13 DEF IInv, Mach64Inv, Loaded
    <2> QED BY <1>4, <1>13, <2>1, InForceFollows DEF KeyedRight, Blenders
  <1>14. CASE driver \in {"radeon", "rage128"}
    <2>1. /\ asked.op = "true" =>
               /\ card.cmp = IF driver = "radeon" THEN "bits" ELSE "key"
               /\ card.key = Painted(card, asked.colour)
          /\ asked.op = "alpha" => card.cmp = "alpha"
          /\ asked.op = "false" => card.cmp = "always"
      BY <1>14 DEF IInv, RadeonInv
    <2>2. CASE asked.op = "true" /\ driver = "radeon"
      <3>1. asked.colour = 255 /\ card.cmp = "bits" /\ card.key = Painted(card, 255)
        BY <2>1, <2>2 DEF Misread
      <3>2. ASSUME NEW colour \in Colours
            PROVE  HasBits(Painted(card, colour), Painted(card, 255)) <=>
                     Painted(card, colour) = Painted(card, 255)
        <4>1. colour \in 0 .. 255
          BY ColoursAssumption
        <4>2. CASE card.depth = 16
          <5>1. Painted(card, colour) \in 0 .. 31 /\ Painted(card, 255) = 31
            BY <4>1, <4>2 DEF Painted
          <5> QED BY <5>1, BitsOf31, HasOwnBits
        <4>3. CASE card.depth # 16
          <5>1. Painted(card, colour) \in 0 .. 255 /\ Painted(card, 255) = 255
            BY <4>1, <4>3 DEF Painted
          <5> QED BY <5>1, BitsOf255, HasOwnBits
        <4> QED BY <4>2, <4>3
      <3>3. \A colour \in Colours :
              Through(colour) <=> HasBits(Painted(card, colour), card.key)
        BY <3>1 DEF Through
      <3> QED BY <2>2, <3>1, <3>2, <3>3 DEF KeyFollows
    <2>3. CASE asked.op = "true" /\ driver = "rage128"
      BY <2>1, <2>3, InForceFollows DEF KeyedRight, InForce
    <2>4. CASE asked.op # "true"
      <3>1. asked.op \in {"alpha", "false"}
        BY <1>1, <2>4, RequestsTyped DEF Asks
      <3> QED BY <2>1, <3>1 DEF KeyFollows
    <2> QED BY <1>14, <2>2, <2>3, <2>4
  <1>15. CASE driver = "radeonhd"
    BY <1>15 DEF Unknown
  <1> QED
    BY <1>1, <1>5, <1>6, <1>7, <1>8, <1>9, <1>10, <1>11, <1>12, <1>13, <1>14, <1>15
    DEF Known

LEMMA EqShown == IInv => EqFollows
  <1> SUFFICES ASSUME IInv, phase = "on"
               PROVE  EqFollows
    BY DEF EqFollows
  <1>1. drv.deint = wish.deint /\ (driver # "s3" => drv.eq = wish.eq)
    BY DEF IInv, Remembers, Loaded
  <1>2. driver \in Remembering => card.eq = drv.eq
    BY DEF Remembering, IInv, CyberbladeInv, SisInv, MgaInv, Mach64Inv, RadeonInv, Loaded,
           Configured
  <1>3. driver \in Deinterlacers => card.deint = drv.deint
    BY DEF Deinterlacers, IInv, RadeonInv
  <1> QED BY <1>1, <1>2, <1>3 DEF EqFollows, Remembering

\* While playback is on, the last key request the driver accepted decides where the
\* video shows, and the colours and the deinterlacer are those the program set
\* last, whenever it made the settings, but for the requests Misread names.
THEOREM SettingsCorrect == Spec => []SettingsFollow
  <1>1. IInv => SettingsFollow
    BY KeyShown, EqShown DEF SettingsFollow
  <1> QED BY <1>1, Invariance, PTL

\* After vixDestroy the desktop has the key it had before vixInit, and the overlay
\* is dark, for the drivers that give them back.
THEOREM DeskCorrect == Spec => []DeskBack
  <1>1. IInv => DeskBack
    <2> SUFFICES ASSUME IInv, phase = "none"
                 PROVE  DeskBack
      BY DEF DeskBack
    <2>1. driver \in Savers \cup FullSavers => card.key = Desk
      BY DEF Savers, FullSavers, IInv, Loaded, DeskKey, CyberbladeInv, Pm3Inv, MgaInv,
             Mach64Inv, RadeonInv
    <2>2. driver \in FullSavers => card.cmp = "desk"
      BY DEF FullSavers, IInv, Loaded, DeskMode, MgaInv, Mach64Inv, RadeonInv
    <2>3. driver \notin Leavers => card.lit = FALSE
      <3>1. driver \in Known
        BY DEF IInv, TypeOK
      <3> QED
        BY <3>1
        DEF Known, Leavers, IInv, Loaded, Dimmed, CyberbladeInv, SisInv, UnichromeInv,
            Pm3Inv, MgaInv, Mach64Inv, RadeonInv, RadeonhdInv
    <2> QED BY <2>1, <2>2, <2>3 DEF DeskBack
  <1> QED BY <1>1, Invariance, PTL
=============================================================================
