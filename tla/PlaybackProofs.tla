---------------------------- MODULE PlaybackProofs ----------------------------
(***************************************************************************)
(* Where the frames of a movie are and what the card shows of them, for    *)
(* movies and windows of every size, every number of frames asked for and  *)
(* every amount of memory. Each layout is a base, a number of frames and   *)
(* the size of one. Room says that the frames end below an address, Holds  *)
(* that what the program writes of a frame's planes is where the card      *)
(* reads them, FramesOn and PlanesOn that they start where the registers   *)
(* of the card can point; of each there is one lemma for each driver.      *)
(***************************************************************************)
EXTENDS Playback, WellFoundedInduction, TLAPS

-----------------------------------------------------------------------------
(***************************************************************************)
(* Arithmetic.                                                             *)
(***************************************************************************)

LEMMA DivBelow ==
  ASSUME NEW a \in Nat, NEW b \in Nat \ {0}
  PROVE  /\ a \div b \in Nat
         /\ (a \div b) * b <= a
  BY SMT

LEMMA ProductGrows ==
  ASSUME NEW m \in Int, NEW n \in Int, NEW b \in Nat, m <= n
  PROVE  m * b <= n * b
  BY SMT

LEMMA ProductPositive ==
  ASSUME NEW m \in Nat \ {0}, NEW n \in Nat \ {0}
  PROVE  m * n \in Nat \ {0}
  BY SMT

LEMMA DownBelow ==
  ASSUME NEW x \in Int, NEW a \in Nat \ {0}
  PROVE  AlignDown(x, a) \in Int /\ AlignDown(x, a) <= x
  BY SMT DEF AlignDown

LEMMA UpAbove ==
  ASSUME NEW x \in Nat, NEW a \in Nat \ {0}
  PROVE  AlignTo(x, a) \in Nat /\ AlignTo(x, a) >= x
  BY SMT DEF AlignTo

\* Min and Max choose a member when there is one to choose.
LEMMA LeastMember ==
  ASSUME NEW S, S \subseteq Nat, S # {}
  PROVE  \E x \in S : \A y \in S : x <= y
<1>1. PICK x \in S : \A y \in S : ~(<<y, x>> \in OpToRel(<, Nat))
  BY NatLessThanWellFounded, WFMin
<1>2. \A y \in S : ~(y < x)
  BY <1>1 DEF OpToRel
<1>3. \A y \in S : y \in Nat /\ x \in Nat
  OBVIOUS
<1> QED  BY <1>2, <1>3, SMT

LEMMA MaxMember ==
  ASSUME NEW k \in Nat, NEW S, S \subseteq 1..k, S # {}
  PROVE  Max(S) \in S
<1> DEFINE T == {n \in Nat : k - n \in S}
<1>1. \A y \in S : k - y \in T /\ y \in Int
  <2>1. \A y \in S : k - y \in Nat /\ k - (k - y) = y
    BY SMT
  <2> QED  BY <2>1
<1>2. T # {} /\ T \subseteq Nat
  BY <1>1
<1>3. PICK t \in T : \A y \in T : t <= y
  <2> HIDE DEF T
  <2> QED  BY <1>2, LeastMember
<1>4. \A y \in S : k - t >= y
  <2> t \in Nat
    OBVIOUS
  <2> HIDE DEF T
  <2> QED  BY <1>1, <1>3, SMT
<1>5. k - t \in S
  OBVIOUS
<1>6. \E x \in S : \A y \in S : x >= y
  BY <1>4, <1>5
<1> QED  BY <1>6 DEF Max

LEMMA MinMember ==
  ASSUME NEW a \in Int, NEW b \in Int
  PROVE  Min({a, b}) \in {a, b} /\ Min({a, b}) <= a /\ Min({a, b}) <= b
<1>1. \E x \in {a, b} : \A y \in {a, b} : x <= y
  BY SMT
<1> QED  BY <1>1 DEF Min

-----------------------------------------------------------------------------
(***************************************************************************)
(* The layouts.                                                            *)
(***************************************************************************)

\* As many frames as the division says do fit.
LEMMA FitRoom ==
  ASSUME NEW M \in Nat, NEW size \in Nat \ {0}
  PROVE  Fit(M, size) \in Nat /\ Fit(M, size) * size <= M
<1> DEFINE q == M \div size
<1>1. q \in Nat /\ q * size <= M
  BY DivBelow
<1>2. MaxFrames \in Nat
  BY BoundAssumption
<1>3. Fit(M, size) \in {q, MaxFrames} /\ Fit(M, size) <= q
  <2> HIDE DEF q
  <2>1. Min({q, MaxFrames}) \in {q, MaxFrames} /\ Min({q, MaxFrames}) <= q
    BY <1>1, <1>2, MinMember
  <2> QED  BY <2>1 DEF Fit, q
<1>4. Fit(M, size) \in Nat
  BY <1>1, <1>2, <1>3
<1> HIDE DEF q
<1>5. Fit(M, size) * size <= q * size
  BY <1>1, <1>3, <1>4, ProductGrows
<1>6. Fit(M, size) * size \in Int /\ q * size \in Int
  BY <1>1, <1>4
<1> QED  BY ONLY <1>1, <1>4, <1>5, <1>6, M \in Nat, SMT

\* What the assumptions say of the lines of a movie.
LEMMA MovieFacts ==
  ASSUME NEW m \in Movies
  PROVE  /\ m.w \in Nat \ {0} /\ m.h \in Nat \ {0} /\ m.w * m.h \in Nat \ {0}
         /\ m.fourcc \in Planar \cup Packed
         /\ Bytes(m.fourcc) * m.w \in Nat \ {0}
         /\ Sub(m.fourcc) \in {2, 4}
<1>1. m.w \in Nat \ {0} /\ m.h \in Nat \ {0} /\ m.fourcc \in Planar \cup Packed
  BY MovieAssumption
<1>2. Bytes(m.fourcc) \in Nat \ {0} /\ Sub(m.fourcc) \in {2, 4}
  BY DEF Bytes, Sub
<1> QED  BY <1>1, <1>2, ProductPositive

LEMMA RowsPositive ==
  ASSUME NEW m \in Movies, NEW x \in Nat \ {0}, NEW a \in Nat \ {0}
  PROVE  AlignTo(x, a) \in Nat \ {0} /\ AlignTo(x, a) * m.h \in Nat \ {0}
<1>1. AlignTo(x, a) \in Nat \ {0}
  BY UpAbove
<1> QED  BY <1>1, MovieFacts, ProductPositive

\* The frames of a layout end at top or below it.
Room(p, top) ==
  /\ p.base \in Int /\ p.num \in Int /\ p.size \in Nat
  /\ p.base + p.num * p.size <= top

\* The common case: a base, and as many frames as fit behind it.
LEMMA FitLayout ==
  ASSUME NEW base \in Int, NEW M \in Nat, NEW size \in Nat \ {0},
         NEW line, NEW align, NEW u, NEW v
  PROVE  Room(Layout(base, Fit(M, size), size, line, align, u, v), base + M)
<1>1. Fit(M, size) \in Nat /\ Fit(M, size) * size <= M
  BY FitRoom
<1> DEFINE n == Fit(M, size)
<1>2. n \in Nat /\ n * size <= M /\ n * size \in Int
  BY <1>1
<1> HIDE DEF n
<1>3. base + n * size <= base + M
  BY <1>2, SMT
<1> QED  BY <1>2, <1>3 DEF Room, Layout, n

LEMMA CyberbladeRoom ==
  ASSUME NEW m \in Movies PROVE Room(Cyberblade(m), 8 * MB)
<1> DEFINE line == AlignTo(Bytes(m.fourcc) * m.w, 16)
           s == Sub(m.fourcc)
           chroma == IF m.fourcc \in Planar THEN ChromaLine(m.w, s) * (m.h \div s) ELSE 0
           v == IF m.fourcc \in Planar THEN line * m.h ELSE 0
<1>1. line * m.h \in Nat \ {0}
  BY MovieFacts, RowsPositive
<1>2. chroma \in Nat
  <2>1. m.w \in Nat /\ m.h \in Nat /\ s \in {2, 4}
    BY MovieFacts
  <2>2. m.w \div s \in Nat /\ m.h \div s \in Nat /\ 16 \div s \in Nat \ {0}
    BY <2>1, SMT
  <2>3. ChromaLine(m.w, s) \in Nat
    BY <2>2, UpAbove DEF ChromaLine
  <2>4. \A a, b \in Nat : a * b \in Nat
    BY SMT
  <2> QED  BY <2>2, <2>3, <2>4
<1>3. line * m.h + 2 * chroma \in Nat \ {0}
  <2> HIDE DEF line, chroma
  <2> QED  BY <1>1, <1>2, SMT
<1>4. 6 * MB \in Int /\ 2 * MB \in Nat /\ 6 * MB + 2 * MB = 8 * MB
  BY SMT DEF MB, KB
<1>5. Cyberblade(m) = Layout(6 * MB, Fit(2 * MB, line * m.h + 2 * chroma), line * m.h + 2 * chroma,
                             line, 16, v + chroma, v)
  BY DEF Cyberblade
<1> HIDE DEF line, chroma, v, s
<1> QED  BY <1>3, <1>4, <1>5, FitLayout

LEMMA Pm2Room ==
  ASSUME NEW m \in Movies, \E x \in PpWidths : x >= m.w PROVE Room(Pm2(m), 8 * MB)
<1>1. \E x \in PpWidths : x >= m.w /\ \A z \in PpWidths : z >= m.w => x <= z
  <2> DEFINE S == {x \in PpWidths : x >= m.w}
  <2>1. S \subseteq Nat /\ S # {}
    BY DEF PpWidths
  <2> HIDE DEF S
  <2>2. \E x \in S : \A z \in S : x <= z
    BY <2>1, LeastMember
  <2> QED  BY <2>2 DEF S
<1>2. PpStride(m.w) \in Nat \ {0}
  <2>1. PpStride(m.w) \in PpWidths /\ PpStride(m.w) >= m.w
    BY <1>1 DEF PpStride
  <2> QED  BY <2>1, MovieFacts, SMT DEF PpWidths
<1>3. PpStride(m.w) * m.h * 2 \in Nat \ {0}
  BY <1>2, MovieFacts, ProductPositive
<1>4. 2 * MB \in Int /\ 6 * MB \in Nat /\ 2 * MB + 6 * MB = 8 * MB
  BY SMT DEF MB, KB
<1> QED  BY <1>3, <1>4, FitLayout DEF Pm2

\* The Permedia3 driver counts down from the end of what it mapped.
LEMMA Pm3Room ==
  ASSUME NEW m \in Movies, NEW asked \in Asked PROVE Room(Pm3(m, asked), 32 * MB)
<1> DEFINE size == m.w * m.h * 2
           num == Min({asked, Fit(24 * MB, size)})
<1>1. size \in Nat \ {0}
  BY MovieFacts, ProductPositive
<1>2. num \in Int
  <2> HIDE DEF size
  <2>1. Fit(24 * MB, size) \in Nat
    <3>1. 24 * MB \in Nat
      BY SMT DEF MB, KB
    <3> QED  BY <1>1, <3>1, FitRoom
  <2>2. asked \in Nat
    BY BoundAssumption
  <2>3. \A f \in Nat : Min({asked, f}) \in {asked, f}
    BY <2>2, MinMember
  <2>4. num \in {asked, Fit(24 * MB, size)}
    BY <2>1, <2>3
  <2> HIDE DEF num
  <2> QED  BY <2>1, <2>2, <2>4
<1> DEFINE top == 32 * MB
<1>3. top \in Int
  BY SMT DEF MB, KB
<1>4. Pm3(m, asked) = Layout(top - num * size, num, size, 2 * m.w, 2, 0, 0)
  BY DEF Pm3
<1> HIDE DEF size, num, top
<1>5. top - num * size \in Int /\ (top - num * size) + num * size <= top
  BY <1>1, <1>2, <1>3, SMT
<1>6. Room(Layout(top - num * size, num, size, 2 * m.w, 2, 0, 0), top)
  BY <1>1, <1>2, <1>5 DEF Room, Layout
<1> QED  BY <1>4, <1>6 DEF top

LEMMA SisRoom ==
  ASSUME NEW m \in Movies PROVE Room(Sis(m), 16 * MB)
<1> DEFINE line == IF m.fourcc \in Planar THEN AlignTo(m.w, 8) ELSE AlignTo(2 * m.w, 4)
           total == IF m.fourcc \in Planar THEN (line * m.h * 3) \div 2 ELSE line * m.h
<1>1. line * m.h \in Nat \ {0}
  <2>1. m.w \in Nat \ {0} /\ 2 * m.w \in Nat \ {0}
    BY MovieFacts, SMT
  <2>2. 8 \in Nat \ {0} /\ 4 \in Nat \ {0}
    OBVIOUS
  <2>3. AlignTo(m.w, 8) * m.h \in Nat \ {0}
    BY <2>1, <2>2, RowsPositive
  <2>4. AlignTo(2 * m.w, 4) * m.h \in Nat \ {0}
    BY ONLY <2>1, <2>2, RowsPositive, m \in Movies
  <2> QED  BY <2>3, <2>4
<1>2. 2 * total \in Nat \ {0}
  <2> DEFINE n == line * m.h
  <2>1. n \in Nat \ {0}
    BY <1>1
  <2> HIDE DEF n
  <2>2. (n * 3) \div 2 \in Nat \ {0}
    BY <2>1, SMT
  <2>3. total \in Nat \ {0}
    BY <2>1, <2>2 DEF n
  <2> HIDE DEF total
  <2> QED  BY <2>3, SMT
<1>3. /\ 8 * MB \in Int /\ 7 * MB \in Nat /\ 16 * MB \in Int
      /\ 8 * MB + 7 * MB \in Int /\ 8 * MB + 7 * MB <= 16 * MB
  BY SMT DEF MB, KB
<1>4. Room(Sis(m), 8 * MB + 7 * MB)
  <2> HIDE DEF total, line
  <2> QED  BY <1>2, <1>3, FitLayout DEF Sis, total, line
<1> QED  BY <1>3, <1>4, SMT DEF Room

LEMMA UnichromeRoom ==
  ASSUME NEW m \in Movies PROVE Room(Unichrome(m), 8 * MB)
<1> DEFINE planar == m.fourcc \in {"YV12", "I420", "UYVY"}
           x == (IF planar THEN 1 ELSE Bytes(m.fourcc)) * m.w
           line == AlignTo(x, 32)
           chroma == IF planar THEN (line \div 2) * (m.h \div 2) ELSE 0
           size == line * m.h + 2 * chroma
<1>1. x \in Nat \ {0}
  BY MovieFacts
<1>2. line \in Nat \ {0} /\ line * m.h \in Nat \ {0}
  <2> HIDE DEF x
  <2> QED  BY <1>1, RowsPositive
<1>3. chroma \in Nat
  <2> HIDE DEF line
  <2>1. line \div 2 \in Nat /\ m.h \div 2 \in Nat
    BY <1>2, MovieFacts, SMT
  <2>2. \A a, b \in Nat : a * b \in Nat
    BY SMT
  <2> QED  BY <2>1, <2>2
<1>4. size \in Nat \ {0}
  <2> HIDE DEF line, chroma
  <2> QED  BY <1>2, <1>3, SMT
<1>5. 6 * MB \in Int /\ 2 * MB \in Nat /\ 6 * MB + 2 * MB = 8 * MB
  BY SMT DEF MB, KB
<1>6. Unichrome(m) =
        Layout(6 * MB, Fit(2 * MB, size), size, line, 32, line * m.h + chroma, line * m.h)
  BY DEF Unichrome
<1> HIDE DEF size, line, chroma
<1> QED  BY <1>4, <1>5, <1>6, FitLayout

\* Savage and S3: what is left of the memory behind the screen.
LEMMA BehindScreen ==
  ASSUME NEW size \in Nat \ {0}, ScreenMemory + size <= CardMemory,
         NEW line, NEW align, NEW u, NEW v
  PROVE  Room(Layout(ScreenMemory, Fit(CardMemory - ScreenMemory, size), size, line, align, u, v),
              CardMemory)
<1>1. ScreenMemory \in Int /\ CardMemory - ScreenMemory \in Nat
      /\ ScreenMemory + (CardMemory - ScreenMemory) = CardMemory
  BY MemoryAssumption, SMT
<1> DEFINE left == CardMemory - ScreenMemory
<1> HIDE DEF left
<1>2. Room(Layout(ScreenMemory, Fit(left, size), size, line, align, u, v), ScreenMemory + left)
  BY <1>1, FitLayout DEF left
<1> QED  BY <1>1, <1>2 DEF left

LEMMA SavageRoom ==
  ASSUME NEW m \in Movies, ScreenMemory + Savage(m).size <= CardMemory
  PROVE  Room(Savage(m), CardMemory)
<1> DEFINE line == AlignTo(Bytes(m.fourcc) * m.w, 16)
           size == line * m.h
<1>1. size \in Nat \ {0}
  BY MovieFacts, RowsPositive
<1>2. Savage(m) = Layout(ScreenMemory, Fit(CardMemory - ScreenMemory, size), size, line, 32, 0, 0)
  BY DEF Savage
<1> HIDE DEF size, line
<1>3. Savage(m).size = size
  BY <1>2 DEF Layout
<1> QED  BY <1>1, <1>2, <1>3, BehindScreen

LEMMA S3Room ==
  ASSUME NEW m \in Movies, ScreenMemory + S3(m).size <= CardMemory
  PROVE  Room(S3(m), CardMemory)
<1>1. S3(m) = Savage(m)
  BY DEF S3, Savage
<1> QED  BY <1>1, SavageRoom

LEMMA NvidiaRoom ==
  ASSUME NEW m \in Movies PROVE Room(Nvidia(m), CardMemory)
<1> DEFINE line == AlignTo(2 * m.w, 64)
           size == line * m.h
           left == CardMemory - NvBase
           q == left \div size
           num == Min({q, NvMaxFrames})
<1>1. size \in Nat \ {0}
  <2>1. 2 * m.w \in Nat \ {0} /\ 64 \in Nat \ {0}
    BY MovieFacts, SMT
  <2> QED  BY <2>1, RowsPositive
<1>2. NvBase \in Int /\ left \in Nat /\ NvBase + left = CardMemory
  BY MemoryAssumption, SMT DEF NvBase, NvBes, MB, KB
<1>3. Nvidia(m) = Layout(NvBase, num, size, line, 64, 0, 0)
  BY DEF Nvidia
<1> HIDE DEF line, size, left
<1>4. q \in Nat /\ q * size <= left
  BY <1>1, <1>2, DivBelow
<1> HIDE DEF q
<1>5. num \in Int /\ num <= q
  <2>1. NvMaxFrames \in Int
    BY DEF NvMaxFrames
  <2>2. \A a, b \in Int : Min({a, b}) \in {a, b} /\ Min({a, b}) <= a
    BY MinMember
  <2>3. num \in {q, NvMaxFrames} /\ num <= q
    BY <1>4, <2>1, <2>2
  <2> HIDE DEF num
  <2> QED  BY <1>4, <2>1, <2>3
<1> HIDE DEF num
<1>6. num * size <= q * size /\ num * size \in Int /\ q * size \in Int
  BY <1>1, <1>4, <1>5, ProductGrows
<1>7. NvBase + num * size <= CardMemory
  BY <1>2, <1>4, <1>6, SMT
<1>8. Room(Layout(NvBase, num, size, line, 64, 0, 0), CardMemory)
  <2> size \in Nat
    BY <1>1
  <2> QED  BY ONLY <1>2, <1>5, <1>7, size \in Nat DEF Room, Layout
<1> QED  BY <1>3, <1>8

LEMMA IvtvRoom ==
  ASSUME NEW m \in Movies PROVE Room(Ivtv(m), Ivtv(m).num * Ivtv(m).size)
<1> DEFINE luma == m.w * m.h
           size == luma + luma \div 2
<1>1. luma \in Nat
  BY MovieFacts
<1>2. size \in Nat
  <2> HIDE DEF luma
  <2> QED  BY <1>1, SMT
<1>3. Ivtv(m).num = 2 /\ Ivtv(m).size = size /\ Ivtv(m).base = 0
  BY DEF Ivtv, Layout
<1> HIDE DEF size
<1> QED  BY <1>2, <1>3, SMT DEF Room

LEMMA AtiNumInt ==
  ASSUME NEW memory, NEW size, NEW asked \in Asked, NEW least
  PROVE  AtiNum(memory, size, asked, least) \in Nat
<1> DEFINE limit == Min({asked, MaxFrames})
           above(l) == {num \in 1..limit : AtiBase(memory, size, num) >= l}
           most(S) == IF S = {} THEN 0 ELSE Max(S)
<1>1. limit \in Nat
  <2>1. asked \in Nat /\ MaxFrames \in Nat
    BY BoundAssumption
  <2>2. \A a, b \in Int : Min({a, b}) \in {a, b}
    BY MinMember
  <2>3. limit \in {asked, MaxFrames}
    BY <2>1, <2>2
  <2> HIDE DEF limit
  <2> QED  BY <2>1, <2>3
<1>2. \A l : most(above(l)) \in Nat
  <2> TAKE l
  <2> DEFINE S == above(l)
  <2>1. S \subseteq 1..limit
    OBVIOUS
  <2> HIDE DEF limit, S
  <2>2. S # {} => Max(S) \in S
    BY <1>1, <2>1, MaxMember
  <2>3. \A z \in 1..limit : z \in Nat
    BY <1>1
  <2>4. most(S) \in Nat
    BY <2>1, <2>2, <2>3
  <2> QED  BY <2>4 DEF S
<1>3. AtiNum(memory, size, asked, least) \in {most(above(ScreenMemory)), most(above(least))}
  BY DEF AtiNum
<1> HIDE DEF above, most
<1> QED  BY <1>2, <1>3

\* So do the ATI drivers, and round the base down.
LEMMA AtiRoom ==
  ASSUME NEW memory \in Int, NEW size \in Nat, NEW num \in Nat,
         NEW line, NEW align, NEW u, NEW v
  PROVE  Room(Layout(AtiBase(memory, size, num), num, size, line, align, u, v), memory)
<1> DEFINE x == memory - num * size
<1>1. num * size \in Int
  OBVIOUS
<1>2. x \in Int
  BY <1>1
<1>3. 64 * KB \in Nat \ {0}
  BY DEF KB
<1>4. AtiBase(memory, size, num) \in Int /\ AtiBase(memory, size, num) <= x
  <2> HIDE DEF x
  <2>1. AlignDown(x, 64 * KB) \in Int /\ AlignDown(x, 64 * KB) <= x
    BY <1>2, <1>3, DownBelow
  <2> QED  BY <2>1 DEF AtiBase, x
<1> DEFINE base == AtiBase(memory, size, num)
           all == num * size
<1>5. base + all <= memory
  <2>1. base <= memory - all /\ base \in Int /\ all \in Int
    BY <1>1, <1>4
  <2> HIDE DEF base, all
  <2> QED  BY <2>1
<1> QED  BY <1>4, <1>5 DEF Room, Layout

\* What the ATI drivers take for the lines of a frame.
LEMMA AtiLines ==
  ASSUME NEW m \in Movies
  PROVE  AtiLine(m) * AtiRows(m) \in Nat
<1>1. AtiPitch(m) \in Nat \ {0}
  BY DEF AtiPitch
<1>2. AtiLine(m) \in Nat
  BY <1>1, MovieFacts, UpAbove DEF AtiLine
<1>3. AtiRows(m) \in Nat
  <2>1. m.h \in Nat /\ m.h \div 8 \in Nat /\ m.h \div 2 \in Nat
    BY MovieFacts, SMT
  <2> QED  BY <2>1 DEF AtiRows
<1> QED  BY <1>2, <1>3

LEMMA Mach64Room ==
  ASSUME NEW m \in Movies, NEW asked \in Asked PROVE Room(Mach64(m, asked), CardMemory)
<1> DEFINE x == AtiLine(m) * AtiRows(m) + 256
<1>1. x \in Nat /\ x >= 256
  BY AtiLines
<1>2. Mach64Size(m) \in Nat
  <2>1. ClearBit(x, 16) \in Nat
    <3> HIDE DEF x
    <3> QED  BY <1>1, SMT DEF ClearBit
  <2> QED  BY <2>1 DEF Mach64Size
<1> DEFINE size == Mach64Size(m)
           num == AtiNum(CardMemory, size, asked, 0)
<1>3. num \in Nat /\ size \in Nat /\ CardMemory \in Int
  BY <1>2, AtiNumInt, MemoryAssumption
<1>4. \A line, align, u, v :
        Room(Layout(AtiBase(CardMemory, size, num), num, size, line, align, u, v), CardMemory)
  BY <1>3, AtiRoom
<1> QED  BY <1>4 DEF Mach64

LEMMA RadeonRoom ==
  ASSUME NEW m \in Movies, NEW asked \in Asked PROVE Room(Radeon(m, asked), RadeonMemory)
<1>1. RadeonMemory \in Int
  BY MemoryAssumption, SMT DEF RadeonMemory, KB
<1>2. RadeonSize(m) \in Nat
  BY AtiLines, UpAbove DEF RadeonSize, KB
<1> DEFINE size == RadeonSize(m)
           num == AtiNum(RadeonMemory, size, asked, 1)
<1>3. num \in Nat /\ size \in Nat
  BY <1>2, AtiNumInt
<1>4. \A line, align, u, v :
        Room(Layout(AtiBase(RadeonMemory, size, num), num, size, line, align, u, v), RadeonMemory)
  BY <1>1, <1>3, AtiRoom
<1> QED  BY <1>4 DEF Radeon

LEMMA RadeonHdRoom ==
  ASSUME NEW m \in Movies, NEW asked \in Asked PROVE Room(RadeonHd(m, asked), CardMemory)
<1> DEFINE line == AlignTo(Bytes(m.fourcc) * m.w, 256)
           size == AlignTo(line * m.h, 4 * KB)
           num == AtiNum(CardMemory, size, asked, 1)
<1>1. line * m.h \in Nat
  BY MovieFacts, RowsPositive
<1>2. size \in Nat
  <2> HIDE DEF line
  <2> QED  BY <1>1, UpAbove DEF KB
<1>3. num \in Nat /\ CardMemory \in Int
  BY AtiNumInt, MemoryAssumption
<1>4. RadeonHd(m, asked) = Layout(AtiBase(CardMemory, size, num), num, size, line, 256, 0, 0)
  BY DEF RadeonHd
<1> HIDE DEF line, size, num
<1> QED  BY <1>2, <1>3, <1>4, AtiRoom

LEMMA MgaSize ==
  ASSUME NEW m \in Movies, NEW asked \in Asked, NEW told \in Nat
  PROVE  Mga(m, asked, told).size \in Nat
<1> DEFINE w == AlignTo(m.w, 2)
           luma == AlignTo(w, 32) * m.h
           line == IF m.fourcc \in Planar THEN AlignTo(w, 32) ELSE 2 * ClearBit(w + 8, 8)
<1>1. w \in Nat
  BY MovieFacts, UpAbove
<1>2. luma \in Nat /\ line \in Nat
  <2> HIDE DEF w
  <2>1. AlignTo(w, 32) \in Nat
    BY <1>1, UpAbove
  <2>2. ClearBit(w + 8, 8) \in Nat
    BY <1>1, SMT DEF ClearBit
  <2> QED  BY <2>1, <2>2, MovieFacts
<1>3. luma + luma \div 2 \in Nat /\ line * m.h \in Nat
  <2> HIDE DEF luma, line
  <2>1. luma \div 2 \in Nat
    BY <1>2, SMT
  <2> QED  BY <1>2, <2>1, MovieFacts
<1>4. Mga(m, asked, told).size \in {luma + luma \div 2, line * m.h}
  BY DEF Mga, Layout
<1> QED  BY <1>3, <1>4

LEMMA LargerOf ==
  ASSUME NEW a \in Int, NEW b \in Int
  PROVE  Max({a, b}) \in {a, b} /\ Max({a, b}) >= a
<1>1. \E x \in {a, b} : \A y \in {a, b} : x >= y
  BY SMT
<1> QED  BY <1>1 DEF Max

\* The Matrox driver: the place of one frame more than it reports is kept free.
LEMMA MgaRoom ==
  ASSUME NEW m \in Movies, NEW asked \in Asked, NEW told \in Nat,
         told >= Mga(m, asked, told).size
  PROVE  Room(Mga(m, asked, told), CardMemory)
<1> DEFINE base(n) == AlignDown(CardMemory \div 2 - (n + 1) * told, 64 * KB)
           most == IF asked \in 1..MGA_DEFAULT_FRAMES THEN asked ELSE MGA_DEFAULT_FRAMES
           inside == {n \in 1..most : base(n) >= 0}
           num == IF inside = {} THEN 0 ELSE Max(inside)
           size == Mga(m, asked, told).size
           k == Max({num, 1})
<1>1. most \in Nat
  BY BoundAssumption
<1>2. num \in Nat
  <2>1. inside \subseteq 1..most
    OBVIOUS
  <2> HIDE DEF inside, most
  <2>2. inside # {} => Max(inside) \in inside
    BY <1>1, <2>1, MaxMember
  <2>3. \A z \in 1..most : z \in Nat
    BY <1>1
  <2> QED  BY <2>1, <2>2, <2>3
<1>3. /\ Mga(m, asked, told).base = base(k) /\ Mga(m, asked, told).num = num
  BY DEF Mga, Layout
<1>4. size \in Nat /\ told >= size
  BY MgaSize
<1> HIDE DEF inside, most, num, size
<1>5. k \in Nat /\ k >= num
  <2>1. \A a, b \in Int : Max({a, b}) \in {a, b} /\ Max({a, b}) >= a
    BY LargerOf
  <2>2. k \in {num, 1} /\ k >= num
    BY <1>2, <2>1
  <2> HIDE DEF k
  <2> QED  BY <1>2, <2>2
<1> HIDE DEF k
<1> DEFINE half == CardMemory \div 2
           below == half - (k + 1) * told
<1>6. half \in Nat /\ half <= CardMemory /\ CardMemory \in Nat
  <2>1. CardMemory \in Nat
    BY MemoryAssumption
  <2> QED  BY <2>1, SMT
<1> HIDE DEF half
<1>7. (k + 1) * told \in Int /\ num * size \in Int /\ num * size <= (k + 1) * told
  <2>1. num * size <= num * told
    BY <1>2, <1>4, SMT
  <2>2. num * told <= (k + 1) * told
    BY <1>2, <1>5, ProductGrows
  <2>3. num * size \in Int /\ num * told \in Int /\ (k + 1) * told \in Int
    BY <1>2, <1>4, <1>5
  <2> DEFINE a == num * size
             b == num * told
             c == (k + 1) * told
  <2>4. a <= b /\ b <= c /\ a \in Int /\ b \in Int /\ c \in Int
    BY <2>1, <2>2, <2>3
  <2>5. a <= c
    <3> HIDE DEF a, b, c
    <3> QED  BY <2>4
  <2> QED  BY <2>3, <2>5
<1>8. base(k) \in Int /\ base(k) <= below
  <2>1. below \in Int
    BY <1>6, <1>7
  <2>2. 64 * KB \in Nat \ {0}
    BY DEF KB
  <2>3. base(k) = AlignDown(below, 64 * KB)
    BY DEF half
  <2> HIDE DEF below, base
  <2> QED  BY <2>1, <2>2, <2>3, DownBelow
<1>9. base(k) + num * size <= CardMemory
  <2> DEFINE a == num * size
             c == (k + 1) * told
             x == base(k)
  <2>1. a \in Int /\ c \in Int /\ a <= c /\ x \in Int /\ x <= half - c
    BY <1>7, <1>8
  <2>2. x + a <= CardMemory
    <3> HIDE DEF a, c, x
    <3> QED  BY <1>6, <2>1
  <2> QED  BY <2>2
<1> HIDE DEF base
<1> QED  BY <1>2, <1>3, <1>4, <1>8, <1>9 DEF Room, size

\* A driver that takes a movie lays its frames out inside what it mapped; the Matrox
\* driver if what it is told is no less than a frame.
LEMMA LayoutRoom ==
  ASSUME NEW d \in Drivers, NEW m \in Movies, NEW asked \in Asked, NEW told \in Nat,
         Accepts(d, m, asked), d = "mga" => told >= LayoutOf(d, m, asked, told).size
  PROVE  Room(LayoutOf(d, m, asked, told), Mapped(d, LayoutOf(d, m, asked, told)))
<1> DEFINE p == LayoutOf(d, m, asked, told)
<1>1. d \in AllDrivers
  BY DriverAssumption
<1>2. CASE d = "cyberblade"
  <2>1. p = Cyberblade(m) /\ Mapped(d, p) = 8 * MB
    BY <1>2 DEF LayoutOf, Mapped
  <2> QED  BY <2>1, CyberbladeRoom
<1>3. CASE d = "pm2"
  <2>1. p = Pm2(m) /\ Mapped(d, p) = 8 * MB
    BY <1>3 DEF LayoutOf, Mapped
  <2>2. \E x \in PpWidths : x >= m.w
    BY <1>3 DEF Accepts
  <2> QED  BY <2>1, <2>2, Pm2Room
<1>4. CASE d = "pm3"
  <2>1. p = Pm3(m, asked) /\ Mapped(d, p) = 32 * MB
    BY <1>4 DEF LayoutOf, Mapped
  <2> QED  BY <2>1, Pm3Room
<1>5. CASE d = "sis"
  <2>1. p = Sis(m) /\ Mapped(d, p) = 16 * MB
    BY <1>5 DEF LayoutOf, Mapped
  <2> QED  BY <2>1, SisRoom
<1>6. CASE d = "unichrome"
  <2>1. p = Unichrome(m) /\ Mapped(d, p) = 8 * MB
    BY <1>6 DEF LayoutOf, Mapped
  <2> QED  BY <2>1, UnichromeRoom
<1>7. CASE d = "savage"
  <2>1. p = Savage(m) /\ Mapped(d, p) = CardMemory
    BY <1>7 DEF LayoutOf, Mapped
  <2>2. ScreenMemory + Savage(m).size <= CardMemory
    BY <1>7 DEF Accepts
  <2> QED  BY <2>1, <2>2, SavageRoom
<1>8. CASE d = "s3"
  <2>1. p = S3(m) /\ Mapped(d, p) = CardMemory
    BY <1>8 DEF LayoutOf, Mapped
  <2>2. ScreenMemory + S3(m).size <= CardMemory
    BY <1>8 DEF Accepts
  <2> QED  BY <2>1, <2>2, S3Room
<1>9. CASE d = "nvidia"
  <2>1. p = Nvidia(m) /\ Mapped(d, p) = CardMemory
    BY <1>9 DEF LayoutOf, Mapped
  <2> QED  BY <2>1, NvidiaRoom
<1>10. CASE d = "ivtv"
  <2>1. p = Ivtv(m) /\ Mapped(d, p) = p.num * p.size
    BY <1>10 DEF LayoutOf, Mapped
  <2> QED  BY <2>1, IvtvRoom
<1>11. CASE d = "mach64"
  <2>1. p = Mach64(m, asked) /\ Mapped(d, p) = CardMemory
    BY <1>11 DEF LayoutOf, Mapped
  <2> QED  BY <2>1, Mach64Room
<1>12. CASE d = "radeon"
  <2>1. p = Radeon(m, asked) /\ Mapped(d, p) = RadeonMemory
    BY <1>12 DEF LayoutOf, Mapped
  <2> QED  BY <2>1, RadeonRoom
<1>13. CASE d = "radeonhd"
  <2>1. p = RadeonHd(m, asked) /\ Mapped(d, p) = CardMemory
    BY <1>13 DEF LayoutOf, Mapped
  <2> QED  BY <2>1, RadeonHdRoom
<1>14. CASE d = "mga"
  <2>1. p = Mga(m, asked, told) /\ Mapped(d, p) = CardMemory
    BY <1>14 DEF LayoutOf, Mapped
  <2>2. told >= Mga(m, asked, told).size
    BY <1>14, <2>1
  <2> QED  BY <2>1, <2>2, MgaRoom
<1> QED
  BY <1>1, <1>2, <1>3, <1>4, <1>5, <1>6, <1>7, <1>8, <1>9, <1>10, <1>11, <1>12, <1>13, <1>14
  DEF AllDrivers, Ati

\* Every movie that is taken has a size to pass on, whether or not it fits.
LEMMA SizeIsNat ==
  ASSUME NEW d \in Drivers, NEW m \in Movies, NEW asked \in Asked, NEW told \in Nat,
         Accepts(d, m, asked)
  PROVE  LayoutOf(d, m, asked, told).size \in Nat
<1>1. CASE d = "mga"
  BY <1>1, MgaSize DEF LayoutOf
<1>2. CASE d # "mga"
  <2>1. Room(LayoutOf(d, m, asked, told), Mapped(d, LayoutOf(d, m, asked, told)))
    BY <1>2, LayoutRoom
  <2> QED  BY <2>1 DEF Room
<1> QED  BY <1>1, <1>2

-----------------------------------------------------------------------------
(***************************************************************************)
(* A frame as the program writes it: lines of the movie rounded up to the  *)
(* alignment that is reported, one plane after another. All drivers but    *)
(* the coarse ones lay out theirs the same way.                            *)
(***************************************************************************)

\* A multiple of a, no less than x and less than a above it, is x rounded up.
LEMMA UpIs ==
  ASSUME NEW x \in Nat, NEW y \in Nat, NEW a \in Nat \ {0},
         y % a = 0, x <= y, y < x + a
  PROVE  AlignTo(x, a) = y
<1> DEFINE q == (x + a - 1) \div a
           k == y \div a
<1>1. k \in Int /\ y = k * a
  BY SMT
<1>2. q \in Int /\ q * a <= x + a - 1 /\ x + a - 1 < q * a + a
  BY SMT
<1> HIDE DEF q, k
<1>3. k = q
  <2>1. (k + 1) * a = k * a + a /\ (q + 1) * a = q * a + a
    BY <1>1, <1>2, SMT
  <2>2. CASE k < q
    <3>1. (k + 1) * a <= q * a
      BY <1>1, <1>2, <2>2, SMT
    <3> QED  BY <1>1, <1>2, <2>1, <3>1, SMT
  <2>3. CASE k > q
    <3>1. (q + 1) * a <= k * a
      BY <1>1, <1>2, <2>3, SMT
    <3> QED  BY <1>1, <1>2, <2>1, <3>1, SMT
  <2> QED  BY <1>1, <1>2, <2>2, <2>3, SMT
<1> QED  BY <1>1, <1>3 DEF AlignTo, q

LEMMA UpMultiple ==
  ASSUME NEW x \in Nat, NEW a \in Nat \ {0}
  PROVE  \E k \in Nat : AlignTo(x, a) = a * k
<1>1. (x + a - 1) \div a \in Nat
  BY SMT
<1>2. ((x + a - 1) \div a) * a = a * ((x + a - 1) \div a)
  BY <1>1, SMT
<1> QED  BY <1>1, <1>2 DEF AlignTo

\* A chroma plane, written out: the line and the lines of a plane divide by s.
LEMMA PlaneOf ==
  ASSUME NEW l \in Nat, NEW h \in Nat, NEW s \in {2, 4}, l % s = 0, h % s = 0
  PROVE  /\ (l \div s) * (h \div s) \in Nat
         /\ (l * h) \div (s * s) = (l \div s) * (h \div s)
         /\ l * h = s * s * ((l \div s) * (h \div s))
<1> DEFINE a == l \div s
           b == h \div s
           c == a * b
<1>1. a \in Nat /\ b \in Nat /\ l = s * a /\ h = s * b
  BY SMT
<1> HIDE DEF a, b
<1>2. c \in Nat
  BY <1>1
<1>3. CASE s = 2
  <2>1. l * h = 4 * c
    BY <1>1, <1>3, SMT
  <2> HIDE DEF c
  <2>2. (4 * c) \div 4 = c
    BY <1>2, SMT
  <2> QED  BY <1>2, <1>3, <2>1, <2>2 DEF a, b, c
<1>4. CASE s = 4
  <2>1. l * h = 16 * c
    BY <1>1, <1>4, SMT
  <2> HIDE DEF c
  <2>2. (16 * c) \div 16 = c
    BY <1>2, SMT
  <2> QED  BY <1>2, <1>4, <2>1, <2>2 DEF a, b, c
<1> QED  BY <1>3, <1>4

\* A plane of chroma as the program writes it.
ChromaPlane(p, m) == (p.line \div Sub(m.fourcc)) * (m.h \div Sub(m.fourcc))

\* The program and a layout agree on the length of a line, and what the program writes
\* of each plane is inside the frame and outside the other planes.
Holds(p, m) ==
  LET luma == p.line * m.h
      c    == ChromaPlane(p, m)
  IN  /\ AlignTo(Bytes(m.fourcc) * m.w, p.align) = p.line
      /\ luma \in Nat /\ p.size \in Nat /\ p.y = 0 /\ luma <= p.size
      /\ m.fourcc \in Planar =>
           /\ p.u \in Nat /\ p.v \in Nat /\ c \in Nat
           /\ luma <= p.u /\ luma <= p.v /\ p.u + c <= p.size /\ p.v + c <= p.size
           /\ p.u + c <= p.v \/ p.v + c <= p.u

\* A layout of a packed format, whose frames are lines and nothing else or more.
LEMMA PackedHolds ==
  ASSUME NEW m \in Movies, m.fourcc \notin Planar, NEW line \in Nat, NEW size \in Nat,
         NEW align, AlignTo(Bytes(m.fourcc) * m.w, align) = line, line * m.h <= size,
         NEW base, NEW num, NEW u, NEW v
  PROVE  Holds(Layout(base, num, size, line, align, u, v), m)
<1>1. line * m.h \in Nat
  BY MovieFacts
<1> QED  BY <1>1 DEF Holds, Layout

\* A layout of a planar format, one plane after the other.
LEMMA PlanarHolds ==
  ASSUME NEW m \in Movies, m.fourcc \in Planar, NEW line \in Nat, NEW size \in Nat,
         NEW align, AlignTo(Bytes(m.fourcc) * m.w, align) = line,
         NEW luma \in Nat, luma = line * m.h,
         NEW c \in Nat, c = (line \div Sub(m.fourcc)) * (m.h \div Sub(m.fourcc)),
         luma + 2 * c <= size,
         NEW base, NEW num, NEW u, NEW v,
         (v = luma /\ u = luma + c) \/ (u = luma /\ v = luma + c)
  PROVE  Holds(Layout(base, num, size, line, align, u, v), m)
<1> DEFINE p == Layout(base, num, size, line, align, u, v)
<1>1. /\ p.line = line /\ p.align = align /\ p.size = size /\ p.y = 0 /\ p.u = u /\ p.v = v
      /\ ChromaPlane(p, m) = c
  BY DEF Layout, ChromaPlane
<1>2. /\ luma <= size /\ u \in Nat /\ v \in Nat /\ luma <= u /\ luma <= v
      /\ u + c <= size /\ v + c <= size /\ (u + c <= v \/ v + c <= u)
  BY ONLY luma \in Nat, c \in Nat, size \in Nat, luma + 2 * c <= size,
          (v = luma /\ u = luma + c) \/ (u = luma /\ v = luma + c)
<1> HIDE DEF p
<1>3. p.line * m.h = luma
  BY <1>1
<1>4. Holds(p, m)
  BY <1>1, <1>2, <1>3 DEF Holds
<1> QED  BY <1>4 DEF p

\* Lines rounded up to a power of two divide as chroma planes do.
LEMMA PlanarLine ==
  ASSUME NEW m \in Movies, m.fourcc \in Planar, NEW a \in {16, 32, 64, 128, 256}
  PROVE  LET line == AlignTo(Bytes(m.fourcc) * m.w, a)
             s    == Sub(m.fourcc)
         IN  /\ line = AlignTo(m.w, a) /\ line \in Nat /\ line % a = 0 /\ line % s = 0
             /\ m.w % s = 0 /\ m.h % s = 0 /\ s \in {2, 4}
             /\ Bytes(m.fourcc) * m.w = m.w
<1>1. Bytes(m.fourcc) = 1 /\ Sub(m.fourcc) \in {2, 4}
  BY DEF Bytes, Sub
<1>2. m.w \in Nat /\ m.w % Sub(m.fourcc) = 0 /\ m.h % Sub(m.fourcc) = 0
  BY MovieAssumption
<1>3. 1 * m.w = m.w
  BY <1>2
<1> DEFINE line == AlignTo(m.w, a)
<1>4. a \in Nat \ {0}
  OBVIOUS
<1>5. line \in Nat
  BY <1>2, <1>4, UpAbove
<1>6. PICK k \in Nat : line = a * k
  BY <1>2, <1>4, UpMultiple
<1> HIDE DEF line
<1>7. line % a = 0 /\ line % 4 = 0 /\ line % 2 = 0
  <2>1. CASE a = 16 BY <2>1, <1>6, SMT
  <2>2. CASE a = 32 BY <2>2, <1>6, SMT
  <2>3. CASE a = 64 BY <2>3, <1>6, SMT
  <2>4. CASE a = 128 BY <2>4, <1>6, SMT
  <2>5. CASE a = 256 BY <2>5, <1>6, SMT
  <2> QED  BY <2>1, <2>2, <2>3, <2>4, <2>5
<1> QED  BY <1>1, <1>2, <1>3, <1>5, <1>7 DEF line

LEMMA CyberbladeHolds ==
  ASSUME NEW m \in Movies PROVE Holds(Cyberblade(m), m)
<1> DEFINE line == AlignTo(Bytes(m.fourcc) * m.w, 16)
           s == Sub(m.fourcc)
           chroma == IF m.fourcc \in Planar THEN ChromaLine(m.w, s) * (m.h \div s) ELSE 0
           luma == line * m.h
           v == IF m.fourcc \in Planar THEN line * m.h ELSE 0
           size == line * m.h + 2 * chroma
<1>1. line \in Nat /\ luma \in Nat
  BY MovieFacts, RowsPositive
<1>2. Cyberblade(m) = Layout(6 * MB, Fit(2 * MB, size), size, line, 16, v + chroma, v)
  BY DEF Cyberblade
<1>3. CASE m.fourcc \notin Planar
  <2>1. size = luma
    <3>1. chroma = 0
      BY <1>3
    <3> HIDE DEF chroma, line
    <3> QED  BY <1>1, <3>1
  <2>2. luma <= size /\ size \in Nat
    <3> HIDE DEF size, luma
    <3> QED  BY <1>1, <2>1
  <2> HIDE DEF size, v, chroma
  <2> QED  BY <1>1, <1>2, <1>3, <2>2, PackedHolds
<1>4. CASE m.fourcc \in Planar
  <2>1. /\ line = AlignTo(m.w, 16) /\ line % 16 = 0 /\ m.w % s = 0 /\ m.h % s = 0
        /\ line % s = 0 /\ s \in {2, 4} /\ m.w \in Nat /\ m.h \in Nat
    BY <1>4, PlanarLine, MovieFacts
  <2>2. ChromaLine(m.w, s) = line \div s
    <3>1. line >= m.w /\ line < m.w + 16
      BY <2>1, SMT DEF AlignTo
    <3> DEFINE x == m.w \div s
               y == line \div s
    <3> HIDE DEF line, s
    <3>2. CASE s = 2
      <4>1. x \in Nat /\ y \in Nat /\ y % 8 = 0 /\ x <= y /\ y < x + 8
        BY <1>1, <2>1, <3>1, <3>2, SMT
      <4> HIDE DEF x, y
      <4>2. AlignTo(x, 8) = y
        BY <4>1, UpIs
      <4> QED  BY <3>2, <4>2 DEF ChromaLine, x, y
    <3>3. CASE s = 4
      <4>1. x \in Nat /\ y \in Nat /\ y % 4 = 0 /\ x <= y /\ y < x + 4
        BY <1>1, <2>1, <3>1, <3>3, SMT
      <4> HIDE DEF x, y
      <4>2. AlignTo(x, 4) = y
        BY <4>1, UpIs
      <4> QED  BY <3>3, <4>2 DEF ChromaLine, x, y
    <3> QED  BY <2>1, <3>2, <3>3
  <2>3. chroma \in Nat /\ chroma = (line \div s) * (m.h \div s)
    <3>1. chroma = (line \div s) * (m.h \div s)
      BY <1>4, <2>2
    <3>2. (line \div s) * (m.h \div s) \in Nat
      <4> HIDE DEF line, s
      <4> QED  BY <1>1, <2>1, PlaneOf
    <3> QED  BY <3>1, <3>2
  <2>4. v = luma
    BY <1>4
  <2> HIDE DEF chroma
  <2>5. size \in Nat /\ luma + 2 * chroma <= size
    <3>1. size = luma + 2 * chroma
      OBVIOUS
    <3> HIDE DEF size, luma
    <3> QED  BY <1>1, <2>3, <3>1
  <2> DEFINE u == v + chroma
  <2>6. v = luma /\ u = luma + chroma
    BY <2>4
  <2>7. luma = line * m.h /\ chroma = (line \div Sub(m.fourcc)) * (m.h \div Sub(m.fourcc))
    BY <2>3
  <2>8. AlignTo(Bytes(m.fourcc) * m.w, 16) = line
    OBVIOUS
  <2>9. Cyberblade(m) = Layout(6 * MB, Fit(2 * MB, size), size, line, 16, u, v)
    BY <1>2
  <2> HIDE DEF size, luma, v, u, line, s
  <2> QED  BY <1>1, <1>4, <2>3, <2>5, <2>6, <2>7, <2>8, <2>9, PlanarHolds
<1> QED  BY <1>3, <1>4

\* The strides of the texture unit are multiples of their distance from the one before.
LEMMA Strides ==
  ASSUME NEW x \in PpWidths \ {0}
  PROVE  /\ PpBelow(x) \in PpWidths /\ PpBelow(x) < x
         /\ \A t \in PpWidths : t < x => t <= PpBelow(x)
         /\ x - PpBelow(x) \in {32, 64, 128, 256}
         /\ x % (x - PpBelow(x)) = 0
<1> DEFINE Under(z) == z \in PpWidths /\ z < x /\ \A t \in PpWidths : t < x => t <= z
           Steps(z) == x - z \in {32, 64, 128, 256} /\ x % (x - z) = 0
<1>1. \E z \in PpWidths : Under(z) /\ Steps(z)
  <2>1. CASE x \in {32, 64, 96, 128, 160, 192, 224, 256}
    BY <2>1, SMT DEF PpWidths
  <2>2. CASE x \in {288, 320, 384, 416, 448, 512, 544, 576}
    BY <2>2, SMT DEF PpWidths
  <2>3. CASE x \in {640, 768, 800, 832, 896, 1024, 1056, 1088}
    BY <2>3, SMT DEF PpWidths
  <2>4. CASE x \in {1152, 1280, 1536, 1568, 1600, 1664, 1792, 2048}
    BY <2>4, SMT DEF PpWidths
  <2> QED  BY <2>1, <2>2, <2>3, <2>4 DEF PpWidths
<1>2. PICK z \in PpWidths : Under(z) /\ Steps(z)
  BY <1>1
<1>3. \A y \in PpWidths : Under(y) => y = z
  <2> \A y \in PpWidths : y \in Int
    BY DEF PpWidths
  <2> QED  BY <1>2
<1>4. Under(PpBelow(x))
  BY <1>2 DEF PpBelow
<1> QED  BY <1>2, <1>3, <1>4

LEMMA Pm2Holds ==
  ASSUME NEW m \in Movies, m.fourcc = "YUY2", \E x \in PpWidths : x >= m.w
  PROVE  Holds(Pm2(m), m)
<1> DEFINE stride == PpStride(m.w)
           below == PpBelow(stride)
           size == stride * m.h * 2
           align == 2 * (stride - below)
<1>1. stride \in PpWidths /\ stride >= m.w /\ \A z \in PpWidths : z >= m.w => stride <= z
  <2>1. \E x \in PpWidths : x >= m.w /\ \A z \in PpWidths : z >= m.w => x <= z
    <3> DEFINE S == {x \in PpWidths : x >= m.w}
    <3>1. S \subseteq Nat /\ S # {}
      BY DEF PpWidths
    <3> HIDE DEF S
    <3>2. \E x \in S : \A z \in S : x <= z
      BY <3>1, LeastMember
    <3> QED  BY <3>2 DEF S
  <2> QED  BY <2>1 DEF PpStride
<1>2. m.w \in Nat \ {0} /\ m.h \in Nat \ {0}
  BY MovieFacts
<1>3. \A x \in PpWidths : x \in Nat
  BY DEF PpWidths
<1>4. stride \in PpWidths \ {0}
  BY <1>1, <1>2, <1>3
<1> HIDE DEF stride
<1>5. /\ below \in PpWidths /\ below < stride
      /\ stride - below \in {32, 64, 128, 256} /\ stride % (stride - below) = 0
  BY <1>4, Strides
<1> HIDE DEF below
<1>6. below < m.w
  BY <1>1, <1>2, <1>3, <1>5, SMT
<1>7. AlignTo(2 * m.w, align) = 2 * stride
  <2>1. stride \in Nat /\ below \in Nat
    BY <1>3, <1>4, <1>5
  <2>2. 2 * m.w \in Nat /\ 2 * stride \in Nat /\ align \in Nat \ {0}
    BY <1>2, <1>5, <2>1, SMT
  <2>3. 2 * m.w <= 2 * stride /\ 2 * stride < 2 * m.w + align
    BY <1>1, <1>2, <1>6, <2>1, SMT
  <2>4. (2 * stride) % align = 0
    <3> DEFINE step == stride - below
    <3>1. step \in {32, 64, 128, 256} /\ stride % step = 0 /\ align = 2 * step
      BY <1>5
    <3> HIDE DEF step, align
    <3>2. CASE step = 32  BY <2>1, <3>1, <3>2, SMT
    <3>3. CASE step = 64  BY <2>1, <3>1, <3>3, SMT
    <3>4. CASE step = 128 BY <2>1, <3>1, <3>4, SMT
    <3>5. CASE step = 256 BY <2>1, <3>1, <3>5, SMT
    <3> QED  BY <3>1, <3>2, <3>3, <3>4, <3>5
  <2> HIDE DEF align
  <2> QED  BY <2>2, <2>3, <2>4, UpIs
<1>8. Bytes(m.fourcc) * m.w = 2 * m.w /\ m.fourcc \notin Planar
  BY DEF Bytes, Planar
<1>9. 2 * stride \in Nat /\ size \in Nat /\ 2 * stride * m.h <= size
  <2>1. stride \in Nat
    BY <1>3, <1>4
  <2> QED  BY <1>2, <2>1, SMT
<1>10. Pm2(m) = Layout(2 * MB, Fit(6 * MB, size), size, 2 * stride, align, 0, 0)
  BY DEF Pm2, stride, below
<1> HIDE DEF align, size
<1> QED  BY <1>7, <1>8, <1>9, <1>10, PackedHolds

LEMMA Pm3Holds ==
  ASSUME NEW m \in Movies, m.fourcc \in {"YUY2", "UYVY"}, NEW asked
  PROVE  Holds(Pm3(m, asked), m)
<1> DEFINE size == m.w * m.h * 2
           num == Min({asked, Fit(24 * MB, size)})
<1>1. m.w \in Nat \ {0} /\ m.h \in Nat \ {0}
  BY MovieFacts
<1>2. Bytes(m.fourcc) * m.w = 2 * m.w /\ m.fourcc \notin Planar
  BY DEF Bytes, Planar
<1>3. 2 * m.w \in Nat /\ size \in Nat /\ 2 * m.w * m.h <= size
  BY <1>1, SMT
<1>4. AlignTo(2 * m.w, 2) = 2 * m.w
  BY <1>1, SMT DEF AlignTo
<1>5. Pm3(m, asked) = Layout(32 * MB - num * size, num, size, 2 * m.w, 2, 0, 0)
  BY DEF Pm3
<1> HIDE DEF size, num
<1> QED  BY <1>2, <1>3, <1>4, <1>5, PackedHolds

LEMMA UnichromeHolds ==
  ASSUME NEW m \in Movies, m.fourcc \in {"YV12", "I420", "YUY2", "BGR16", "BGR32"}
  PROVE  Holds(Unichrome(m), m)
<1> DEFINE planar == m.fourcc \in {"YV12", "I420", "UYVY"}
           line == AlignTo((IF planar THEN 1 ELSE Bytes(m.fourcc)) * m.w, 32)
           chroma == IF planar THEN (line \div 2) * (m.h \div 2) ELSE 0
           luma == line * m.h
           size == line * m.h + 2 * chroma
           u == line * m.h + chroma
<1>1. line = AlignTo(Bytes(m.fourcc) * m.w, 32)
  BY DEF Bytes, Planar
<1>2. line \in Nat /\ luma \in Nat
  <2> DEFINE l == AlignTo(Bytes(m.fourcc) * m.w, 32)
  <2>1. l \in Nat /\ l * m.h \in Nat
    BY MovieFacts, RowsPositive
  <2> QED  BY <1>1, <2>1
<1>3. Unichrome(m) = Layout(6 * MB, Fit(2 * MB, size), size, line, 32, u, luma)
  BY DEF Unichrome
<1>4. CASE ~planar
  <2>1. m.fourcc \notin Planar
    BY <1>4 DEF Planar
  <2>2. luma <= size /\ size \in Nat
    <3>1. chroma = 0 /\ size = luma + 2 * chroma
      BY <1>4
    <3> HIDE DEF size, luma, chroma
    <3> QED  BY <1>2, <3>1
  <2> HIDE DEF size, u, line, luma
  <2>3. line * m.h <= size
    BY <2>2 DEF luma
  <2> QED  BY <1>1, <1>2, <1>3, <2>1, <2>2, <2>3, PackedHolds
<1>5. CASE planar
  <2>1. m.fourcc \in Planar /\ Sub(m.fourcc) = 2
    BY <1>5 DEF Planar, Sub
  <2>2. line % 2 = 0 /\ m.h % 2 = 0 /\ m.h \in Nat
    BY <1>1, <2>1, PlanarLine, MovieFacts
  <2>3. chroma \in Nat /\ chroma = (line \div Sub(m.fourcc)) * (m.h \div Sub(m.fourcc))
    <3>1. (line \div 2) * (m.h \div 2) \in Nat
      <4> HIDE DEF line
      <4> QED  BY <1>2, <2>2, PlaneOf
    <3>2. chroma = (line \div 2) * (m.h \div 2)
      BY <1>5
    <3> HIDE DEF line, chroma
    <3> QED  BY <2>1, <3>1, <3>2
  <2> HIDE DEF chroma
  <2>4. size = luma + 2 * chroma /\ u = luma + chroma /\ luma = line * m.h
    OBVIOUS
  <2> HIDE DEF size, u, luma, line
  <2>5. size \in Nat /\ luma + 2 * chroma <= size
    BY <1>2, <2>3, <2>4
  <2> QED  BY <1>1, <1>2, <1>3, <2>1, <2>3, <2>4, <2>5, PlanarHolds
<1> QED  BY <1>4, <1>5

LEMMA NvidiaHolds ==
  ASSUME NEW m \in Movies, m.fourcc \in {"YUY2", "UYVY"}
  PROVE  Holds(Nvidia(m), m)
<1> DEFINE line == AlignTo(2 * m.w, 64)
           size == line * m.h
           num == Min({(CardMemory - NvBase) \div size, NvMaxFrames})
<1>1. Bytes(m.fourcc) * m.w = 2 * m.w /\ m.fourcc \notin Planar
  BY DEF Bytes, Planar
<1>2. line \in Nat /\ size \in Nat
  BY <1>1, MovieFacts, RowsPositive
<1>3. Nvidia(m) = Layout(NvBase, num, size, line, 64, 0, 0)
  BY DEF Nvidia
<1>4. line * m.h <= size
  BY <1>2
<1>5. AlignTo(Bytes(m.fourcc) * m.w, 64) = line
  BY <1>1
<1> HIDE DEF num, line, size
<1> QED  BY <1>1, <1>2, <1>3, <1>4, <1>5, PackedHolds

LEMMA IvtvHolds ==
  ASSUME NEW m \in Movies, m.fourcc = "YV12"
  PROVE  Holds(Ivtv(m), m)
<1> DEFINE luma == m.w * m.h
           c == (m.w \div 2) * (m.h \div 2)
           size == luma + luma \div 2
           v == luma + luma \div 4
<1>1. m.fourcc \in Planar /\ Sub(m.fourcc) = 2 /\ Bytes(m.fourcc) = 1
  BY DEF Planar, Sub, Bytes
<1>2. m.w \in Nat /\ m.h \in Nat /\ m.w % 2 = 0 /\ m.h % 2 = 0
  BY <1>1, MovieAssumption
<1>3. c \in Nat /\ luma = 4 * c
  <2>1. c \in Nat /\ luma = 2 * 2 * c
    BY <1>2, 2 \in {2, 4}, PlaneOf
  <2> HIDE DEF c, luma
  <2> QED  BY <2>1
<1>4. AlignTo(Bytes(m.fourcc) * m.w, 1) = m.w
  BY <1>1, <1>2, SMT DEF AlignTo
<1>5. c = (m.w \div Sub(m.fourcc)) * (m.h \div Sub(m.fourcc))
  BY <1>1
<1>6. Ivtv(m) = Layout(0, 2, size, m.w, 1, luma, v) /\ luma = m.w * m.h
  BY DEF Ivtv
<1> HIDE DEF c, luma
<1>7. luma \in Nat /\ size \in Nat /\ luma + 2 * c <= size /\ v = luma + c
  BY <1>3, SMT
<1> HIDE DEF size, v
<1> QED  BY <1>1, <1>2, <1>3, <1>4, <1>5, <1>6, <1>7, PlanarHolds

LEMMA RadeonHdHolds ==
  ASSUME NEW m \in Movies, m.fourcc \notin Planar, NEW asked
  PROVE  Holds(RadeonHd(m, asked), m)
<1> DEFINE line == AlignTo(Bytes(m.fourcc) * m.w, 256)
           size == AlignTo(line * m.h, 4 * KB)
           num == AtiNum(CardMemory, size, asked, 1)
<1>1. line \in Nat /\ line * m.h \in Nat
  BY MovieFacts, RowsPositive
<1>2. size \in Nat /\ line * m.h <= size
  <2> HIDE DEF line
  <2>1. 4 * KB \in Nat \ {0}
    BY DEF KB
  <2> QED  BY <1>1, <2>1, UpAbove
<1>3. RadeonHd(m, asked) = Layout(AtiBase(CardMemory, size, num), num, size, line, 256, 0, 0)
  BY DEF RadeonHd
<1>4. line = AlignTo(Bytes(m.fourcc) * m.w, 256)
  OBVIOUS
<1> HIDE DEF line, size, num
<1> QED  BY <1>1, <1>2, <1>3, <1>4, PackedHolds

\* What is a multiple of a, as a product and as a remainder.
LEMMA Multiple ==
  ASSUME NEW x \in Nat, NEW a \in {2, 4, 8, 16, 32, 64, 256}, x % a = 0
  PROVE  \E k \in Nat : x = a * k
<1>1. x \div a \in Nat /\ x = a * (x \div a)
  BY SMT
<1> QED  BY <1>1

LEMMA AtiLineFacts ==
  ASSUME NEW m \in Movies
  PROVE  /\ AtiPitch(m) \in {16, 32, 64, 128, 256}
         /\ m.fourcc \in Planar => AtiPitch(m) \in {32, 64, 128, 256}
         /\ m.fourcc = "YVU9" => AtiPitch(m) \in {64, 128, 256}
         /\ AtiLine(m) \in Nat /\ AtiLine(m) % 16 = 0
         /\ m.fourcc \in Planar => AtiLine(m) % 32 = 0
         /\ m.fourcc = "YVU9" => AtiLine(m) % 64 = 0
         /\ AlignTo(Bytes(m.fourcc) * m.w, AtiPitch(m)) = AtiLine(m)
<1> DEFINE p == AtiPitch(m)
<1>1. /\ p \in {16, 32, 64, 128, 256}
      /\ m.fourcc \in Planar => p \in {32, 64, 128, 256}
      /\ m.fourcc = "YVU9" => p \in {64, 128, 256}
  <2>1. m.pitch \in Nat /\ "YVU9" \in Planar
    BY MovieAssumption DEF Planar
  <2> QED  BY <2>1 DEF AtiPitch
<1>2. AtiLine(m) = AlignTo(Bytes(m.fourcc) * m.w, p)
  BY DEF AtiLine
<1> HIDE DEF p
<1>3. p \in Nat \ {0}
  BY <1>1
<1>4. AtiLine(m) \in Nat
  BY <1>2, <1>3, MovieFacts, UpAbove
<1>5. PICK k \in Nat : AtiLine(m) = p * k
  <2> DEFINE x == Bytes(m.fourcc) * m.w
  <2>1. x \in Nat
    BY MovieFacts
  <2> HIDE DEF x
  <2>2. \E k \in Nat : AlignTo(x, p) = p * k
    BY <1>3, <2>1, UpMultiple
  <2> QED  BY <1>2, <2>2 DEF x
<1>6. /\ p = 16 => AtiLine(m) % 16 = 0
      /\ p = 32 => AtiLine(m) % 16 = 0 /\ AtiLine(m) % 32 = 0
      /\ p \in {64, 128, 256} =>
           AtiLine(m) % 16 = 0 /\ AtiLine(m) % 32 = 0 /\ AtiLine(m) % 64 = 0
  BY <1>5, SMT
<1> QED  BY <1>1, <1>2, <1>4, <1>6 DEF p

\* The planes of the ATI drivers: chroma planes start at multiples of 16, and the lines
\* counted for a frame are those of its planes.
LEMMA AtiPlanes ==
  ASSUME NEW m \in Movies, m.fourcc \in Planar, NEW l, l = AtiLine(m),
         NEW s, s = Sub(m.fourcc)
  PROVE  LET luma == l * m.h
             c    == (l \div s) * (m.h \div s)
         IN  /\ luma \in Nat /\ luma % 16 = 0 /\ c \in Nat /\ c % 16 = 0
             /\ luma \div (s * s) = c
             /\ (m.fourcc = "YVU9" => m.h % 8 = 0) => l * AtiRows(m) = luma + 2 * c
<1> DEFINE h == m.h
           luma == l * h
           c    == (l \div s) * (h \div s)
<1>1. /\ h \in Nat /\ h % s = 0 /\ s \in {2, 4} /\ (s = 4 <=> m.fourcc = "YVU9")
  BY MovieAssumption DEF Sub
<1>2. l \in Nat /\ l % 32 = 0 /\ (s = 4 => l % 64 = 0)
  BY <1>1, AtiLineFacts
<1>3. AtiRows(m) = h + h \div (IF s = 4 THEN 8 ELSE 2)
  BY <1>1 DEF AtiRows
<1>4. (m.fourcc = "YVU9" => m.h % 8 = 0) <=> (s = 4 => h % 8 = 0)
  BY <1>1
<1> HIDE DEF h
<1>5. l % s = 0
  BY <1>1, <1>2, SMT
<1>6. c \in Nat /\ luma \div (s * s) = c /\ luma = s * s * c
  <2>1. /\ (l \div s) * (h \div s) \in Nat
        /\ (l * h) \div (s * s) = (l \div s) * (h \div s)
        /\ l * h = s * s * ((l \div s) * (h \div s))
    <3> l \in Nat /\ h \in Nat /\ s \in {2, 4} /\ l % s = 0 /\ h % s = 0
      BY <1>1, <1>2, <1>5
    <3> QED  BY PlaneOf
  <2> QED  BY <2>1, Zenon
<1>7. c % 16 = 0
  <2>1. CASE s = 2
    <3>1. PICK a \in Nat : l = 32 * a
      BY <1>2, Multiple
    <3>2. PICK b \in Nat : h = 2 * b
      BY <1>1, <2>1, Multiple
    <3>3. l \div s = 16 * a /\ h \div s = b
      BY <2>1, <3>1, <3>2, SMT
    <3>4. c = 16 * (a * b)
      BY <3>3, SMT
    <3> HIDE DEF c
    <3> QED  BY <3>4, SMT
  <2>2. CASE s = 4
    <3>1. PICK a \in Nat : l = 64 * a
      BY <1>2, <2>2, Multiple
    <3>2. PICK b \in Nat : h = 4 * b
      BY <1>1, <2>2, Multiple
    <3>3. l \div s = 16 * a /\ h \div s = b
      BY <2>2, <3>1, <3>2, SMT
    <3>4. c = 16 * (a * b)
      BY <3>3, SMT
    <3> HIDE DEF c
    <3> QED  BY <3>4, SMT
  <2> QED  BY <1>1, <2>1, <2>2
<1>8. luma \in Nat /\ luma % 16 = 0
  <2> HIDE DEF c, luma
  <2>1. CASE s = 2
    <3>1. luma = 4 * c
      BY <1>6, <2>1, SMT
    <3> QED  BY <1>6, <1>7, <3>1, SMT
  <2>2. CASE s = 4
    <3>1. luma = 16 * c
      BY <1>6, <2>2, SMT
    <3> QED  BY <1>6, <3>1, SMT
  <2> QED  BY <1>1, <2>1, <2>2
<1>9. ASSUME s = 4 => h % 8 = 0 PROVE l * AtiRows(m) = luma + 2 * c
  <2>1. CASE s = 2
    <3>1. PICK b \in Nat : h = 2 * b
      BY <1>1, <2>1, Multiple
    <3>2. AtiRows(m) = h + b
      BY <1>3, <2>1, <3>1, SMT
    <3>3. l * AtiRows(m) = luma + l * b /\ luma = 2 * (l * b)
      BY <1>2, <3>1, <3>2, SMT
    <3> DEFINE q == l * b
    <3>4. q \in Nat /\ l * AtiRows(m) = luma + q /\ luma = 2 * q
      BY <1>2, <3>3
    <3> HIDE DEF q, c, luma
    <3>5. luma = 4 * c
      BY <1>6, <2>1, SMT
    <3> QED  BY <1>6, <3>4, <3>5, SMT
  <2>2. CASE s = 4
    <3>1. PICK b \in Nat : h = 8 * b
      BY <1>1, <1>9, <2>2, Multiple
    <3>2. AtiRows(m) = h + b
      BY <1>3, <2>2, <3>1, SMT
    <3>3. l * AtiRows(m) = luma + l * b /\ luma = 8 * (l * b)
      BY <1>2, <3>1, <3>2, SMT
    <3> DEFINE q == l * b
    <3>4. q \in Nat /\ l * AtiRows(m) = luma + q /\ luma = 8 * q
      BY <1>2, <3>3
    <3> HIDE DEF q, c, luma
    <3>5. luma = 16 * c
      BY <1>6, <2>2, SMT
    <3> QED  BY <1>6, <3>4, <3>5, SMT
  <2> QED  BY <1>1, <2>1, <2>2
<1> QED  BY <1>4, <1>6, <1>7, <1>8, <1>9 DEF h

LEMMA ClearBelow ==
  ASSUME NEW x \in Nat, x >= 256
  PROVE  ClearBit(x, 16) \in Nat /\ ClearBit(x, 16) >= x - 16
  BY SMT DEF ClearBit

LEMMA Mach64Holds ==
  ASSUME NEW m \in Movies, NEW asked, m.fourcc = "YVU9" => m.h % 8 = 0
  PROVE  Holds(Mach64(m, asked), m)
<1> DEFINE line == AtiLine(m)
           luma == line * m.h
           s    == Sub(m.fourcc)
           far  == AlignTo(AlignTo(luma, 16) + luma \div (s * s), 16)
           size == Mach64Size(m)
           num  == AtiNum(CardMemory, size, asked, 0)
           base == AtiBase(CardMemory, size, num)
           u    == IF m.fourcc \in Planar THEN AlignTo(luma, 16) ELSE 0
           v    == IF m.fourcc \in Planar THEN far ELSE 0
<1>1. /\ line \in Nat /\ AlignTo(Bytes(m.fourcc) * m.w, AtiPitch(m)) = line
  BY AtiLineFacts
<1>2. Mach64(m, asked) = Layout(base, num, size, line, AtiPitch(m), u, v)
  BY DEF Mach64
<1>3. luma \in Nat
  BY <1>1, MovieFacts
<1>4. line * AtiRows(m) \in Nat /\ size = ClearBit(line * AtiRows(m) + 256, 16)
  BY AtiLines DEF Mach64Size
<1>5. size \in Nat /\ line * AtiRows(m) <= size
  <2> DEFINE x == line * AtiRows(m)
  <2>1. x \in Nat /\ size = ClearBit(x + 256, 16)
    BY <1>4
  <2> HIDE DEF x, size
  <2>2. size \in Nat /\ x <= size
    BY <2>1, ClearBelow
  <2> QED  BY <2>2 DEF x
<1> HIDE DEF base, num, size
<1>6. CASE m.fourcc \notin Planar
  <2>1. AtiRows(m) = m.h
    BY <1>6 DEF AtiRows
  <2>2. line * m.h <= size
    BY <1>5, <2>1
  <2> HIDE DEF u, v, line
  <2> QED  BY <1>1, <1>2, <1>5, <1>6, <2>2, PackedHolds
<1>7. CASE m.fourcc \in Planar
  <2> DEFINE c == (line \div s) * (m.h \div s)
  <2>1. /\ luma % 16 = 0 /\ c \in Nat /\ c % 16 = 0 /\ luma \div (s * s) = c
        /\ line * AtiRows(m) = luma + 2 * c
    BY <1>7, AtiPlanes
  <2>2. luma + 2 * c <= size /\ c = (line \div Sub(m.fourcc)) * (m.h \div Sub(m.fourcc))
    BY <1>5, <2>1
  <2>3. u = luma /\ v = luma + c
    <3>1. u = AlignTo(luma, 16) /\ v = AlignTo(AlignTo(luma, 16) + c, 16)
      BY <1>7, <2>1
    <3> HIDE DEF luma, c, u, v
    <3>2. AlignTo(luma, 16) = luma /\ (luma + c) % 16 = 0
      BY <1>3, <2>1, SMT DEF AlignTo
    <3>3. AlignTo(luma + c, 16) = luma + c
      BY <1>3, <2>1, <3>2, SMT DEF AlignTo
    <3> QED  BY <3>1, <3>2, <3>3
  <2>4. luma = line * m.h
    OBVIOUS
  <2> HIDE DEF u, v, c, luma, line
  <2> QED  BY <1>1, <1>2, <1>3, <1>5, <1>7, <2>1, <2>2, <2>3, <2>4, PlanarHolds
<1> QED  BY <1>6, <1>7

LEMMA RadeonHolds ==
  ASSUME NEW m \in Movies, NEW asked, m.fourcc = "YVU9" => m.h % 8 = 0
  PROVE  Holds(Radeon(m, asked), m)
<1> DEFINE line == AtiLine(m)
           luma == line * m.h
           s    == Sub(m.fourcc)
           far  == luma + luma \div (s * s)
           size == RadeonSize(m)
           num  == AtiNum(RadeonMemory, size, asked, 1)
           base == AtiBase(RadeonMemory, size, num)
           u    == IF m.fourcc \in Planar THEN AlignDown(far, 16) ELSE 0
           v    == IF m.fourcc \in Planar THEN AlignDown(luma, 16) ELSE 0
<1>1. /\ line \in Nat /\ AlignTo(Bytes(m.fourcc) * m.w, AtiPitch(m)) = line
  BY AtiLineFacts
<1>2. Radeon(m, asked) = Layout(base, num, size, line, AtiPitch(m), u, v)
  BY DEF Radeon
<1>3. luma \in Nat
  BY <1>1, MovieFacts
<1>4. line * AtiRows(m) \in Nat /\ size = AlignTo(line * AtiRows(m), 4 * KB)
  BY AtiLines DEF RadeonSize
<1>5. size \in Nat /\ line * AtiRows(m) <= size
  <2>1. 4 * KB \in Nat \ {0}
    BY DEF KB
  <2> HIDE DEF size
  <2> QED  BY <1>4, <2>1, UpAbove
<1> HIDE DEF base, num, size
<1>6. CASE m.fourcc \notin Planar
  <2>1. AtiRows(m) = m.h
    BY <1>6 DEF AtiRows
  <2>2. line * m.h <= size
    BY <1>5, <2>1
  <2> HIDE DEF u, v, line
  <2> QED  BY <1>1, <1>2, <1>5, <1>6, <2>2, PackedHolds
<1>7. CASE m.fourcc \in Planar
  <2> DEFINE c == (line \div s) * (m.h \div s)
  <2>1. /\ luma % 16 = 0 /\ c \in Nat /\ c % 16 = 0 /\ luma \div (s * s) = c
        /\ line * AtiRows(m) = luma + 2 * c
    BY <1>7, AtiPlanes
  <2>2. luma + 2 * c <= size /\ c = (line \div Sub(m.fourcc)) * (m.h \div Sub(m.fourcc))
    BY <1>5, <2>1
  <2>3. v = luma /\ u = luma + c
    <3>1. v = AlignDown(luma, 16) /\ u = AlignDown(luma + c, 16)
      BY <1>7, <2>1
    <3> HIDE DEF luma, c, u, v
    <3>2. (luma + c) % 16 = 0
      BY <1>3, <2>1, SMT
    <3> QED  BY <1>3, <2>1, <3>1, <3>2, SMT DEF AlignDown
  <2>4. luma = line * m.h
    OBVIOUS
  <2> HIDE DEF u, v, c, luma, line
  <2> QED  BY <1>1, <1>2, <1>3, <1>5, <1>7, <2>1, <2>2, <2>3, <2>4, PlanarHolds
<1> QED  BY <1>6, <1>7

LEMMA MgaHolds ==
  ASSUME NEW m \in Movies, m.fourcc \in {"YV12", "I420", "YUY2", "UYVY"},
         m.fourcc \in Packed => m.w % 16 = 0, NEW asked, NEW told
  PROVE  Holds(Mga(m, asked, told), m)
<1> DEFINE planar == m.fourcc \in Planar
           w      == AlignTo(m.w, 2)
           line   == IF planar THEN AlignTo(w, 32) ELSE 2 * ClearBit(w + 8, 8)
           luma   == AlignTo(w, 32) * m.h
           size   == IF planar THEN luma + luma \div 2 ELSE line * m.h
           align  == IF planar THEN 32 ELSE 16
           u      == luma + luma \div 4
<1>1. /\ m.w \in Nat \ {0} /\ m.h \in Nat \ {0} /\ m.w % 2 = 0
      /\ planar => Sub(m.fourcc) = 2 /\ m.h % 2 = 0
      /\ ~planar => m.w % 16 = 0 /\ Bytes(m.fourcc) * m.w = 2 * m.w
  <2>1. m.w \in Nat \ {0} /\ m.h \in Nat \ {0}
    BY MovieFacts
  <2>2. CASE planar
    <3>1. Sub(m.fourcc) = 2
      BY DEF Sub
    <3> QED  BY <2>1, <2>2, <3>1, MovieAssumption
  <2>3. CASE ~planar
    <3>1. m.w % 16 = 0 /\ Bytes(m.fourcc) * m.w = 2 * m.w
      BY <2>3 DEF Planar, Packed, Bytes
    <3> QED  BY <2>1, <2>3, <3>1, SMT
  <2> QED  BY <2>2, <2>3
<1>2. w = m.w
  BY <1>1, SMT DEF AlignTo
<1>3. PICK base, num : Mga(m, asked, told) = Layout(base, num, size, line, align, u, luma)
  BY DEF Mga
<1>4. CASE ~planar
  <2>1. line = 2 * m.w
    <3>1. ClearBit(m.w + 8, 8) = m.w
      BY <1>1, <1>4, SMT DEF ClearBit
    <3> HIDE DEF w
    <3> QED  BY <1>2, <1>4, <3>1
  <2>2. align = 16 /\ size = line * m.h
    BY <1>4
  <2>3. line \in Nat /\ line * m.h \in Nat
    <3> HIDE DEF line
    <3> QED  BY <1>1, <2>1
  <2>4. AlignTo(2 * m.w, 16) = 2 * m.w
    BY <1>1, <1>4, SMT DEF AlignTo
  <2>5. AlignTo(Bytes(m.fourcc) * m.w, align) = line /\ size \in Nat /\ line * m.h <= size
    <3> HIDE DEF line, size, align
    <3> QED  BY <1>1, <1>4, <2>1, <2>2, <2>3, <2>4
  <2> HIDE DEF line, size, align, u, luma
  <2> QED  BY <1>3, <1>4, <2>3, <2>5, PackedHolds
<1>5. CASE planar
  <2>1. /\ line = AlignTo(m.w, 32) /\ align = 32 /\ size = luma + luma \div 2
        /\ luma = line * m.h
    BY <1>2, <1>5
  <2>2. /\ AlignTo(Bytes(m.fourcc) * m.w, 32) = line /\ line \in Nat /\ line % 2 = 0
    BY <1>1, <1>5, <2>1, PlanarLine
  <2> DEFINE c == (line \div 2) * (m.h \div 2)
  <2> HIDE DEF line, luma, size
  <2>3. c \in Nat /\ luma = 4 * c
    <3>1. c \in Nat /\ line * m.h = 2 * 2 * c
      BY <1>1, <1>5, <2>2, 2 \in {2, 4}, PlaneOf
    <3> HIDE DEF c
    <3> QED  BY <2>1, <3>1
  <2>4. c = (line \div Sub(m.fourcc)) * (m.h \div Sub(m.fourcc))
    BY <1>1, <1>5
  <2> HIDE DEF c
  <2>5. luma \in Nat /\ size \in Nat /\ luma + 2 * c <= size /\ u = luma + c
    BY <2>1, <2>3, SMT
  <2> HIDE DEF u, align
  <2> QED  BY <1>3, <1>5, <2>1, <2>2, <2>3, <2>4, <2>5, PlanarHolds
<1> QED  BY <1>4, <1>5

\* What ProgramFits leaves out, of a movie that is configured.
CoarseOf(d, m) ==
  \/ d \in {"savage", "s3", "sis"}
  \/ d = "mga" /\ m.fourcc \in Packed /\ m.w % 16 # 0
  \/ d = "unichrome" /\ m.fourcc = "UYVY"
  \/ d \in Ati /\ m.fourcc = "YVU9" /\ m.h % 8 # 0

LEMMA LayoutHolds ==
  ASSUME NEW d \in Drivers, NEW m \in Movies, NEW asked, NEW told,
         m.fourcc \in Supported(d), Accepts(d, m, asked), ~CoarseOf(d, m)
  PROVE  Holds(LayoutOf(d, m, asked, told), m)
<1> DEFINE p == LayoutOf(d, m, asked, told)
<1>1. d \in AllDrivers
  BY DriverAssumption
<1>2. CASE d = "cyberblade"
  <2>1. p = Cyberblade(m)
    BY <1>2 DEF LayoutOf
  <2> QED  BY <2>1, CyberbladeHolds
<1>3. CASE d = "pm2"
  <2>1. p = Pm2(m) /\ Supported(d) = {"YUY2"}
    BY <1>3 DEF LayoutOf, Supported
  <2>2. \E x \in PpWidths : x >= m.w
    BY <1>3 DEF Accepts
  <2> QED  BY <2>1, <2>2, Pm2Holds
<1>4. CASE d = "pm3"
  <2>1. p = Pm3(m, asked) /\ Supported(d) = {"YUY2", "UYVY"}
    BY <1>4 DEF LayoutOf, Supported
  <2> QED  BY <2>1, Pm3Holds
<1>5. CASE d = "unichrome"
  <2>1. p = Unichrome(m) /\ Supported(d) = {"YV12", "I420", "UYVY", "YUY2", "BGR16", "BGR32"}
    BY <1>5 DEF LayoutOf, Supported
  <2>2. m.fourcc \in {"YV12", "I420", "YUY2", "BGR16", "BGR32"}
    BY <1>5, <2>1 DEF CoarseOf
  <2> QED  BY <2>1, <2>2, UnichromeHolds
<1>6. CASE d = "nvidia"
  <2>1. p = Nvidia(m) /\ Supported(d) = {"YUY2", "UYVY"}
    BY <1>6 DEF LayoutOf, Supported
  <2> QED  BY <2>1, NvidiaHolds
<1>7. CASE d = "ivtv"
  <2>1. p = Ivtv(m) /\ Supported(d) = {"YV12"}
    BY <1>7 DEF LayoutOf, Supported
  <2> QED  BY <2>1, IvtvHolds
<1>8. CASE d = "mach64"
  <2>1. p = Mach64(m, asked)
    BY <1>8 DEF LayoutOf
  <2> QED  BY <1>8, <2>1, Mach64Holds DEF CoarseOf, Ati
<1>9. CASE d = "radeon"
  <2>1. p = Radeon(m, asked)
    BY <1>9 DEF LayoutOf
  <2> QED  BY <1>9, <2>1, RadeonHolds DEF CoarseOf, Ati
<1>10. CASE d = "radeonhd"
  <2>1. p = RadeonHd(m, asked) /\ Supported(d) = {"BGR16", "BGR32"}
    BY <1>10 DEF LayoutOf, Supported
  <2>2. m.fourcc \notin Planar
    BY <2>1 DEF Planar
  <2> QED  BY <2>1, <2>2, RadeonHdHolds
<1>11. CASE d = "mga"
  <2>1. p = Mga(m, asked, told) /\ Supported(d) = {"YV12", "I420", "YUY2", "UYVY"}
    BY <1>11 DEF LayoutOf, Supported
  <2>2. m.fourcc \in Packed => m.w % 16 = 0
    BY <1>11 DEF CoarseOf
  <2> QED  BY <2>1, <2>2, MgaHolds
<1> QED
  BY <1>1, <1>2, <1>3, <1>4, <1>5, <1>6, <1>7, <1>8, <1>9, <1>10, <1>11
  DEF AllDrivers, Ati, CoarseOf

\* What holds of a layout is what ProgramFits says of vidix_playback_t.
LEMMA HoldsFits ==
  ASSUME play' # None /\ ~Coarse' => Holds(play', play'.movie)
  PROVE  ProgramFits'
<1> SUFFICES ASSUME play' # None, ~Coarse' PROVE LineAgrees' /\ PlanesFit'
  BY DEF ProgramFits, LineAgrees, PlanesFit
<1> DEFINE p == play'
           m == play'.movie
           luma == p.line * m.h
           c == ChromaPlane(p, m)
<1>1. Holds(p, m)
  OBVIOUS
<1>2. /\ AlignTo(Bytes(m.fourcc) * m.w, p.align) = p.line
      /\ luma \in Nat /\ p.size \in Nat /\ p.y = 0 /\ luma <= p.size
      /\ m.fourcc \in Planar =>
           /\ p.u \in Nat /\ p.v \in Nat /\ c \in Nat
           /\ luma <= p.u /\ luma <= p.v /\ p.u + c <= p.size /\ p.v + c <= p.size
           /\ p.u + c <= p.v \/ p.v + c <= p.u
  BY <1>1 DEF Holds
<1>3. ProgramLine' = p.line
  BY <1>2 DEF ProgramLine
<1>4. LineAgrees'
  BY <1>3 DEF LineAgrees
<1> DEFINE first  == [at |-> 0, size |-> luma]
           second == [at |-> p.u, size |-> c]
           third  == [at |-> p.v, size |-> c]
<1>5. ProgramPlanes' = {first} \cup (IF m.fourcc \in Planar THEN {second, third} ELSE {})
  BY <1>2, <1>3 DEF ProgramPlanes, ChromaPlane
<1> HIDE DEF luma, c
<1>6. ASSUME NEW a \in ProgramPlanes' PROVE a.at + a.size <= p.size
  BY <1>2, <1>5, <1>6
<1>7. ASSUME NEW a \in ProgramPlanes', NEW b \in ProgramPlanes', a # b
      PROVE  a.at + a.size <= b.at \/ b.at + b.size <= a.at
  BY <1>2, <1>5, <1>7
<1>8. PlanesFit'
  BY <1>6, <1>7 DEF PlanesFit
<1> QED  BY <1>4, <1>8

-----------------------------------------------------------------------------
(***************************************************************************)
(* Where the registers can point: multiples of a unit of bytes, which      *)
(* bases, sizes of frames and offsets of planes are.                       *)
(***************************************************************************)

\* Frames start at multiples of what the registers count, and so do the chroma planes.
FramesOn(p, unit) ==
  /\ p.base \in Int /\ p.num \in Int /\ p.size \in Nat /\ p.y = 0
  /\ p.base % unit = 0 /\ p.size % unit = 0
PlanesOn(p, m, unit) ==
  m.fourcc \in Planar =>
    p.u \in Nat /\ p.v \in Nat /\ p.u % unit = 0 /\ p.v % unit = 0

\* What registers count, in bytes.
Units == {1, 2, 4, 8, 16, 256}

LEMMA ByUnits ==
  ASSUME NEW base \in Int, NEW size \in Nat, NEW off \in Int, NEW i \in Int,
         NEW unit \in Units,
         base % unit = 0, size % unit = 0, off % unit = 0
  PROVE  (base + i * size + off) % unit = 0
<1>1. PICK a, b, c \in Int : base = unit * a /\ size = unit * b /\ off = unit * c
  <2> unit \in Nat \ {0}
    BY DEF Units
  <2>1. base = unit * (base \div unit) /\ size = unit * (size \div unit) /\ off = unit * (off \div unit)
        /\ base \div unit \in Int /\ size \div unit \in Int /\ off \div unit \in Int
    BY SMT
  <2> QED  BY <2>1
<1> DEFINE k == a + i * b + c
<1>2. k \in Int
  BY <1>1
<1>3. base + i * size + off = unit * k
  <2>1. CASE unit = 1   BY <1>1, <2>1, SMT
  <2>2. CASE unit = 2   BY <1>1, <2>2, SMT
  <2>3. CASE unit = 4   BY <1>1, <2>3, SMT
  <2>4. CASE unit = 8   BY <1>1, <2>4, SMT
  <2>5. CASE unit = 16  BY <1>1, <2>5, SMT
  <2>6. CASE unit = 256 BY <1>1, <2>6, SMT
  <2> QED  BY <2>1, <2>2, <2>3, <2>4, <2>5, <2>6 DEF Units
<1> HIDE DEF k
<1>4. (unit * k) % unit = 0
  <2>1. CASE unit = 1   BY <1>2, <2>1, SMT
  <2>2. CASE unit = 2   BY <1>2, <2>2, SMT
  <2>3. CASE unit = 4   BY <1>2, <2>3, SMT
  <2>4. CASE unit = 8   BY <1>2, <2>4, SMT
  <2>5. CASE unit = 16  BY <1>2, <2>5, SMT
  <2>6. CASE unit = 256 BY <1>2, <2>6, SMT
  <2> QED  BY <2>1, <2>2, <2>3, <2>4, <2>5, <2>6 DEF Units
<1> QED  BY <1>3, <1>4

\* A product is a multiple of what one of its factors is a multiple of.
LEMMA ProductOn ==
  ASSUME NEW x \in Nat, NEW y \in Nat, NEW unit \in {2, 4, 8, 16, 32}, x % unit = 0
  PROVE  x * y \in Nat /\ (x * y) % unit = 0
<1>1. PICK k \in Nat : x = unit * k
  BY Multiple
<1>2. k * y \in Nat /\ x * y = unit * (k * y)
  <2>1. k * y \in Nat
    BY <1>1
  <2>2. (unit * k) * y = unit * (k * y)
    BY <1>1, SMT
  <2> QED  BY <1>1, <2>1, <2>2
<1> DEFINE q == k * y
<1>3. q \in Nat /\ x * y = unit * q
  BY <1>2
<1> HIDE DEF q
<1> QED  BY <1>3, SMT

LEMMA CyberbladeOn ==
  ASSUME NEW m \in Movies
  PROVE  /\ FramesOn(Cyberblade(m), 8)
         /\ Cyberblade(m).u % 8 = 0 => PlanesOn(Cyberblade(m), m, 8)
<1> DEFINE line == AlignTo(Bytes(m.fourcc) * m.w, 16)
           s == Sub(m.fourcc)
           rest == ChromaLine(m.w, s) * (m.h \div s)
           chroma == IF m.fourcc \in Planar THEN rest ELSE 0
           luma == line * m.h
           v == IF m.fourcc \in Planar THEN luma ELSE 0
           size == luma + 2 * chroma
           num == Fit(2 * MB, size)
<1>1. m.w \in Nat /\ m.h \in Nat /\ s \in {2, 4} /\ Bytes(m.fourcc) * m.w \in Nat
  BY MovieFacts
<1>2. Cyberblade(m) = Layout(6 * MB, num, size, line, 16, v + chroma, v)
  BY DEF Cyberblade
<1>3. luma \in Nat /\ luma % 8 = 0
  <2>1. line \in Nat /\ (\E k \in Nat : line = 16 * k)
    <3> DEFINE x == Bytes(m.fourcc) * m.w
    <3>1. x \in Nat /\ 16 \in Nat \ {0}
      BY <1>1
    <3> HIDE DEF x
    <3>2. AlignTo(x, 16) \in Nat /\ (\E k \in Nat : AlignTo(x, 16) = 16 * k)
      BY <3>1, UpAbove, UpMultiple
    <3> QED  BY <3>2 DEF x
  <2> HIDE DEF line
  <2>2. line % 8 = 0
    BY <2>1, SMT
  <2> QED  BY <1>1, <2>1, <2>2, ProductOn
<1>4. rest \in Nat /\ (2 * rest) % 8 = 0
  <2>1. m.w \div s \in Nat /\ m.h \div s \in Nat /\ 16 \div s \in {4, 8}
    BY <1>1, SMT
  <2>2. ChromaLine(m.w, s) \in Nat /\ ChromaLine(m.w, s) % 4 = 0
    <3>1. PICK k \in Nat : ChromaLine(m.w, s) = (16 \div s) * k
      <4>1. m.w \div s \in Nat /\ 16 \div s \in Nat \ {0}
        BY <2>1
      <4> QED  BY <4>1, UpMultiple DEF ChromaLine
    <3> DEFINE a == 16 \div s
    <3>2. a \in {4, 8} /\ ChromaLine(m.w, s) = a * k
      BY <2>1, <3>1
    <3> HIDE DEF a
    <3> QED  BY <3>1, <3>2, SMT
  <2>3. rest \in Nat /\ rest % 4 = 0
    BY <2>1, <2>2, ProductOn
  <2> HIDE DEF rest
  <2> QED  BY <2>3, SMT
<1>5. chroma \in Nat /\ (2 * chroma) % 8 = 0
  <2> HIDE DEF rest
  <2> QED  BY <1>4
<1> HIDE DEF chroma, luma
<1>6. size \in Nat /\ size % 8 = 0 /\ v + chroma \in Nat /\ v \in Nat /\ v % 8 = 0
  BY <1>3, <1>5, SMT
<1>7. num \in Int
  <2>1. line * m.h \in Nat \ {0}
    BY MovieFacts, RowsPositive
  <2>2. size \in Nat \ {0}
    <3> HIDE DEF line
    <3> QED  BY <1>5, <2>1, SMT DEF luma
  <2>3. 2 * MB \in Nat
    BY DEF MB, KB
  <2> HIDE DEF size
  <2> QED  BY <2>2, <2>3, FitRoom
<1>8. 6 * MB \in Int /\ (6 * MB) % 8 = 0
  BY SMT DEF MB, KB
<1> HIDE DEF size, v, num, line
<1>9. FramesOn(Cyberblade(m), 8)
  BY <1>2, <1>6, <1>7, <1>8 DEF FramesOn, Layout
<1>10. Cyberblade(m).u = v + chroma /\ Cyberblade(m).v = v
  BY <1>2 DEF Layout
<1>11. Cyberblade(m).u % 8 = 0 => PlanesOn(Cyberblade(m), m, 8)
  BY <1>6, <1>10 DEF PlanesOn
<1> QED  BY <1>9, <1>11

LEMMA Pm2On ==
  ASSUME NEW m \in Movies, m.fourcc = "YUY2", \E x \in PpWidths : x >= m.w
  PROVE  FramesOn(Pm2(m), 2) /\ PlanesOn(Pm2(m), m, 2)
<1> DEFINE stride == PpStride(m.w)
           size == stride * m.h * 2
           num == Fit(6 * MB, size)
<1>1. Room(Pm2(m), 8 * MB)
  BY Pm2Room
<1>2. PICK line, align : Pm2(m) = Layout(2 * MB, num, size, line, align, 0, 0)
  BY DEF Pm2
<1>3. Pm2(m).size = stride * m.h * 2 /\ Pm2(m).base = 2 * MB /\ Pm2(m).y = 0
  BY <1>2 DEF Layout
<1>4. stride \in Int /\ m.h \in Int
  <2>1. \E x \in PpWidths : x >= m.w /\ \A z \in PpWidths : z >= m.w => x <= z
    <3> DEFINE S == {x \in PpWidths : x >= m.w}
    <3>1. S \subseteq Nat /\ S # {}
      BY DEF PpWidths
    <3> HIDE DEF S
    <3>2. \E x \in S : \A z \in S : x <= z
      BY <3>1, LeastMember
    <3> QED  BY <3>2 DEF S
  <2>2. stride \in PpWidths
    BY <2>1 DEF PpStride
  <2> QED  BY <2>2, MovieFacts DEF PpWidths
<1> HIDE DEF stride
<1>5. (stride * m.h * 2) % 2 = 0
  <2> DEFINE q == stride * m.h
  <2>1. q \in Int
    BY <1>4
  <2> HIDE DEF q
  <2>2. (q * 2) % 2 = 0
    BY <2>1, SMT
  <2> QED  BY <2>2 DEF q
<1>6. (2 * MB) % 2 = 0
  BY SMT DEF MB, KB
<1>7. m.fourcc \notin Planar
  BY DEF Planar
<1> QED  BY <1>1, <1>3, <1>5, <1>6, <1>7 DEF FramesOn, PlanesOn, Room

LEMMA Pm3On ==
  ASSUME NEW m \in Movies, NEW asked \in Asked, m.fourcc \notin Planar
  PROVE  FramesOn(Pm3(m, asked), 2) /\ PlanesOn(Pm3(m, asked), m, 2)
<1> DEFINE p == Pm3(m, asked)
<1>1. Room(p, 32 * MB)
  BY Pm3Room
<1>2. p.size = m.w * m.h * 2 /\ p.base = 32 * MB - p.num * p.size /\ p.y = 0
  BY DEF Pm3, Layout
<1>3. p.base \in Int /\ p.num \in Int /\ p.size \in Nat
  BY <1>1 DEF Room
<1> HIDE DEF p
<1>4. p.size % 2 = 0
  <2> DEFINE q == m.w * m.h
  <2>1. q \in Nat
    BY MovieFacts
  <2> HIDE DEF q
  <2>2. (q * 2) % 2 = 0
    BY <2>1, SMT
  <2> QED  BY <1>2, <2>2 DEF q
<1>5. p.base % 2 = 0
  <2>1. 32 * MB \in Int /\ (32 * MB) % 2 = 0
    BY SMT DEF MB, KB
  <2> DEFINE n == p.num
             z == p.size
             t == 32 * MB
  <2>2. n \in Int /\ z \in Nat /\ t \in Int /\ t % 2 = 0 /\ z % 2 = 0 /\ p.base = t - n * z
    BY <1>2, <1>3, <1>4, <2>1
  <2> HIDE DEF n, z, t
  <2>3. PICK k \in Nat : z = 2 * k
    BY <2>2, Multiple
  <2>4. n * z = 2 * (n * k)
    BY <2>2, <2>3, SMT
  <2> DEFINE q == n * k
  <2>5. q \in Int /\ n * z = 2 * q
    BY <2>2, <2>3, <2>4
  <2> HIDE DEF q
  <2> QED  BY <2>2, <2>5, SMT
<1> QED  BY <1>2, <1>3, <1>4, <1>5 DEF FramesOn, PlanesOn, p

\* The ATI drivers never report more frames than they are asked for.
LEMMA AtiNumAsked ==
  ASSUME NEW memory, NEW size, NEW asked \in Asked, NEW least
  PROVE  AtiNum(memory, size, asked, least) <= asked
<1> DEFINE limit == Min({asked, MaxFrames})
           above(l) == {num \in 1..limit : AtiBase(memory, size, num) >= l}
           most(S) == IF S = {} THEN 0 ELSE Max(S)
<1>1. limit \in Nat /\ limit <= asked /\ asked \in Nat
  <2>1. asked \in Nat /\ MaxFrames \in Nat
    BY BoundAssumption
  <2>2. \A a, b \in Int : Min({a, b}) \in {a, b} /\ Min({a, b}) <= a
    BY MinMember
  <2>3. limit \in {asked, MaxFrames} /\ limit <= asked
    BY <2>1, <2>2
  <2> HIDE DEF limit
  <2> QED  BY <2>1, <2>3
<1>2. \A l : most(above(l)) <= asked
  <2> TAKE l
  <2> DEFINE S == above(l)
  <2>1. S \subseteq 1..limit
    OBVIOUS
  <2> HIDE DEF limit, S
  <2>2. S # {} => Max(S) \in S
    BY <1>1, <2>1, MaxMember
  <2>3. \A z \in 1..limit : z <= asked
    BY <1>1
  <2>4. S # {} => Max(S) <= asked
    BY <2>1, <2>2, <2>3
  <2>5. 0 <= asked
    BY <1>1
  <2>6. most(S) <= asked
    BY <2>4, <2>5
  <2> QED  BY <2>6 DEF S
<1>3. AtiNum(memory, size, asked, least) \in {most(above(ScreenMemory)), most(above(least))}
  BY DEF AtiNum
<1> HIDE DEF above, most
<1> QED  BY <1>2, <1>3

\* They start at multiples of 64 KB.
LEMMA AtiBaseOn ==
  ASSUME NEW memory, NEW size, NEW num, memory \in Int, size \in Nat, num \in Nat
  PROVE  LET base == AtiBase(memory, size, num)
         IN  base \in Int /\ base % 16 = 0 /\ base % 256 = 0
<1> DEFINE x == memory - num * size
<1>1. x \in Int
  BY SMT
<1>2. AtiBase(memory, size, num) = x - (x % 65536)
  BY DEF AtiBase, AlignDown, KB
<1> HIDE DEF x
<1> QED  BY <1>1, <1>2, SMT

LEMMA Mach64On ==
  ASSUME NEW m \in Movies, NEW asked \in Asked
  PROVE  /\ FramesOn(Mach64(m, asked), 16) /\ PlanesOn(Mach64(m, asked), m, 16)
         /\ Mach64(m, asked).num <= asked
<1> DEFINE line == AtiLine(m)
           luma == line * m.h
           s    == Sub(m.fourcc)
           size == Mach64Size(m)
           num  == AtiNum(CardMemory, size, asked, 0)
           base == AtiBase(CardMemory, size, num)
           near == AlignTo(luma, 16)
           far  == AlignTo(near + luma \div (s * s), 16)
           u    == IF m.fourcc \in Planar THEN near ELSE 0
           v    == IF m.fourcc \in Planar THEN far ELSE 0
<1>1. Mach64(m, asked) = Layout(base, num, size, line, AtiPitch(m), u, v)
  BY DEF Mach64
<1>2. luma \in Nat /\ luma \div (s * s) \in Nat
  <2>1. luma \in Nat
    BY AtiLineFacts, MovieFacts
  <2>2. s * s \in {4, 16}
    BY DEF Sub
  <2> HIDE DEF luma, s
  <2> QED  BY <2>1, <2>2, SMT
<1>3. size \in Nat /\ size % 16 = 0
  <2>1. AtiLine(m) * AtiRows(m) \in Nat /\ size = ClearBit(AtiLine(m) * AtiRows(m) + 256, 16)
    BY AtiLines DEF Mach64Size
  <2>2. AtiRows(m) \in Nat
    <3>1. m.h \in Nat /\ m.h \div 8 \in Nat /\ m.h \div 2 \in Nat
      BY MovieFacts, SMT
    <3> QED  BY <3>1 DEF AtiRows
  <2>3. (AtiLine(m) * AtiRows(m)) % 16 = 0
    <3>1. AtiLine(m) \in Nat /\ AtiLine(m) % 16 = 0
      BY AtiLineFacts
    <3> QED  BY <2>2, <3>1, 16 \in {2, 4, 8, 16, 32}, ProductOn
  <2> DEFINE x == AtiLine(m) * AtiRows(m)
  <2>4. x \in Nat /\ x % 16 = 0 /\ size = ClearBit(x + 256, 16)
    BY <2>1, <2>3
  <2> HIDE DEF x, size
  <2> QED  BY <2>4, SMT DEF ClearBit
<1>4. num \in Nat /\ num <= asked /\ CardMemory \in Int
  BY AtiNumInt, AtiNumAsked, MemoryAssumption
<1> HIDE DEF size, num
<1>5. base \in Int /\ base % 16 = 0
  BY ONLY <1>3, <1>4, AtiBaseOn
<1>6. near \in Nat /\ near % 16 = 0 /\ far \in Nat /\ far % 16 = 0
  <2> DEFINE d == luma \div (s * s)
  <2>1. luma \in Nat /\ d \in Nat
    BY <1>2
  <2> HIDE DEF luma, d
  <2>2. near \in Nat /\ near % 16 = 0
    BY <2>1, SMT DEF AlignTo
  <2> HIDE DEF near
  <2>3. AlignTo(near + d, 16) \in Nat /\ AlignTo(near + d, 16) % 16 = 0
    BY <2>1, <2>2, SMT DEF AlignTo
  <2> QED  BY <2>2, <2>3 DEF d
<1> DEFINE p == Mach64(m, asked)
<1>7. p.base = base /\ p.num = num /\ p.size = size /\ p.y = 0 /\ p.u = u /\ p.v = v
  BY <1>1 DEF Layout
<1> HIDE DEF p, base, near, far
<1>8. FramesOn(p, 16)
  BY <1>3, <1>4, <1>5, <1>7 DEF FramesOn
<1>9. PlanesOn(p, m, 16)
  BY <1>6, <1>7 DEF PlanesOn
<1> QED  BY <1>4, <1>7, <1>8, <1>9 DEF p

LEMMA RadeonOn ==
  ASSUME NEW m \in Movies, NEW asked \in Asked
  PROVE  /\ FramesOn(Radeon(m, asked), 16) /\ PlanesOn(Radeon(m, asked), m, 16)
         /\ Radeon(m, asked).num <= asked
<1> DEFINE line == AtiLine(m)
           luma == line * m.h
           s    == Sub(m.fourcc)
           size == RadeonSize(m)
           num  == AtiNum(RadeonMemory, size, asked, 1)
           base == AtiBase(RadeonMemory, size, num)
           near == AlignDown(luma, 16)
           far  == AlignDown(luma + luma \div (s * s), 16)
           u    == IF m.fourcc \in Planar THEN far ELSE 0
           v    == IF m.fourcc \in Planar THEN near ELSE 0
<1>1. Radeon(m, asked) = Layout(base, num, size, line, AtiPitch(m), u, v)
  BY DEF Radeon
<1>2. luma \in Nat /\ luma \div (s * s) \in Nat
  <2>1. luma \in Nat
    BY AtiLineFacts, MovieFacts
  <2>2. s * s \in {4, 16}
    BY DEF Sub
  <2> HIDE DEF luma, s
  <2> QED  BY <2>1, <2>2, SMT
<1>3. size \in Nat /\ size % 16 = 0
  <2> DEFINE x == AtiLine(m) * AtiRows(m)
  <2>1. x \in Nat /\ size = AlignTo(x, 4096)
    BY AtiLines DEF RadeonSize, KB
  <2> HIDE DEF x, size
  <2> QED  BY <2>1, SMT DEF AlignTo
<1>4. num \in Nat /\ num <= asked /\ RadeonMemory \in Int
  <2>1. RadeonMemory \in Int
    BY MemoryAssumption, SMT DEF RadeonMemory, KB
  <2> QED  BY <2>1, AtiNumInt, AtiNumAsked
<1> HIDE DEF size, num
<1>5. base \in Int /\ base % 16 = 0
  BY ONLY <1>3, <1>4, AtiBaseOn
<1>6. near \in Nat /\ near % 16 = 0 /\ far \in Nat /\ far % 16 = 0
  <2> DEFINE d == luma \div (s * s)
  <2>1. luma \in Nat /\ d \in Nat
    BY <1>2
  <2> HIDE DEF luma, d
  <2>2. near \in Nat /\ near % 16 = 0
    BY <2>1, SMT DEF AlignDown
  <2>3. AlignDown(luma + d, 16) \in Nat /\ AlignDown(luma + d, 16) % 16 = 0
    BY <2>1, SMT DEF AlignDown
  <2> QED  BY <2>2, <2>3 DEF d
<1> DEFINE p == Radeon(m, asked)
<1>7. p.base = base /\ p.num = num /\ p.size = size /\ p.y = 0 /\ p.u = u /\ p.v = v
  BY <1>1 DEF Layout
<1> HIDE DEF p, base, near, far
<1>8. FramesOn(p, 16)
  BY <1>3, <1>4, <1>5, <1>7 DEF FramesOn
<1>9. PlanesOn(p, m, 16)
  BY <1>6, <1>7 DEF PlanesOn
<1> QED  BY <1>4, <1>7, <1>8, <1>9 DEF p

LEMMA RadeonHdOn ==
  ASSUME NEW m \in Movies, NEW asked \in Asked
  PROVE  FramesOn(RadeonHd(m, asked), 256) /\ RadeonHd(m, asked).num <= asked
<1> DEFINE line == AlignTo(Bytes(m.fourcc) * m.w, 256)
           luma == line * m.h
           size == AlignTo(luma, 4096)
           num  == AtiNum(CardMemory, size, asked, 1)
           base == AtiBase(CardMemory, size, num)
           p    == RadeonHd(m, asked)
<1>1. p = Layout(base, num, size, line, 256, 0, 0)
  BY DEF RadeonHd, KB
<1>2. size \in Nat /\ size % 256 = 0
  <2>1. luma \in Nat
    BY MovieFacts, RowsPositive
  <2> HIDE DEF luma
  <2> QED  BY <2>1, SMT DEF AlignTo
<1>3. num \in Nat /\ num <= asked /\ CardMemory \in Int
  BY AtiNumInt, AtiNumAsked, MemoryAssumption
<1> HIDE DEF size, num
<1>4. base \in Int /\ base % 256 = 0
  BY ONLY <1>2, <1>3, AtiBaseOn
<1>5. p.base = base /\ p.num = num /\ p.size = size /\ p.y = 0
  BY <1>1 DEF Layout
<1> HIDE DEF p, base
<1>6. FramesOn(p, 256) /\ p.num <= asked
  BY <1>2, <1>3, <1>4, <1>5 DEF FramesOn
<1> QED  BY <1>6 DEF p

LEMMA MgaLine ==
  ASSUME NEW m \in Movies, NEW asked, NEW told
  PROVE  Mga(m, asked, told).line \in Nat
<1> DEFINE w == AlignTo(m.w, 2)
           line == IF m.fourcc \in Planar THEN AlignTo(w, 32) ELSE 2 * ClearBit(w + 8, 8)
<1>1. Mga(m, asked, told).line = line
  BY DEF Mga, Layout
<1>2. w \in Nat
  BY MovieFacts, UpAbove
<1> HIDE DEF w
<1>3. AlignTo(w, 32) \in Nat
  BY <1>2, UpAbove
<1>4. ClearBit(w + 8, 8) \in Nat
  BY <1>2, SMT DEF ClearBit
<1>5. line \in Nat
  BY <1>3, <1>4
<1> HIDE DEF line
<1> QED  BY <1>1, <1>5

\* What the Matrox driver reports is made of numbers, whatever it is told.
LEMMA MgaTyped ==
  ASSUME NEW m \in Movies, NEW asked \in Asked, NEW told \in Nat
  PROVE  /\ Mga(m, asked, told).base \in Int /\ Mga(m, asked, told).num \in Nat
         /\ Mga(m, asked, told).size \in Nat /\ Mga(m, asked, told).y = 0
<1> DEFINE base(n) == AlignDown(CardMemory \div 2 - (n + 1) * told, 64 * KB)
           most == IF asked \in 1..MGA_DEFAULT_FRAMES THEN asked ELSE MGA_DEFAULT_FRAMES
           inside == {n \in 1..most : base(n) >= 0}
           num == IF inside = {} THEN 0 ELSE Max(inside)
           k == Max({num, 1})
<1>1. most \in Nat
  BY BoundAssumption
<1>2. num \in Nat
  <2>1. inside \subseteq 1..most
    OBVIOUS
  <2> HIDE DEF inside, most
  <2>2. inside # {} => Max(inside) \in inside
    BY <1>1, <2>1, MaxMember
  <2>3. \A z \in 1..most : z \in Nat
    BY <1>1
  <2> QED  BY <2>1, <2>2, <2>3
<1>3. /\ Mga(m, asked, told).base = base(k) /\ Mga(m, asked, told).num = num
      /\ Mga(m, asked, told).y = 0
  BY DEF Mga, Layout
<1> HIDE DEF inside, most, num
<1>4. k \in Int
  <2>1. \A a, b \in Int : Max({a, b}) \in {a, b}
    BY LargerOf
  <2>2. k \in {num, 1}
    BY <1>2, <2>1
  <2> HIDE DEF k
  <2> QED  BY <1>2, <2>2
<1>5. base(k) \in Int
  <2> HIDE DEF k
  <2>1. CardMemory \div 2 \in Int /\ (k + 1) * told \in Int
    <3>1. CardMemory \in Nat
      BY MemoryAssumption
    <3> QED  BY <1>4, <3>1, SMT
  <2> DEFINE x == CardMemory \div 2 - (k + 1) * told
  <2>2. x \in Int /\ 64 * KB \in Nat \ {0}
    BY <2>1 DEF KB
  <2> HIDE DEF x
  <2>3. AlignDown(x, 64 * KB) \in Int
    BY <2>2, DownBelow
  <2> QED  BY <2>3 DEF x
<1> HIDE DEF base, k
<1> QED  BY <1>2, <1>3, <1>5, MgaSize

LEMMA SisOn ==
  ASSUME NEW m \in Movies
  PROVE  FramesOn(Sis(m), 4) /\ PlanesOn(Sis(m), m, 4)
<1> DEFINE planar == m.fourcc \in Planar
           line   == IF planar THEN AlignTo(m.w, 8) ELSE AlignTo(2 * m.w, 4)
           luma   == line * m.h
           total  == IF planar THEN (luma * 3) \div 2 ELSE luma
           far    == (m.h * line * 5) \div 4
           p      == Sis(m)
<1>1. m.w \in Nat /\ m.h \in Nat /\ 2 * m.w \in Nat
  BY MovieFacts, SMT
<1>2. line \in Nat /\ line % 4 = 0 /\ (planar => line % 8 = 0)
  <2>1. AlignTo(m.w, 8) \in Nat /\ AlignTo(m.w, 8) % 8 = 0 /\ AlignTo(m.w, 8) % 4 = 0
    BY <1>1, SMT DEF AlignTo
  <2>2. AlignTo(2 * m.w, 4) \in Nat /\ AlignTo(2 * m.w, 4) % 4 = 0
    BY <1>1, SMT DEF AlignTo
  <2> QED  BY <2>1, <2>2
<1>3. planar => m.h % 2 = 0
  <2> SUFFICES ASSUME planar PROVE m.h % 2 = 0
    OBVIOUS
  <2>1. m.h % Sub(m.fourcc) = 0 /\ Sub(m.fourcc) \in {2, 4}
    BY MovieAssumption, MovieFacts
  <2> QED  BY <1>1, <2>1, SMT
<1> HIDE DEF line
<1>4. luma \in Nat /\ luma % 4 = 0 /\ (planar => luma % 16 = 0)
  <2>1. luma \in Nat /\ luma % 4 = 0
    BY <1>1, <1>2, 4 \in {2, 4, 8, 16, 32}, ProductOn
  <2>2. ASSUME planar PROVE luma % 16 = 0
    <3>1. PICK a \in Nat : line = 8 * a
      BY <1>2, <2>2, 8 \in {2, 4, 8, 16, 32, 64, 256}, Multiple
    <3>2. PICK b \in Nat : m.h = 2 * b
      BY <1>1, <1>3, <2>2, 2 \in {2, 4, 8, 16, 32, 64, 256}, Multiple
    <3> DEFINE q == a * b
    <3>3. q \in Nat /\ luma = 16 * q
      BY <3>1, <3>2, SMT
    <3> HIDE DEF q, luma
    <3> QED  BY <3>3, SMT
  <2> QED  BY <2>1, <2>2
<1>5. Room(p, 16 * MB)
  BY SisRoom
<1>6. /\ p.base = 8 * MB /\ p.y = 0 /\ p.size = 2 * total
      /\ planar => {p.u, p.v} = {m.h * line, far}
  BY DEF Sis, Layout, line
<1>7. m.h * line = luma /\ (planar => far = (luma * 5) \div 4)
  <2>1. m.h * line = luma
    BY <1>1, <1>2, SMT
  <2>2. m.h * line * 5 = luma * 5
    BY <2>1
  <2> QED  BY <2>1, <2>2
<1> HIDE DEF p, far, luma
<1>8. (2 * total) % 4 = 0
  BY <1>4, SMT
<1>9. planar => /\ m.h * line \in Nat /\ (m.h * line) % 4 = 0
                /\ far \in Nat /\ far % 4 = 0
  BY <1>4, <1>7, SMT
<1>10. (8 * MB) % 4 = 0
  BY SMT DEF MB, KB
<1>11. FramesOn(p, 4)
  BY <1>5, <1>6, <1>8, <1>10 DEF FramesOn, Room
<1>12. PlanesOn(p, m, 4)
  BY <1>6, <1>9 DEF PlanesOn
<1> QED  BY <1>11, <1>12 DEF p

LEMMA SisCutOn ==
  ASSUME NEW m, NEW src \in Nat, NEW pos \in Int, NEW out \in Nat \ {0}, NEW unit \in {1, 2, 8}
  PROVE  SisCut(m, pos, out, src, unit) \in Nat /\ SisCut(m, pos, out, src, unit) % unit = 0
<1> DEFINE x == (src * Cut(pos)) \div out
<1>1. x \in Nat
  <2>1. Cut(pos) \in Nat
    BY DEF Cut
  <2>2. src * Cut(pos) \in Nat
    BY <2>1
  <2> DEFINE y == src * Cut(pos)
  <2>3. y \in Nat
    BY <2>2
  <2> HIDE DEF y
  <2>4. y \div out \in Nat
    BY <2>3, SMT
  <2> QED  BY <2>4 DEF y
<1> HIDE DEF x
<1>2. AlignDown(x, unit) \in Nat /\ AlignDown(x, unit) % unit = 0
  BY <1>1, SMT DEF AlignDown
<1> QED  BY <1>2 DEF SisCut, x

\* Where the SiS driver has the program write instead is at multiples of 4, too.
LEMMA SisMovedOn ==
  ASSUME NEW m \in Movies, NEW win \in Windows
  PROVE  /\ SisMoved(m, win).y \in Nat /\ SisMoved(m, win).y % 4 = 0
         /\ m.fourcc \in Planar => SisMoved(m, win).uv \in Nat /\ SisMoved(m, win).uv % 4 = 0
<1> DEFINE planar == m.fourcc \in Planar
           sx == SisCut(m, win.x, win.w, m.w, IF planar THEN 8 ELSE 2)
           sy == SisCut(m, win.y, win.h, m.h, IF planar THEN 2 ELSE 1)
           line == Sis(m).line
           rows == sy * line
<1>1. /\ SisMoved(m, win).y = (IF planar THEN sx + rows ELSE 2 * sx + rows)
      /\ planar => SisMoved(m, win).uv = (sx + rows \div 2) \div 2
  BY DEF SisMoved, Moved
<1>2. /\ m.w \in Nat /\ m.h \in Nat /\ win.x \in Int /\ win.y \in Int
      /\ win.w \in Nat \ {0} /\ win.h \in Nat \ {0}
  BY MovieFacts, WindowAssumption
<1>3. line \in Nat /\ line % 4 = 0 /\ (planar => line % 8 = 0)
  <2>1. line = (IF planar THEN AlignTo(m.w, 8) ELSE AlignTo(2 * m.w, 4))
    BY DEF Sis, Layout
  <2>2. AlignTo(m.w, 8) \in Nat /\ AlignTo(m.w, 8) % 8 = 0 /\ AlignTo(m.w, 8) % 4 = 0
    BY <1>2, SMT DEF AlignTo
  <2>3. AlignTo(2 * m.w, 4) \in Nat /\ AlignTo(2 * m.w, 4) % 4 = 0
    BY <1>2, SMT DEF AlignTo
  <2> HIDE DEF line
  <2> QED  BY <2>1, <2>2, <2>3
<1>4. sx \in Nat /\ sx % (IF planar THEN 8 ELSE 2) = 0
  BY <1>2, SisCutOn
<1>5. sy \in Nat /\ (planar => sy % 2 = 0)
  BY <1>2, SisCutOn
<1> HIDE DEF sx, sy, line
<1>6. rows \in Nat /\ rows % 4 = 0 /\ (planar => rows % 16 = 0)
  <2>1. line * sy \in Nat /\ (line * sy) % 4 = 0
    BY <1>3, <1>5, 4 \in {2, 4, 8, 16, 32}, ProductOn
  <2>2. rows = line * sy
    BY <1>3, <1>5, SMT
  <2>3. ASSUME planar PROVE rows % 16 = 0
    <3>1. PICK a \in Nat : line = 8 * a
      BY <1>3, <2>3, 8 \in {2, 4, 8, 16, 32, 64, 256}, Multiple
    <3>2. PICK b \in Nat : sy = 2 * b
      BY <1>5, <2>3, 2 \in {2, 4, 8, 16, 32, 64, 256}, Multiple
    <3> DEFINE q == b * a
    <3>3. q \in Nat /\ rows = 16 * q
      BY <3>1, <3>2, SMT
    <3> HIDE DEF q, rows
    <3> QED  BY <3>3, SMT
  <2> QED  BY <2>1, <2>2, <2>3
<1> HIDE DEF rows
<1>7. CASE planar
  <2>1. /\ sx + rows \in Nat /\ (sx + rows) % 4 = 0
        /\ (sx + rows \div 2) \div 2 \in Nat /\ ((sx + rows \div 2) \div 2) % 4 = 0
    BY <1>4, <1>6, <1>7, SMT
  <2> QED  BY <1>1, <1>7, <2>1
<1>8. CASE ~planar
  <2>1. 2 * sx + rows \in Nat /\ (2 * sx + rows) % 4 = 0
    BY <1>4, <1>6, <1>8, SMT
  <2> QED  BY <1>1, <1>8, <2>1
<1> QED  BY <1>7, <1>8

\* How far a cut window moves what is shown is a number.
LEMMA MovedTyped ==
  ASSUME NEW d, NEW m \in Movies, NEW win \in Windows
  PROVE  /\ MovedBy(d, m, win).y \in Int /\ MovedBy(d, m, win).uv \in Int
         /\ d \notin {"nvidia", "mga"} => MovedBy(d, m, win).y = 0 /\ MovedBy(d, m, win).uv = 0
<1>1. /\ m.w \in Nat /\ m.h \in Nat /\ win.x \in Int /\ win.y \in Int
      /\ win.w \in Nat \ {0, 1} /\ win.h \in Nat \ {0, 1}
  BY MovieFacts, WindowAssumption
<1>2. CASE d = "nvidia"
  <2> DEFINE cx == Cut(win.x) * m.w
             cy == Cut(win.y) * m.h
             rows == NvidiaRows(m, win)
  <2>1. cx \in Nat /\ cy \in Nat
    BY <1>1 DEF Cut
  <2>2. rows \in Int
    <3>1. rows = cy \div win.h
      BY DEF NvidiaRows
    <3> HIDE DEF cy, rows
    <3> QED  BY <1>1, <2>1, <3>1, SMT
  <2>3. cx \div win.w \in Int
    <3> HIDE DEF cx
    <3> QED  BY <1>1, <2>1, SMT
  <2>4. MovedBy(d, m, win) = Moved(2 * (cx \div win.w + rows * m.w), 0)
    BY <1>2 DEF MovedBy, NvidiaMoved
  <2> DEFINE a == cx \div win.w
             b == rows * m.w
  <2>5. a \in Int /\ b \in Int /\ MovedBy(d, m, win) = Moved(2 * (a + b), 0)
    BY <1>1, <2>2, <2>3, <2>4
  <2> HIDE DEF a, b
  <2>6. 2 * (a + b) \in Int
    BY <2>5
  <2> QED  BY <1>2, <2>5, <2>6 DEF Moved
<1>3. CASE d = "mga"
  <2> DEFINE skip == Cut(win.y)
             inc  == ((m.h - 1) * 2^14) \div (win.h - 1)
             from == skip * inc
             rows == MgaRows(m, win)
             pix  == MgaPixels(m)
             line == Mga(m, 1, 0).line
             uv   == IF m.fourcc \in Planar THEN (from \div 2^16) * pix ELSE 0
  <2>1. skip \in Nat
    BY <1>1 DEF Cut
  <2>2. inc \in Int
    BY <1>1, SMT
  <2>3. MgaAxis(m.h, win.y, win.h).from = from
    BY DEF MgaAxis, Axis
  <2> HIDE DEF skip, inc
  <2>4. from \in Int
    BY <2>1, <2>2
  <2>5. rows = from \div 2^14 /\ MovedBy(d, m, win) = Moved(rows * pix, uv)
    BY <1>3, <2>3 DEF MgaRows, MovedBy, MgaMoved
  <2> HIDE DEF from
  <2>6. from \div 2^14 \in Int /\ from \div 2^16 \in Int
    BY <2>4, SMT
  <2>7. pix \in Int
    <3>1. line \in Nat
      BY MgaLine
    <3>2. pix = line \div (IF m.fourcc \in Planar THEN 1 ELSE 2)
      BY DEF MgaPixels
    <3> HIDE DEF line
    <3> QED  BY <3>1, <3>2, SMT
  <2>8. rows * pix \in Int /\ uv \in Int
    <3> DEFINE r == from \div 2^14
               t == from \div 2^16
    <3>1. r \in Int /\ t \in Int /\ rows = r
      BY <2>5, <2>6
    <3> HIDE DEF r, t, pix, rows
    <3>2. r * pix \in Int /\ t * pix \in Int
      BY <2>7, <3>1
    <3> QED  BY <3>1, <3>2 DEF t
  <2> HIDE DEF pix, rows, uv
  <2> QED  BY <1>3, <2>5, <2>8 DEF Moved
<1>4. CASE d \notin {"nvidia", "mga"}
  <2>1. MovedBy(d, m, win) = Moved(0, 0)
    BY <1>4 DEF MovedBy
  <2> QED  BY <2>1 DEF Moved
<1> QED  BY <1>2, <1>3, <1>4

\* A driver whose registers take any address asks for numbers only.
LEMMA AnyAddress ==
  ASSUME NEW p, p.base \in Int, p.num \in Int, p.size \in Nat, p.y = 0
  PROVE  FramesOn(p, 1)
<1>1. \A x \in Int : x % 1 = 0
  BY SMT
<1> QED  BY <1>1 DEF FramesOn

LEMMA AnyPlanes ==
  ASSUME NEW p, NEW m, Holds(p, m)
  PROVE  PlanesOn(p, m, 1)
<1>1. \A x \in Nat : x % 1 = 0
  BY SMT
<1>2. m.fourcc \in Planar => p.u \in Nat /\ p.v \in Nat
  BY DEF Holds
<1> QED  BY <1>1, <1>2 DEF PlanesOn

LEMMA LayoutOn ==
  ASSUME NEW d \in Drivers, NEW m \in Movies, NEW asked \in Asked, NEW told \in Nat,
         m.fourcc \in Supported(d), Accepts(d, m, asked)
  PROVE  LET p == LayoutOf(d, m, asked, told)
         IN  /\ FramesOn(p, Unit(d))
             /\ (d = "cyberblade" => p.u % 8 = 0) => PlanesOn(p, m, Unit(d))
<1> DEFINE p == LayoutOf(d, m, asked, told)
           Goal == /\ FramesOn(p, Unit(d))
                   /\ (d = "cyberblade" => p.u % 8 = 0) => PlanesOn(p, m, Unit(d))
<1> SUFFICES Goal
  OBVIOUS
<1>1. d \in AllDrivers
  BY DriverAssumption
<1>2. CASE d = "cyberblade"
  <2>1. p = Cyberblade(m) /\ Unit(d) = 8
    BY <1>2 DEF LayoutOf, Unit
  <2> QED  BY <1>2, <2>1, CyberbladeOn
<1>3. CASE d = "pm2"
  <2>1. p = Pm2(m) /\ Unit(d) = 2 /\ Supported(d) = {"YUY2"}
    BY <1>3 DEF LayoutOf, Unit, Supported
  <2>2. \E x \in PpWidths : x >= m.w
    BY <1>3 DEF Accepts
  <2> QED  BY <2>1, <2>2, Pm2On
<1>4. CASE d = "pm3"
  <2>1. p = Pm3(m, asked) /\ Unit(d) = 2 /\ Supported(d) = {"YUY2", "UYVY"}
    BY <1>4 DEF LayoutOf, Unit, Supported
  <2>2. m.fourcc \notin Planar
    BY <2>1 DEF Planar
  <2> QED  BY <2>1, <2>2, Pm3On
<1>5. CASE d = "sis"
  <2>1. p = Sis(m) /\ Unit(d) = 4
    BY <1>5 DEF LayoutOf, Unit
  <2> QED  BY <2>1, SisOn
<1>6. CASE d = "mach64"
  <2>1. p = Mach64(m, asked) /\ Unit(d) = 16
    BY <1>6 DEF LayoutOf, Unit
  <2> QED  BY <2>1, Mach64On
<1>7. CASE d = "radeon"
  <2>1. p = Radeon(m, asked) /\ Unit(d) = 16
    BY <1>7 DEF LayoutOf, Unit
  <2> QED  BY <2>1, RadeonOn
<1>8. CASE d = "radeonhd"
  <2>1. p = RadeonHd(m, asked) /\ Unit(d) = 256 /\ Supported(d) = {"BGR16", "BGR32"}
    BY <1>8 DEF LayoutOf, Unit, Supported
  <2>2. m.fourcc \notin Planar
    BY <2>1 DEF Planar
  <2> QED  BY <2>1, <2>2, RadeonHdOn DEF PlanesOn
<1>9. CASE d \in {"unichrome", "savage", "s3", "nvidia", "ivtv", "mga"}
  <2>1. Unit(d) = 1
    BY <1>9 DEF Unit
  <2>2. FramesOn(p, 1)
    <3>1. CASE d = "mga"
      <4>1. p = Mga(m, asked, told)
        BY <3>1 DEF LayoutOf
      <4> QED  BY <4>1, MgaTyped, AnyAddress
    <3>2. CASE d # "mga"
      <4>1. Room(p, Mapped(d, p))
        BY <3>2, LayoutRoom
      <4>2. p.y = 0
        <5>1. CASE d = "unichrome"  BY <5>1 DEF LayoutOf, Unichrome, Layout
        <5>2. CASE d = "savage"     BY <5>2 DEF LayoutOf, Savage, Layout
        <5>3. CASE d = "s3"         BY <5>3 DEF LayoutOf, S3, Layout
        <5>4. CASE d = "nvidia"     BY <5>4 DEF LayoutOf, Nvidia, Layout
        <5>5. CASE d = "ivtv"       BY <5>5 DEF LayoutOf, Ivtv, Layout
        <5> QED  BY <1>9, <3>2, <5>1, <5>2, <5>3, <5>4, <5>5
      <4> HIDE DEF p
      <4> QED  BY <4>1, <4>2, AnyAddress DEF Room
    <3> QED  BY <3>1, <3>2
  <2>3. PlanesOn(p, m, 1)
    <3>1. CASE m.fourcc \notin Planar
      BY <3>1 DEF PlanesOn
    <3>2. CASE m.fourcc \in Planar
      <4>1. ~CoarseOf(d, m)
        <5>1. d \in {"savage", "s3", "nvidia"} =>
                Supported(d) \subseteq {"UYVY", "YUY2", "BGR16", "BGR32"}
          BY DEF Supported
        <5>2. Planar \cap {"UYVY", "YUY2", "BGR16", "BGR32"} = {} /\ Planar \cap Packed = {}
          BY DEF Planar, Packed
        <5> QED  BY <1>9, <3>2, <5>1, <5>2 DEF CoarseOf, Ati
      <4>2. Holds(p, m)
        BY <4>1, LayoutHolds
      <4> HIDE DEF p
      <4> QED  BY <4>2, AnyPlanes
    <3> QED  BY <3>1, <3>2
  <2> QED  BY <2>1, <2>2, <2>3
<1> HIDE DEF Goal
<1> QED
  BY <1>1, <1>2, <1>3, <1>4, <1>5, <1>6, <1>7, <1>8, <1>9 DEF AllDrivers, Ati

-----------------------------------------------------------------------------
(***************************************************************************)
(* So what is written into the registers is the address itself.            *)
(***************************************************************************)

\* The addresses a driver can write into the registers of its card are those of the
\* frames, and of their chroma planes but for YVU9 on the cyberblade.
Placed(d, q) ==
  LET unit == Unit(d)
  IN  /\ q.base \in Int /\ q.num \in Int /\ q.size \in Nat
      /\ q.y \in Int /\ q.moved.y \in Int
      /\ q.base % unit = 0 /\ q.size % unit = 0 /\ (q.y + q.moved.y) % unit = 0
      /\ q.movie.fourcc \in Planar /\ (d = "cyberblade" => q.u % 8 = 0) =>
           /\ q.u \in Int /\ q.v \in Int /\ q.moved.uv \in Int
           /\ (q.u + q.moved.uv) % unit = 0 /\ (q.v + q.moved.uv) % unit = 0

LEMMA UnitKnown ==
  ASSUME NEW d
  PROVE  /\ Unit(d) \in Units
         /\ d = "sis" => Unit(d) = 4
         /\ d \in {"nvidia", "mga"} => Unit(d) = 1
<1>1. d = "sis" => Unit(d) = 4
  BY DEF Unit
<1>2. d \in {"nvidia", "mga"} => Unit(d) = 1
  BY DEF Unit
<1>3. Unit(d) \in Units
  <2>1. CASE d = "cyberblade" BY <2>1 DEF Unit, Units
  <2>2. CASE d \in {"pm2", "pm3"} BY <2>2 DEF Unit, Units
  <2>3. CASE d = "sis" BY <2>3 DEF Unit, Units
  <2>4. CASE d \in {"mach64", "radeon"} BY <2>4 DEF Unit, Units
  <2>5. CASE d = "radeonhd" BY <2>5 DEF Unit, Units
  <2>6. CASE d \notin {"cyberblade", "pm2", "pm3", "sis", "mach64", "radeon", "radeonhd"}
    BY <2>6 DEF Unit, Units
  <2> QED  BY <2>1, <2>2, <2>3, <2>4, <2>5, <2>6
<1> QED  BY <1>1, <1>2, <1>3

LEMMA SumOn ==
  ASSUME NEW a \in Nat, NEW b \in Nat, a % 4 = 0, b % 4 = 0
  PROVE  a + b \in Nat /\ (a + b) % 4 = 0
  BY SMT

LEMMA ReportedPlaced ==
  ASSUME NEW d \in Drivers, NEW m \in Movies, NEW asked \in Asked, NEW told \in Nat,
         NEW win \in Windows, m.fourcc \in Supported(d), Accepts(d, m, asked)
  PROVE  Placed(d, Reported(d, LayoutOf(d, m, asked, told), m, asked, told, win))
<1> DEFINE p == LayoutOf(d, m, asked, told)
           q == Reported(d, p, m, asked, told, win)
           by == IF d = "sis" THEN SisMoved(m, win) ELSE Moved(0, 0)
           moved == MovedBy(d, m, win)
           unit == Unit(d)
<1>1. /\ FramesOn(p, unit)
      /\ (d = "cyberblade" => p.u % 8 = 0) => PlanesOn(p, m, unit)
  BY LayoutOn
<1> HIDE DEF p
<1>2. /\ q.base = p.base /\ q.num = p.num /\ q.size = p.size /\ q.movie = m
      /\ q.y = p.y + by.y /\ q.u = p.u + by.uv /\ q.v = p.v + by.uv /\ q.moved = moved
  BY DEF Reported
<1>3. /\ moved.y \in Int /\ moved.uv \in Int
      /\ d \notin {"nvidia", "mga"} => moved.y = 0 /\ moved.uv = 0
  BY MovedTyped
<1>4. /\ d = "sis" =>
           /\ by.y \in Nat /\ by.y % 4 = 0
           /\ m.fourcc \in Planar => by.uv \in Nat /\ by.uv % 4 = 0
      /\ d # "sis" => by.y = 0 /\ by.uv = 0
  BY SisMovedOn DEF Moved
<1>5. /\ d = "sis" => unit = 4
      /\ d \in {"nvidia", "mga"} => unit = 1
  BY UnitKnown
<1>6. p.y = 0 /\ p.base \in Int /\ p.num \in Int /\ p.size \in Nat
      /\ p.base % unit = 0 /\ p.size % unit = 0
  BY <1>1 DEF FramesOn
<1> HIDE DEF q, by, moved
<1>7. q.y \in Int /\ (q.y + moved.y) % unit = 0
  <2>1. CASE d = "sis"
    <3>1. by.y \in Nat /\ by.y % 4 = 0 /\ q.y = 0 + by.y /\ moved.y = 0 /\ unit = 4
      BY <1>2, <1>3, <1>4, <1>5, <1>6, <2>1
    <3>2. q.y = by.y /\ q.y + moved.y = by.y
      BY <3>1
    <3> QED  BY <3>1, <3>2
  <2>2. CASE d \in {"nvidia", "mga"}
    <3>1. q.y = 0 /\ unit = 1 /\ moved.y \in Int
      BY <1>2, <1>3, <1>4, <1>5, <1>6, <2>2
    <3> QED  BY <3>1, SMT
  <2>3. CASE d \notin {"sis", "nvidia", "mga"}
    <3>1. q.y = 0 /\ moved.y = 0
      BY <1>2, <1>3, <1>4, <1>6, <2>3
    <3>2. unit \in Units
      BY UnitKnown
    <3> HIDE DEF unit
    <3> QED  BY <3>1, <3>2, SMT DEF Units
  <2> QED  BY <2>1, <2>2, <2>3
<1>8. ASSUME m.fourcc \in Planar, d = "cyberblade" => q.u % 8 = 0
      PROVE  /\ q.u \in Int /\ q.v \in Int
             /\ (q.u + moved.uv) % unit = 0 /\ (q.v + moved.uv) % unit = 0
  <2>1. CASE d = "sis"
    <3>1. PlanesOn(p, m, 4)
      BY <1>1, <1>5, <2>1
    <3>2. p.u \in Nat /\ p.v \in Nat /\ p.u % 4 = 0 /\ p.v % 4 = 0
      BY <1>8, <3>1 DEF PlanesOn
    <3>3. by.uv \in Nat /\ by.uv % 4 = 0 /\ moved.uv = 0
      BY <1>3, <1>4, <1>8, <2>1
    <3>4. /\ q.u \in Nat /\ q.u % 4 = 0 /\ q.v \in Nat /\ q.v % 4 = 0
      BY <1>2, <3>2, <3>3, SumOn
    <3>5. q.u + moved.uv = q.u /\ q.v + moved.uv = q.v
      <4>1. \A x \in Nat : x + 0 = x
        OBVIOUS
      <4> QED  BY ONLY <3>3, <3>4, <4>1, Zenon
    <3>6. unit = 4
      BY <1>5, <2>1
    <3> QED  BY <3>4, <3>5, <3>6
  <2>2. CASE d # "sis"
    <3>1. d = "cyberblade" => p.u % 8 = 0
      <4> SUFFICES ASSUME d = "cyberblade" PROVE p.u % 8 = 0
        OBVIOUS
      <4>1. p = Cyberblade(m)
        BY DEF LayoutOf, p
      <4>2. p.u \in Int
        <5>1. Holds(p, m)
          BY <4>1, CyberbladeHolds
        <5> QED  BY <1>8, <5>1 DEF Holds
      <4>3. q.u = p.u + 0
        BY <1>2, <1>4, <2>2
      <4> QED  BY <1>8, <4>2, <4>3
    <3>2. p.u \in Nat /\ p.v \in Nat /\ p.u % unit = 0 /\ p.v % unit = 0
      BY <1>1, <1>8, <3>1 DEF PlanesOn
    <3>3. q.u = p.u + 0 /\ q.v = p.v + 0
      BY <1>2, <1>4, <2>2
    <3>4. q.u = p.u /\ q.v = p.v
      BY <3>2, <3>3
    <3>5. CASE d \in {"nvidia", "mga"}
      <4>1. unit = 1
        BY <1>5, <3>5
      <4> HIDE DEF unit
      <4> QED  BY <1>3, <3>2, <3>4, <4>1, SMT
    <3>6. CASE d \notin {"nvidia", "mga"}
      <4>1. moved.uv = 0
        BY <1>3, <3>6
      <4>2. q.u + moved.uv = p.u /\ q.v + moved.uv = p.v
        BY <3>2, <3>4, <4>1
      <4> QED  BY <3>2, <3>4, <4>2
    <3> QED  BY <3>5, <3>6
  <2> QED  BY <2>1, <2>2
<1> HIDE DEF unit
<1>9. Placed(d, q)
  <2>1. q.movie.fourcc = m.fourcc /\ q.moved.y = moved.y /\ q.moved.uv = moved.uv
    BY <1>2
  <2> QED  BY <1>2, <1>3, <1>6, <1>7, <1>8, <2>1 DEF Placed, unit
<1> QED  BY <1>9 DEF q, p

\* So the registers hold what the program was told.
LEMMA RegistersHold ==
  ASSUME NEW d, NEW q, Placed(d, q), NEW i \in Int
  PROVE  LET frame == q.base + i * q.size
             r     == Registers(d, q, frame)
         IN  /\ r.y = frame + q.y + q.moved.y
             /\ q.movie.fourcc \in Planar /\ (d = "cyberblade" => q.u % 8 = 0) =>
                  r.u = frame + q.u + q.moved.uv /\ r.v = frame + q.v + q.moved.uv
<1> DEFINE unit == Unit(d)
           frame == q.base + i * q.size
<1>1. unit \in Units
  BY UnitKnown
<1>2. ASSUME NEW a \in Int, NEW b \in Int, (a + b) % unit = 0
      PROVE  Written(d, frame + a + b) = frame + a + b
  <2> DEFINE off == a + b
             base == q.base
             size == q.size
             x == frame + a + b
  <2>1. off \in Int /\ base \in Int /\ size \in Nat /\ base % unit = 0 /\ size % unit = 0 /\ off % unit = 0
    BY <1>2 DEF Placed
  <2>2. x = base + i * size + off
    <3> DEFINE y == i * size
    <3>1. y \in Int
      BY <2>1
    <3>2. x = base + y + a + b /\ off = a + b
      OBVIOUS
    <3>3. base + y + a + b = base + y + (a + b)
      <4> HIDE DEF y, base
      <4> QED  BY <2>1, <3>1
    <3> QED  BY <3>3
  <2>3. (base + i * size + off) % unit = 0
    <3> HIDE DEF unit, base, size, off
    <3>1. i \in Int
      OBVIOUS
    <3> QED  BY ONLY <1>1, <2>1, <3>1, ByUnits
  <2>4. x \in Int /\ x % unit = 0
    <3>1. base + i * size + off \in Int
      <4> HIDE DEF base, size, off
      <4> QED  BY <2>1
    <3> HIDE DEF x, base, size, off
    <3> QED  BY <2>2, <2>3, <3>1
  <2> HIDE DEF x
  <2>5. AlignDown(x, unit) = x
    BY <2>4 DEF AlignDown
  <2> QED  BY <2>5 DEF Written, x
<1>3. q.y \in Int /\ q.moved.y \in Int /\ (q.y + q.moved.y) % unit = 0
  BY DEF Placed
<1>4. Written(d, frame + q.y + q.moved.y) = frame + q.y + q.moved.y
  BY <1>2, <1>3
<1>5. ASSUME q.movie.fourcc \in Planar, d = "cyberblade" => q.u % 8 = 0
      PROVE  /\ Written(d, frame + q.u + q.moved.uv) = frame + q.u + q.moved.uv
             /\ Written(d, frame + q.v + q.moved.uv) = frame + q.v + q.moved.uv
  <2>1. /\ q.u \in Int /\ q.v \in Int /\ q.moved.uv \in Int
        /\ (q.u + q.moved.uv) % unit = 0 /\ (q.v + q.moved.uv) % unit = 0
    BY <1>5 DEF Placed
  <2> QED  BY <1>2, <2>1
<1> QED  BY <1>4, <1>5 DEF Registers

\* The offsets of the chroma planes are numbers, also where there are none.
LEMMA OffsetsTyped ==
  ASSUME NEW d \in Drivers, NEW m \in Movies, NEW asked \in Asked, NEW told \in Nat,
         m.fourcc \in Supported(d), Accepts(d, m, asked)
  PROVE  LayoutOf(d, m, asked, told).u \in Int /\ LayoutOf(d, m, asked, told).v \in Int
<1> DEFINE p == LayoutOf(d, m, asked, told)
<1>1. d \in AllDrivers
  BY DriverAssumption
<1>2. CASE d = "mga"
  <2> DEFINE luma == AlignTo(AlignTo(m.w, 2), 32) * m.h
  <2>1. luma \in Nat
    <3> DEFINE w == AlignTo(m.w, 2)
    <3>1. w \in Nat
      BY MovieFacts, UpAbove
    <3> HIDE DEF w
    <3>2. AlignTo(w, 32) \in Nat
      BY <3>1, UpAbove
    <3>3. m.h \in Nat
      BY MovieFacts
    <3> DEFINE l == AlignTo(w, 32)
    <3>4. l \in Nat
      BY <3>2
    <3> HIDE DEF l
    <3>5. l * m.h \in Nat
      BY <3>3, <3>4
    <3> QED  BY <3>5 DEF l, w
  <2>2. p.u = luma + luma \div 4 /\ p.v = luma
    BY <1>2 DEF LayoutOf, Mga, Layout
  <2> HIDE DEF luma, p
  <2>3. luma \div 4 \in Int
    BY <2>1, SMT
  <2> QED  BY <2>1, <2>2, <2>3 DEF p
<1>3. CASE d = "unichrome"
  <2> DEFINE planar == m.fourcc \in {"YV12", "I420", "UYVY"}
             line == AlignTo((IF planar THEN 1 ELSE Bytes(m.fourcc)) * m.w, 32)
             chroma == IF planar THEN (line \div 2) * (m.h \div 2) ELSE 0
  <2>1. line \in Nat
    <3> DEFINE x == (IF planar THEN 1 ELSE Bytes(m.fourcc)) * m.w
    <3>1. x \in Nat
      BY MovieFacts
    <3> HIDE DEF x
    <3>2. AlignTo(x, 32) \in Nat
      BY <3>1, UpAbove
    <3> QED  BY <3>2 DEF x
  <2>2. p.u = line * m.h + chroma /\ p.v = line * m.h
    BY <1>3 DEF LayoutOf, Unichrome, Layout
  <2> HIDE DEF line, p
  <2>3. line * m.h \in Nat /\ chroma \in Int
    <3>1. line \div 2 \in Nat /\ m.h \div 2 \in Nat /\ m.h \in Nat
      BY <2>1, MovieFacts, SMT
    <3>2. (line \div 2) * (m.h \div 2) \in Nat /\ line * m.h \in Nat
      <4> DEFINE a == line \div 2
                 b == m.h \div 2
      <4>1. a \in Nat /\ b \in Nat
        BY <3>1
      <4> HIDE DEF a, b
      <4>2. a * b \in Nat
        BY <4>1
      <4> QED  BY <2>1, <3>1, <4>2 DEF a, b
    <3> QED  BY <3>2
  <2> DEFINE luma == line * m.h
  <2>4. luma \in Nat /\ p.u = luma + chroma /\ p.v = luma
    BY <2>2, <2>3
  <2> HIDE DEF luma, chroma
  <2> QED  BY <2>3, <2>4 DEF p
<1>4. CASE d \notin {"mga", "unichrome"}
  <2>1. CASE m.fourcc \in Planar
    <3>1. CASE d = "cyberblade"
      <4>1. p = Cyberblade(m)
        BY <3>1 DEF LayoutOf
      <4>2. Holds(p, m)
        BY <4>1, CyberbladeHolds
      <4> QED  BY <2>1, <4>2 DEF Holds
    <3>2. CASE d # "cyberblade"
      <4>1. PlanesOn(p, m, Unit(d))
        BY <3>2, LayoutOn
      <4> QED  BY <2>1, <4>1 DEF PlanesOn
    <3> QED  BY <3>1, <3>2
  <2>2. CASE m.fourcc \notin Planar
    <3> SUFFICES p.u = 0 /\ p.v = 0
      OBVIOUS
    <3>1. CASE d = "cyberblade"
      <4>1. p.u = 0 + 0 /\ p.v = 0
        BY <2>2, <3>1 DEF LayoutOf, Cyberblade, Layout
      <4> HIDE DEF p
      <4> QED  BY <4>1
    <3>2. CASE d = "pm2"        BY <3>2 DEF LayoutOf, Pm2, Layout
    <3>3. CASE d = "pm3"        BY <3>3 DEF LayoutOf, Pm3, Layout
    <3>4. CASE d = "sis"        BY <2>2, <3>4 DEF LayoutOf, Sis, Layout
    <3>5. CASE d = "savage"     BY <3>5 DEF LayoutOf, Savage, Layout
    <3>6. CASE d = "s3"         BY <3>6 DEF LayoutOf, S3, Layout
    <3>7. CASE d = "nvidia"     BY <3>7 DEF LayoutOf, Nvidia, Layout
    <3>8. CASE d = "mach64"     BY <2>2, <3>8 DEF LayoutOf, Mach64, Layout
    <3>9. CASE d = "radeon"     BY <2>2, <3>9 DEF LayoutOf, Radeon, Layout
    <3>10. CASE d = "radeonhd"  BY <3>10 DEF LayoutOf, RadeonHd, Layout
    <3>11. d # "ivtv"
      <4>1. d = "ivtv" => Supported(d) = {"YV12"}
        BY DEF Supported
      <4> QED  BY <2>2, <4>1 DEF Planar
    <3> QED
      BY <1>1, <1>4, <3>1, <3>2, <3>3, <3>4, <3>5, <3>6, <3>7, <3>8, <3>9, <3>10, <3>11
      DEF AllDrivers, Ati
  <2> QED  BY <2>1, <2>2
<1> QED  BY <1>2, <1>3, <1>4

\* What the registers hold is no None.
Numbered(q) ==
  /\ {q.base, q.y, q.u, q.v, q.moved.y, q.moved.uv} \subseteq Int

LEMMA ReportedNumbered ==
  ASSUME NEW d \in Drivers, NEW m \in Movies, NEW asked \in Asked, NEW told \in Nat,
         NEW win \in Windows, m.fourcc \in Supported(d), Accepts(d, m, asked)
  PROVE  Numbered(Reported(d, LayoutOf(d, m, asked, told), m, asked, told, win))
<1> DEFINE p == LayoutOf(d, m, asked, told)
           q == Reported(d, p, m, asked, told, win)
           by == IF d = "sis" THEN SisMoved(m, win) ELSE Moved(0, 0)
<1>1. p.u \in Int /\ p.v \in Int
  BY OffsetsTyped
<1>2. Placed(d, q)
  BY ReportedPlaced
<1> HIDE DEF p
<1>3. q.u = p.u + by.uv /\ q.v = p.v + by.uv /\ q.moved = MovedBy(d, m, win)
  BY DEF Reported
<1>4. by.uv \in Int
  <2>1. CASE d = "sis" /\ m.fourcc \in Planar
    BY <2>1, SisMovedOn
  <2>2. CASE d = "sis" /\ m.fourcc \notin Planar
    BY <2>2 DEF SisMoved, Moved
  <2>3. CASE d # "sis"
    BY <2>3 DEF Moved
  <2> QED  BY <2>1, <2>2, <2>3
<1>5. q.moved.y \in Int /\ q.moved.uv \in Int
  BY <1>3, MovedTyped
<1> HIDE DEF q, by
<1>6. q.u \in Int /\ q.v \in Int
  BY <1>1, <1>3, <1>4
<1>7. q.base \in Int /\ q.y \in Int
  BY <1>2 DEF Placed
<1>8. Numbered(q)
  BY <1>5, <1>6, <1>7 DEF Numbered
<1> QED  BY <1>8 DEF q, p

LEMMA RegistersTyped ==
  ASSUME NEW d, NEW q, Numbered(q), NEW frame \in Int
  PROVE  Registers(d, q, frame) # None
<1>1. \A a \in Int : Written(d, a) \in Int
  <2> TAKE a \in Int
  <2>1. Unit(d) \in Nat \ {0}
    BY UnitKnown DEF Units
  <2> QED  BY <2>1, DownBelow DEF Written
<1>2. \A a, b, c \in Int : a + b + c \in Int
  OBVIOUS
<1>3. Registers(d, q, frame) \in [y : Int, u : Int, v : Int]
  <2>1. /\ frame + q.y + q.moved.y \in Int
        /\ frame + q.u + q.moved.uv \in Int /\ frame + q.v + q.moved.uv \in Int
    BY <1>2 DEF Numbered
  <2> QED  BY <1>1, <2>1 DEF Registers
<1> QED  BY <1>3, NoneAssumption

-----------------------------------------------------------------------------
(***************************************************************************)
(* The invariant. What vixConfigPlayback told is a layout as above; the    *)
(* table of frames holds this movie's, with those of earlier ones behind;  *)
(* what the card reads from is a frame of this movie from the call on that *)
(* programs it, vixConfigPlayback or vixPlaybackOn; and a single frame,    *)
(* which is never selected, is where the overlay started.                  *)
(***************************************************************************)

SizeKnown == play # None => play.size \in Nat

\* What vixConfigPlayback told the program is a layout the card can be pointed at; the ATI
\* drivers count what was asked for.
LaidOut ==
  play # None =>
    /\ Placed(driver, play) /\ Numbered(play)
    /\ driver \in Ati => play.num <= play.asked

\* The table has the frames of this movie, whatever lies behind them.
TableInv ==
  /\ DOMAIN frames = 0..MaxFrames - 1
  /\ play # None /\ driver \in Tabled =>
       \A i \in 0..MaxFrames - 1 : i < play.num => frames[i] = play.base + i * play.size

\* A frame is selected while the overlay is on, and the nVidia driver knows its number.
OnInv ==
  /\ cur \in 0..MaxFrames - 1
  /\ on \in BOOLEAN
  /\ on => play # None
  /\ on = FALSE => selected = None

\* These point the card at a frame when the overlay is enabled, the others before.
Late == Ati \cup {"savage", "s3", "nvidia"}

ToldInv ==
  play # None /\ (on = TRUE \/ driver \notin Late) /\ shown # None /\ play.num > 0 /\ ~Outlived =>
    \E i \in 0..play.num - 1 :
      shown.y = Written(driver, play.base + i * play.size + play.y + play.moved.y)

\* A single frame is never selected, it is where the overlay started.
FirstInv == on = TRUE /\ play # None /\ Single => shown = Registers(driver, play, play.base)

IInv ==
  /\ driver \in Drivers
  /\ SizeKnown /\ LaidOut /\ TableInv /\ OnInv
  /\ ToldInv /\ FirstInv /\ ShownIsSelected
  /\ FramesInside /\ ProgramFits

LEMMA InitInv == Init => IInv
<1> SUFFICES ASSUME Init PROVE IInv
  OBVIOUS
<1>1. 0 \in 0..MaxFrames - 1
  BY BoundAssumption
<1> QED
  BY <1>1 DEF Init, IInv, SizeKnown, LaidOut, TableInv, OnInv, ToldInv, FirstInv,
              ShownIsSelected, FramesInside, ProgramFits, LineAgrees, PlanesFit

\* A frame's address is that of its place in the memory set aside.
LEMMA FrameIsAt ==
  ASSUME IInv, play # None, NEW i \in 0..MaxFrames - 1, i < play.num,
         driver = "mga" => i < 4
  PROVE  FrameAddress(i) = play.base + i * play.size
<1>1. CASE driver \in Tabled
  <2>1. FrameAddress(i) = frames[i]
    BY <1>1 DEF FrameAddress, Tabled
  <2> QED  BY <1>1, <2>1 DEF IInv, TableInv
<1>2. CASE driver = "mga"
  <2>1. i % 4 = i
    <3>1. i \in Nat /\ i < 4
      BY <1>2, BoundAssumption
    <3> QED  BY <3>1, SMT
  <2>2. FrameAddress(i) = play.base + (i % 4) * play.size
    BY <1>2 DEF FrameAddress, Tabled
  <2> QED  BY <2>1, <2>2
<1>3. CASE driver \notin Tabled /\ driver # "mga"
  BY <1>3 DEF FrameAddress
<1> QED  BY <1>1, <1>2, <1>3

\* It is that of a frame of the movie, for every number.
LEMMA FrameIsSome ==
  ASSUME IInv, play # None, NEW i \in 0..MaxFrames - 1, i < play.num
  PROVE  \E k \in 0..play.num - 1 : FrameAddress(i) = play.base + k * play.size
<1>1. play.num \in Int /\ MaxFrames \in Nat
  BY BoundAssumption DEF IInv, LaidOut, Placed
<1>2. i \in 0..play.num - 1
  BY <1>1
<1>3. CASE driver = "mga"
  <2>1. i % 4 \in 0..play.num - 1
    <3>1. i \in Nat
      BY <1>1
    <3>2. i % 4 \in Nat /\ i % 4 <= i
      BY <3>1, SMT
    <3> DEFINE r == i % 4
    <3>3. r \in Nat /\ r <= i
      BY <3>2
    <3> HIDE DEF r
    <3>4. r \in 0..play.num - 1
      BY <1>1, <1>2, <3>3
    <3> QED  BY <3>4 DEF r
  <2>2. FrameAddress(i) = play.base + (i % 4) * play.size
    BY <1>3 DEF FrameAddress, Tabled
  <2> QED  BY <2>1, <2>2
<1>4. CASE driver # "mga"
  <2>1. FrameAddress(i) = play.base + i * play.size
    BY <1>4, FrameIsAt
  <2> QED  BY <1>2, <2>1
<1> QED  BY <1>3, <1>4

\* The card is pointed at a frame of the movie.
LEMMA ShowTold ==
  ASSUME play' # None, NEW frame, shown' = Registers(driver', play', frame),
         NEW k \in 0..play'.num - 1, frame = play'.base + k * play'.size
  PROVE  ToldInv'
<1>1. shown'.y = Written(driver', play'.base + k * play'.size + play'.y + play'.moved.y)
  BY DEF Registers
<1> QED  BY <1>1 DEF ToldInv

\* The registers say where the program writes.
LEMMA ShowVisible ==
  ASSUME IInv, play # None, ~Unfollowed', UNCHANGED <<driver, play>>, NEW i \in Int,
         shown' = Registers(driver, play, play.base + i * play.size)
  PROVE  Visible(play.base + i * play.size)'
<1> DEFINE frame == play.base + i * play.size
<1>1. Placed(driver, play) /\ Numbered(play)
  BY DEF IInv, LaidOut
<1>2. frame \in Int
  <2>1. play.base \in Int /\ play.size \in Nat
    BY <1>1 DEF Placed
  <2> QED  BY <2>1
<1>3. shown' # None
  <2> HIDE DEF frame
  <2>1. Registers(driver, play, frame) # None
    BY <1>1, <1>2, RegistersTyped
  <2> QED  BY <2>1 DEF frame
<1>4. driver = "cyberblade" => play.u % 8 = 0
  BY DEF Unfollowed
<1>5. /\ shown'.y = frame + play.y + play.moved.y
      /\ play.movie.fourcc \in Planar =>
           shown'.u = frame + play.u + play.moved.uv /\ shown'.v = frame + play.v + play.moved.uv
  BY <1>1, <1>4, RegistersHold
<1>6. frame' = frame /\ play' = play
  OBVIOUS
<1> HIDE DEF frame
<1>7. Visible(frame)'
  BY <1>3, <1>5, <1>6 DEF Visible
<1> QED  BY <1>7 DEF frame

-----------------------------------------------------------------------------
(***************************************************************************)
(* The steps.                                                              *)
(***************************************************************************)

LEMMA ConfigStep ==
  ASSUME IInv, NEW m \in Movies, NEW asked \in Asked, NEW told \in Told, NEW win \in Windows,
         NEW mode, ConfigPlayback(m, asked, told, win, mode)
  PROVE  IInv'
<1> DEFINE p == LayoutOf(driver, m, asked, told)
           q == Reported(driver, p, m, asked, told, win)
<1>1. /\ driver \in Drivers /\ driver' = driver
      /\ m.fourcc \in Supported(driver) /\ Accepts(driver, m, asked)
  BY DEF IInv, ConfigPlayback
<1>2. told \in Nat
  BY DEF Told, IInv, SizeKnown
<1>3. play' = q /\ FillTable(q) /\ (~Overruns(q) => ShowFirst(q))
  BY DEF ConfigPlayback
<1>4. on = FALSE /\ on' = FALSE /\ cur' = cur /\ selected' = selected
  BY DEF ConfigPlayback, IInv, OnInv
<1>5. Placed(driver, q) /\ Numbered(q)
  BY <1>1, <1>2, ReportedPlaced, ReportedNumbered
<1>6. p.size \in Nat /\ ((driver = "mga" => told >= p.size) => Room(p, Mapped(driver, p)))
  BY <1>1, <1>2, SizeIsNat, LayoutRoom
<1>7. ~CoarseOf(driver, m) => Holds(p, m)
  BY <1>1, LayoutHolds
<1>8. driver \in Ati => p.num <= asked
  <2>1. CASE driver = "mach64"
    <3>1. p = Mach64(m, asked)
      BY <2>1 DEF LayoutOf
    <3> QED  BY <3>1, Mach64On
  <2>2. CASE driver = "radeon"
    <3>1. p = Radeon(m, asked)
      BY <2>2 DEF LayoutOf
    <3> QED  BY <3>1, RadeonOn
  <2>3. CASE driver = "radeonhd"
    <3>1. p = RadeonHd(m, asked)
      BY <2>3 DEF LayoutOf
    <3> QED  BY <3>1, RadeonHdOn
  <2> QED  BY <2>1, <2>2, <2>3 DEF Ati
<1> HIDE DEF p
<1>9. /\ q.base = p.base /\ q.num = p.num /\ q.size = p.size /\ q.told = told
      /\ q.asked = asked /\ q.movie = m
  BY DEF Reported
<1>10. Mapped(driver, p) = Mapped(driver, q)
  <2> HIDE DEF q
  <2> QED  BY <1>9 DEF Mapped
<1>11. ~CoarseOf(driver, m) => Holds(q, m)
  <2>1. ASSUME driver # "sis" PROVE q.y = p.y + 0 /\ q.u = p.u + 0 /\ q.v = p.v + 0
    BY <2>1 DEF Reported, Moved
  <2>2. q.line = p.line /\ q.align = p.align /\ q.size = p.size
    BY DEF Reported
  <2> HIDE DEF q
  <2> SUFFICES ASSUME ~CoarseOf(driver, m) PROVE Holds(q, m)
    OBVIOUS
  <2>3. Holds(p, m)
    BY <1>7
  <2>4. driver # "sis"
    BY DEF CoarseOf
  <2>5. /\ q.y = p.y
        /\ m.fourcc \in Planar => q.u = p.u /\ q.v = p.v
    <3>1. p.y = 0
      BY <2>3 DEF Holds
    <3>2. m.fourcc \in Planar => p.u \in Nat /\ p.v \in Nat
      BY <2>3 DEF Holds
    <3>3. \A x \in Nat : x + 0 = x
      OBVIOUS
    <3> QED  BY <2>1, <2>4, <3>1, <3>2, <3>3
  <2>6. ChromaPlane(q, m) = ChromaPlane(p, m)
    BY <2>2 DEF ChromaPlane
  <2> QED  BY <2>2, <2>3, <2>5, <2>6 DEF Holds
<1> HIDE DEF q
<1>12. SizeKnown'
  BY <1>3, <1>6, <1>9 DEF SizeKnown
<1>13. LaidOut'
  BY <1>1, <1>3, <1>5, <1>8, <1>9 DEF LaidOut
<1>14. TableInv'
  <2>1. DOMAIN frames = 0..MaxFrames - 1
    BY DEF IInv, TableInv
  <2>2. frames' = IF driver \notin Tabled THEN frames
                  ELSE [i \in DOMAIN frames |->
                          IF i < q.num THEN q.base + i * q.size ELSE frames[i]]
    BY <1>3 DEF FillTable
  <2> QED  BY <1>1, <1>3, <2>1, <2>2, Zenon DEF TableInv
<1>15. OnInv'
  BY <1>4 DEF OnInv, IInv
<1>16. ToldInv'
  <2> SUFFICES ASSUME driver \notin Late, play' # None, shown' # None, play'.num > 0
               PROVE  ToldInv'
    BY <1>1, <1>4 DEF ToldInv
  <2>0. ShowFirst(q)
    BY <1>3 DEF Overruns, Late, Ati
  <2>1. q.num \in Int /\ q.base \in Int /\ q.size \in Nat
    BY <1>5 DEF Placed
  <2>2. 0 \in 0..q.num - 1 /\ q.base = q.base + 0 * q.size
    BY <1>3, <2>1
  <2>3. shown' = Registers(driver, q, q.base)
    <3>1. CASE driver \in {"cyberblade", "pm3", "mga"}
      BY <2>0, <3>1 DEF ShowFirst
    <3>2. CASE driver \in {"sis", "unichrome"}
      <4>1. shown' = Registers(driver, q, frames'[0])
        BY <2>0, <3>2 DEF ShowFirst
      <4>2. frames'[0] = q.base + 0 * q.size
        <5>1. 0 \in 0..MaxFrames - 1 /\ 0 < q.num
          BY <1>3, BoundAssumption
        <5>2. driver' \in Tabled
          BY <1>1, <3>2 DEF Tabled
        <5> QED  BY <1>3, <1>14, <5>1, <5>2 DEF TableInv
      <4> QED  BY <2>2, <4>1, <4>2
    <3>3. CASE driver \in Copying
      <4>1. shown' = None
        BY <2>0, <3>3 DEF ShowFirst, Copying
      <4> QED  BY <4>1
    <3>4. driver \in AllDrivers
      BY <1>1, DriverAssumption
    <3> QED  BY <3>1, <3>2, <3>3, <3>4 DEF AllDrivers, Late, Copying
  <2> QED  BY <1>1, <1>3, <2>2, <2>3, ShowTold
<1>17. FirstInv' /\ ShownIsSelected'
  BY <1>4 DEF FirstInv, ShownIsSelected
<1>18. FramesInside'
  BY <1>1, <1>3, <1>6, <1>9, <1>10 DEF FramesInside, Foretold, Room
<1>19. ProgramFits'
  <2>1. ~Coarse' => ~CoarseOf(driver, m)
    BY <1>1, <1>3, <1>9 DEF Coarse, CoarseOf
  <2> QED  BY <1>3, <1>9, <1>11, <2>1, HoldsFits
<1> QED
  BY <1>1, <1>12, <1>13, <1>14, <1>15, <1>16, <1>17, <1>18, <1>19 DEF IInv

LEMMA RefusedStep ==
  ASSUME IInv, NEW m, NEW asked, ConfigRefused(m, asked) PROVE IInv'
<1>1. play' = None /\ UNCHANGED <<driver, frames, cur, shown, on, selected>> /\ ~on
  BY DEF ConfigRefused
<1> QED
  BY <1>1 DEF IInv, SizeKnown, LaidOut, TableInv, OnInv, ToldInv, FirstInv, ShownIsSelected,
              FramesInside, ProgramFits, LineAgrees, PlanesFit

\* What is said of a movie that is configured stays true until the next one.
LEMMA MovieKept ==
  ASSUME IInv, UNCHANGED <<driver, play, frames>>
  PROVE  /\ driver' \in Drivers
         /\ SizeKnown' /\ LaidOut' /\ TableInv' /\ FramesInside' /\ ProgramFits'
<1>1. driver' \in Drivers /\ SizeKnown' /\ LaidOut'
  BY DEF IInv, SizeKnown, LaidOut
<1>2. TableInv'
  BY DEF IInv, TableInv
<1>3. FramesInside'
  BY DEF IInv, FramesInside, Foretold
<1>4. ProgramFits'
  <2>1. Coarse' <=> Coarse
    BY DEF Coarse
  <2>2. ProgramLine' = ProgramLine
    BY DEF ProgramLine
  <2>3. ProgramPlanes' = ProgramPlanes
    BY <2>2 DEF ProgramPlanes
  <2> QED  BY <2>1, <2>2, <2>3 DEF IInv, ProgramFits, LineAgrees, PlanesFit
<1> QED  BY <1>1, <1>2, <1>3, <1>4

\* Selecting a frame, or showing the one that was selected last.
LEMMA OnStep ==
  ASSUME IInv, PlaybackOn PROVE IInv'
<1>1. /\ on = FALSE /\ on' = TRUE /\ play # None /\ selected' = selected
      /\ UNCHANGED <<driver, play, frames, cur>>
  BY DEF PlaybackOn, IInv, OnInv
<1>2. /\ driver' \in Drivers
      /\ SizeKnown' /\ LaidOut' /\ TableInv' /\ FramesInside' /\ ProgramFits'
  BY <1>1, MovieKept
<1>3. selected = None
  BY <1>1 DEF IInv, OnInv
<1>4. OnInv'
  BY <1>1, <1>3 DEF OnInv, IInv
<1>5. ShownIsSelected'
  BY <1>1, <1>3 DEF ShownIsSelected
<1>6. CASE driver \in Ati \cup {"savage", "s3"}
  <2>1. shown' = Registers(driver, play, FrameAddress(0))
    BY <1>6, Zenon DEF PlaybackOn, Show, Ati
  <2>4. play.num \in Int /\ play.base + 0 * play.size = play.base
    BY <1>1 DEF IInv, LaidOut, Placed
  <2>5. driver # "mga" /\ (driver \in Tabled => driver = "mach64")
    BY <1>6 DEF Ati, Tabled
  <2>6. ASSUME driver = "mach64" => play.num > 0
        PROVE  FrameAddress(0) = play.base
    <3>1. CASE driver = "mach64"
      <4>1. 0 \in 0..MaxFrames - 1 /\ 0 < play.num
        BY <2>4, <2>6, <3>1, BoundAssumption
      <4> QED  BY <1>1, <2>4, <2>5, <4>1, FrameIsAt
    <3>2. CASE driver # "mach64"
      BY <2>4, <2>5, <3>2 DEF FrameAddress
    <3> QED  BY <3>1, <3>2
  <2>2. FirstInv'
    <3>1. SUFFICES ASSUME Single PROVE shown' = Registers(driver, play, play.base)
      BY <1>1 DEF FirstInv, Single
    <3>2. driver = "mach64" => play.num > 0
      BY <3>1 DEF Single
    <3> QED  BY <2>1, <2>6, <3>2
  <2>3. ToldInv'
    <3>1. SUFFICES ASSUME play.num > 0 PROVE ToldInv'
      BY <1>1 DEF ToldInv
    <3>2. FrameAddress(0) = play.base + 0 * play.size
      BY <2>4, <2>6, <3>1
    <3>3. 0 \in 0..play.num - 1
      BY <2>4, <3>1
    <3> QED  BY <1>1, <2>1, <3>2, <3>3, ShowTold
  <2> QED  BY <1>1, <1>2, <1>4, <1>5, <2>2, <2>3 DEF IInv
<1>7. CASE driver \notin Ati \cup {"savage", "s3"}
  <2>1. FirstInv'
    BY <1>1, <1>7 DEF FirstInv, Single, Ati
  <2>2. ToldInv'
    <3>1. CASE driver = "nvidia"
      <4>1. shown' = Registers(driver, play, FrameAddress(cur))
        BY <1>7, <3>1 DEF PlaybackOn, Show
      <4>2. SUFFICES ASSUME cur < play.num PROVE ToldInv'
        <5>1. play.num \in Int /\ cur \in Int
          BY <1>1, BoundAssumption DEF IInv, OnInv, LaidOut, Placed
        <5> QED  BY <1>1, <3>1, <5>1 DEF ToldInv, Outlived
      <4>3. cur \in 0..MaxFrames - 1
        BY DEF IInv, OnInv
      <4>4. PICK k \in 0..play.num - 1 : FrameAddress(cur) = play.base + k * play.size
        BY <1>1, <4>2, <4>3, FrameIsSome
      <4> QED  BY <1>1, <4>1, <4>4, ShowTold
    <3>2. CASE driver # "nvidia"
      <4>1. shown' = shown
        BY <1>7, <3>2 DEF PlaybackOn
      <4>2. driver \notin Late
        BY <1>7, <3>2 DEF Late
      <4>3. ~Outlived
        BY <3>2 DEF Outlived
      <4> QED  BY <1>1, <4>1, <4>2, <4>3 DEF ToldInv, IInv
    <3> QED  BY <3>1, <3>2
  <2> QED  BY <1>1, <1>2, <1>4, <1>5, <2>1, <2>2 DEF IInv
<1> QED  BY <1>6, <1>7

LEMMA OffStep ==
  ASSUME IInv, PlaybackOff PROVE IInv'
<1>1. /\ on' = FALSE /\ on = TRUE /\ selected' = None
      /\ UNCHANGED <<driver, play, frames, cur, shown>>
  BY DEF PlaybackOff, IInv, OnInv
<1>2. /\ driver' \in Drivers
      /\ SizeKnown' /\ LaidOut' /\ TableInv' /\ FramesInside' /\ ProgramFits'
  BY <1>1, MovieKept
<1>3. OnInv' /\ FirstInv' /\ ShownIsSelected'
  BY <1>1 DEF OnInv, IInv, FirstInv, ShownIsSelected
<1>4. ToldInv'
  BY <1>1 DEF ToldInv, Outlived, IInv
<1> QED  BY <1>2, <1>3, <1>4 DEF IInv

LEMMA SelectStep ==
  ASSUME IInv, NEW i \in 0..MaxFrames - 1, PlaybackFrameSelect(i) PROVE IInv'
<1>1. /\ on = TRUE /\ on' = TRUE /\ play # None /\ i < play.num /\ selected' = i
      /\ UNCHANGED <<driver, play, frames>>
      /\ cur' = IF driver = "nvidia" THEN i ELSE cur
  BY DEF PlaybackFrameSelect, IInv, OnInv
<1>2. /\ driver' \in Drivers
      /\ SizeKnown' /\ LaidOut' /\ TableInv' /\ FramesInside' /\ ProgramFits'
  BY <1>1, MovieKept
<1>3. OnInv'
  BY <1>1 DEF OnInv, IInv
<1>4. play.num \in Int /\ play.base \in Int /\ play.size \in Nat /\ i \in Nat
  BY <1>1, BoundAssumption DEF IInv, LaidOut, Placed
<1>5. CASE Single
  <2>1. shown' = shown /\ shown = Registers(driver, play, play.base)
    BY <1>1, <1>5 DEF PlaybackFrameSelect, FirstInv, IInv
  <2>2. i = 0
    <3>1. play.num = 1 \/ (driver \in Ati /\ play.asked = 1)
      BY <1>5 DEF Single, Ati
    <3>2. play.num <= 1
      BY <1>1, <1>4, <3>1 DEF IInv, LaidOut
    <3> QED  BY <1>1, <1>4, <3>2
  <2>3. FirstInv'
    BY <1>1, <2>1 DEF FirstInv
  <2>4. play.base + i * play.size = play.base /\ 0 \in 0..play.num - 1
    BY <1>1, <1>4, <2>2
  <2>5. ToldInv'
    BY <1>1, <2>1, <2>2, <2>4, ShowTold
  <2>6. ShownIsSelected'
    BY <1>1, <1>4, <2>1, <2>4, ShowVisible DEF ShownIsSelected
  <2> QED  BY <1>2, <1>3, <2>3, <2>5, <2>6 DEF IInv
<1>6. CASE ~Single
  <2>1. shown' = Registers(driver, play, FrameAddress(i))
    BY <1>6 DEF PlaybackFrameSelect, Show
  <2>2. FirstInv'
    BY <1>1, <1>6 DEF FirstInv, Single
  <2>3. ToldInv'
    <3>1. PICK k \in 0..play.num - 1 : FrameAddress(i) = play.base + k * play.size
      BY <1>1, FrameIsSome
    <3> QED  BY <1>1, <2>1, <3>1, ShowTold
  <2>4. ShownIsSelected'
    <3>1. SUFFICES ASSUME ~Unfollowed' PROVE Visible(play.base + i * play.size)'
      BY <1>1 DEF ShownIsSelected
    <3>2. driver = "mga" => i < 4
      BY <1>1, <1>4, <3>1 DEF Unfollowed
    <3>3. FrameAddress(i) = play.base + i * play.size
      BY <1>1, <3>2, FrameIsAt
    <3> QED  BY <1>1, <1>4, <2>1, <3>1, <3>3, ShowVisible
  <2> QED  BY <1>2, <1>3, <2>2, <2>3, <2>4 DEF IInv
<1> QED  BY <1>5, <1>6

LEMMA KeysStep ==
  ASSUME IInv, SetGrKeys PROVE IInv'
<1>1. /\ on = TRUE /\ on' = TRUE /\ play # None /\ UNCHANGED <<driver, play, frames, cur, selected>>
  BY DEF SetGrKeys, IInv, OnInv
<1>2. /\ driver' \in Drivers
      /\ SizeKnown' /\ LaidOut' /\ TableInv' /\ FramesInside' /\ ProgramFits'
  BY <1>1, MovieKept
<1>3. OnInv'
  BY <1>1 DEF OnInv, IInv
<1>4. CASE driver = "nvidia"
  <2>1. shown' = Registers(driver, play, FrameAddress(0))
    BY <1>4 DEF SetGrKeys, Show
  <2>2. FirstInv'
    BY <1>1, <1>4 DEF FirstInv, Single
  <2>3. ToldInv'
    <3>1. SUFFICES ASSUME play.num > 0 PROVE ToldInv'
      BY <1>1 DEF ToldInv
    <3>2. 0 \in 0..MaxFrames - 1 /\ 0 < play.num
      BY <3>1, <1>1, BoundAssumption DEF IInv, LaidOut, Placed
    <3>3. PICK k \in 0..play.num - 1 : FrameAddress(0) = play.base + k * play.size
      BY <1>1, <3>2, FrameIsSome
    <3> QED  BY <1>1, <2>1, <3>3, ShowTold
  <2>4. ShownIsSelected'
    BY <1>1, <1>4 DEF ShownIsSelected, Unfollowed
  <2> QED  BY <1>2, <1>3, <2>2, <2>3, <2>4 DEF IInv
<1>5. CASE driver # "nvidia"
  <2>1. shown' = shown
    BY <1>5 DEF SetGrKeys
  <2>2. FirstInv' /\ ToldInv'
    BY <1>1, <2>1 DEF FirstInv, Single, ToldInv, Outlived, IInv
  <2>3. ShownIsSelected'
    BY <1>1, <2>1 DEF ShownIsSelected, Unfollowed, Visible, IInv
  <2> QED  BY <1>2, <1>3, <2>2, <2>3 DEF IInv
<1> QED  BY <1>4, <1>5

LEMMA StepInv == IInv /\ [Next]_vars => IInv'
<1> SUFFICES ASSUME IInv, [Next]_vars PROVE IInv'
  OBVIOUS
<1>1. ASSUME NEW m \in Movies, NEW asked \in Asked, NEW told \in Told, NEW win \in Windows,
             NEW mode \in Modes, ConfigPlayback(m, asked, told, win, mode)
      PROVE  IInv'
  BY <1>1, ConfigStep
<1>2. ASSUME NEW m \in Movies, NEW asked \in Asked, ConfigRefused(m, asked) PROVE IInv'
  BY <1>2, RefusedStep
<1>3. CASE PlaybackOn
  BY <1>3, OnStep
<1>4. CASE PlaybackOff
  BY <1>4, OffStep
<1>5. ASSUME NEW i \in 0..MaxFrames - 1, PlaybackFrameSelect(i) PROVE IInv'
  BY <1>5, SelectStep
<1>6. CASE SetGrKeys
  BY <1>6, KeysStep
<1>7. CASE UNCHANGED vars \/ Adrift
  <2>1. UNCHANGED <<driver, play, frames, cur, shown, on, selected>>
    BY <1>7 DEF vars, Adrift
  <2>2. /\ driver' \in Drivers
        /\ SizeKnown' /\ LaidOut' /\ TableInv' /\ FramesInside' /\ ProgramFits'
    BY <2>1, MovieKept
  <2>3. OnInv' /\ FirstInv' /\ ToldInv'
    BY <2>1 DEF OnInv, FirstInv, Single, ToldInv, Outlived, IInv
  <2>4. ShownIsSelected'
    BY <2>1 DEF ShownIsSelected, Unfollowed, Visible, IInv
  <2> QED  BY <2>2, <2>3, <2>4 DEF IInv
<1> QED
  BY <1>1, <1>2, <1>3, <1>4, <1>5, <1>6, <1>7 DEF Next

LEMMA Invariant == Spec => []IInv
BY InitInv, StepInv, PTL DEF Spec

-----------------------------------------------------------------------------
\* The frames vixConfigPlayback reports lie in the memory the driver mapped, whatever the
\* movie, its window and the memory of the card (the base and num_frames of every driver).
THEOREM FramesCorrect == Spec => []FramesInside
<1>1. IInv => FramesInside
  BY DEF IInv
<1> QED  BY <1>1, Invariant, PTL

\* The dest.pitch and offsets a driver reports put every line and plane the program writes
\* where the card, as vixConfigPlayback programs it, reads them.
THEOREM FitsCorrect == Spec => []ProgramFits
<1>1. IInv => ProgramFits
  BY DEF IInv
<1> QED  BY <1>1, Invariant, PTL

\* The card shows a frame of the movie that is configured, and the one that was selected by
\* vixPlaybackFrameSelect at the very addresses the program writes it to. A movie of more
\* frames than mach64_buffer_base has entries is never shown here (Overruns).
THEOREM ShownCorrect == Spec => []ShownFollows
<1>1. IInv => ShownFollows
  <2>1. ASSUME IInv PROVE ShownIsTold
    <3>1. on => on = TRUE /\ play # None
      BY <2>1 DEF IInv, OnInv
    <3> QED  BY <2>1, <3>1 DEF IInv, ToldInv, ShownIsTold
  <2>2. ASSUME IInv PROVE ShownIsSelected
    BY <2>2 DEF IInv
  <2> QED  BY <2>1, <2>2 DEF ShownFollows
<1> QED  BY <1>1, Invariant, PTL

=============================================================================
