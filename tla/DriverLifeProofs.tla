-------------------------- MODULE DriverLifeProofs --------------------------
(***************************************************************************)
(* Theorems about DriverLife, for any number of descriptors, any systems   *)
(* and any drivers of this repository that a program may use on them.      *)
(*                                                                         *)
(* What each call of libdha may leave comes first.  A handler is a script: *)
(* a lemma about its calls (Unrolled, by induction on their number) turns  *)
(* what holds from call to call into what holds when it returns, and each  *)
(* driver's scripts are then read once for what they ask.  Three           *)
(* invariants build on each other: SoundInv, that the library's variables  *)
(* name its own descriptors, LifeInv, that every open driver has what its  *)
(* handlers take for granted and the counters of libdha count what is      *)
(* there, and ClearInv, that bus mastering and interrupts are held by open *)
(* drivers only.                                                           *)
(***************************************************************************)
EXTENDS DriverLifeInvariant, WellFoundedInduction, FiniteSetTheorems, TLAPS

USE FdsAssumption, WidthAssumption, WorksAssumption

\* What the system lets happen.
LEMMA TryDo ==
  ASSUME NEW p \in Processes, NEW c \in Calls, NEW q \in Try(p, c)
  PROVE  \E b \in Works[p.world][c] : q = [p EXCEPT !.ok = b]
  BY DEF Try

\* The least of a set of numbers, and open, which returns the least free descriptor.
LEMMA LeastMember ==
  ASSUME NEW S, S \subseteq Nat, S # {}
  PROVE  \E x \in S : \A y \in S : x <= y
  <1>1. PICK x \in S : \A y \in S : ~(<<y, x>> \in OpToRel(<, Nat))
    BY NatLessThanWellFounded, WFMin
  <1>2. \A y \in S : ~(y < x)
    BY <1>1 DEF OpToRel
  <1>3. \A y \in S : y \in Nat /\ x \in Nat
    OBVIOUS
  <1>4. QED
    BY <1>2, <1>3, SMT

LEMMA MinIn ==
  ASSUME NEW S, S \subseteq Nat, S # {}
  PROVE  Min(S) \in S
  <1>1. \E x \in S : \A y \in S : x <= y
    BY LeastMember
  <1>2. QED
    BY <1>1 DEF Min

LEMMA OpenDo ==
  ASSUME NEW p \in Processes, NEW c \in Calls, NEW u \in Users, NEW o \in Open(p, c, u)
  PROVE  \/ /\ TRUE \in Works[p.world][c]
            /\ o.fd \in Fds /\ p.owner[o.fd] = "none"
            /\ o.p = [p EXCEPT !.ok = TRUE, !.owner[o.fd] = u]
         \/ /\ FreeFds(p) = {} \/ FALSE \in Works[p.world][c]
            /\ o.fd = NoFd /\ o.p = [p EXCEPT !.ok = FALSE]
  <1>1. PICK q \in Try(p, c) :
          o = IF q.ok /\ FreeFds(p) # {}
              THEN [fd |-> Min(FreeFds(p)), p |-> [q EXCEPT !.owner[Min(FreeFds(p))] = u]]
              ELSE [fd |-> NoFd, p |-> Fails(q)]
    BY DEF Open
  <1>2. PICK b \in Works[p.world][c] : q = [p EXCEPT !.ok = b]
    BY TryDo
  <1>3. b \in BOOLEAN /\ q.ok = b
    BY <1>2 DEF Processes
  <1>4. CASE b = TRUE /\ FreeFds(p) # {}
    <2>1. Min(FreeFds(p)) \in FreeFds(p)
      BY <1>4, MinIn DEF FreeFds
    <2> DEFINE m == Min(FreeFds(p))
    <2>2. o.fd = m /\ o.p = [q EXCEPT !.owner[m] = u]
      BY <1>1, <1>3, <1>4
    <2>3. m \in Fds /\ p.owner[m] = "none"
      BY <2>1 DEF FreeFds
    <2> HIDE DEF m
    <2>4. [q EXCEPT !.owner[m] = u] = [p EXCEPT !.ok = TRUE, !.owner[m] = u]
      BY <1>2, <1>4 DEF Processes
    <2>5. QED
      BY <1>4, <2>2, <2>3, <2>4
  <1>5. CASE ~(b = TRUE /\ FreeFds(p) # {})
    <2>1. o.fd = NoFd /\ o.p = Fails(q)
      BY <1>1, <1>3, <1>5
    <2>2. Fails(q) = [p EXCEPT !.ok = FALSE]
      BY <1>2 DEF Processes, Fails
    <2>3. QED
      BY <1>3, <1>5, <2>1, <2>2
  <1>6. QED
    BY <1>4, <1>5

\* enable_app_io
LEMMA EnableDo ==
  ASSUME NEW p \in Processes, NEW q \in enable_app_io(p)
  PROVE  \/ \E f \in Fds :
              /\ p.owner[f] = "none" /\ TRUE \in Works[p.world]["helper"]
              /\ q = Enabled(p, f)
         \/ /\ NoHelperFor(p)
            /\ \E b \in Works[p.world]["iopl"] : q = Refused(p, b)
  <1> DEFINE Set(o) == [o.p EXCEPT !.ioFd = o.fd]
  <1>1. PICK o \in Open(p, "helper", "io") :
          q \in IF Set(o).ok THEN {[Set(o) EXCEPT !.ioCount = Up(@)]}
                ELSE {[r EXCEPT !.iopl = r.ok \/ @] : r \in Try(Set(o), "iopl")}
    BY Zenon DEF enable_app_io
  <1>2. \/ /\ TRUE \in Works[p.world]["helper"]
           /\ o.fd \in Fds /\ p.owner[o.fd] = "none"
           /\ o.p = [p EXCEPT !.ok = TRUE, !.owner[o.fd] = "io"]
        \/ /\ NoHelperFor(p)
           /\ o.fd = NoFd /\ o.p = [p EXCEPT !.ok = FALSE]
    <2>1. "helper" \in Calls /\ "io" \in Users
      BY DEF Calls, Users
    <2> HIDE DEF Set
    <2>2. QED
      BY <1>1, <2>1, OpenDo DEF NoHelperFor
  <1>3. CASE o.fd \in Fds /\ o.p = [p EXCEPT !.ok = TRUE, !.owner[o.fd] = "io"]
    <2>1. Set(o) = [p EXCEPT !.ok = TRUE, !.owner[o.fd] = "io", !.ioFd = o.fd]
      BY <1>3 DEF Processes
    <2>2. Set(o).ok = TRUE
      BY <2>1 DEF Processes
    <2>3. q = [Set(o) EXCEPT !.ioCount = Up(Set(o).ioCount)]
      BY <1>1, <2>2
    <2>4. q = Enabled(p, o.fd)
      <3> HIDE DEF Set
      <3> QED BY <2>1, <2>3 DEF Processes, Enabled
    <2>5. o.fd # NoFd
      BY <1>3 DEF NoFd
    <2>6. QED
      BY <1>2, <1>3, <2>4, <2>5
  <1>4. CASE o.fd = NoFd /\ o.p = [p EXCEPT !.ok = FALSE]
    <2>1. Set(o) = [p EXCEPT !.ok = FALSE, !.ioFd = NoFd]
      BY <1>4 DEF Processes
    <2>2. ~Set(o).ok /\ Set(o).world = p.world /\ Set(o) \in Processes
      <3> HIDE DEF Set
      <3> QED BY <2>1 DEF Processes
    <2> HIDE DEF Set
    <2>3. PICK r \in Try(Set(o), "iopl") : q = [r EXCEPT !.iopl = r.ok \/ r.iopl]
      BY <1>1, <2>2
    <2>4. PICK b \in Works[p.world]["iopl"] : r = [Set(o) EXCEPT !.ok = b]
      <3>1. "iopl" \in Calls
        BY DEF Calls
      <3> QED BY <2>2, <2>3, <3>1, TryDo
    <2>5. r = [p EXCEPT !.ok = b, !.ioFd = NoFd]
      BY <2>1, <2>4 DEF Processes
    <2>6. q = Refused(p, b)
      BY <2>3, <2>5 DEF Processes, Refused
    <2>7. o.fd \notin Fds
      BY <1>4 DEF NoFd
    <2>8. QED
      BY <1>2, <2>4, <2>6, <2>7
  <1>5. QED
    BY <1>2, <1>3, <1>4

\* What a call made for driver d leaves alone.
LEMMA EnabledLeft ==
  ASSUME NEW p \in Processes, Kinds(p), NEW d, NEW f \in Fds, p.owner[f] = "none"
  PROVE  Left(p, Enabled(p, f), d) /\ Plain(p, Enabled(p, f)) /\ Enabled(p, f).alive = p.alive
  <1> DEFINE q == Enabled(p, f)
  <1>1. q \in Processes
    <2>1. Up(p.ioCount) \in 0 .. Width - 1
      BY DEF Up, Processes
    <2>2. [p.owner EXCEPT ![f] = "io"] \in [Fds -> Users]
      BY DEF Processes, Users
    <2>3. QED
      BY <2>1, <2>2 DEF Processes, Enabled
  <1>2. Kinds(q)
    BY DEF Processes, Enabled, Kinds, NoFd
  <1>3. QED
    BY <1>1, <1>2 DEF Processes, Enabled, Left, Plain, AppFds

LEMMA LeftSame ==
  ASSUME NEW p \in Processes, Kinds(p), NEW d
  PROVE  Left(p, p, d) /\ Plain(p, p)
  BY DEF Left, Plain

LEMMA LeftTyped ==
  ASSUME NEW p, NEW q, NEW d, Left(p, q, d)
  PROVE  q \in Processes /\ Kinds(q) /\ q.world = p.world
  BY DEF Left

LEMMA LeftThen ==
  ASSUME NEW p, NEW q, NEW r, NEW d, Left(p, q, d), Left(q, r, d)
  PROVE  Left(p, r, d)
  BY DEF Left

LEMMA PlainThen ==
  ASSUME NEW p, NEW q, NEW r, Plain(p, q), Plain(q, r)
  PROVE  Plain(p, r)
  BY DEF Plain

LEMMA SaysLeft ==
  ASSUME NEW p \in Processes, Kinds(p), NEW d, NEW b \in BOOLEAN
  PROVE  Left(p, Says(p, b), d) /\ Plain(p, Says(p, b)) /\ Says(p, b).alive = p.alive
  <1>1. Says(p, b) \in Processes
    BY DEF Processes, Says
  <1>2. QED
    BY <1>1 DEF Processes, Says, Left, Plain, AppFds, Kinds

LEMMA RefusedLeft ==
  ASSUME NEW p \in Processes, Kinds(p), NEW d, NEW b \in BOOLEAN
  PROVE  Left(p, Refused(p, b), d) /\ Plain(p, Refused(p, b)) /\ Refused(p, b).alive = p.alive
  <1>1. Refused(p, b) \in Processes
    BY ZenonT(40) DEF Processes, Refused, NoFd
  <1>2. QED
    BY <1>1 DEF Processes, Refused, Left, Plain, AppFds, Kinds

LEMMA DeadLeft ==
  ASSUME NEW p \in Processes, Kinds(p), NEW d
  PROVE  /\ Left(p, Exits(p), d) /\ Plain(p, Exits(p)) /\ Exits(p).alive = "exit"
         /\ Left(p, Faults(p), d) /\ Plain(p, Faults(p)) /\ Faults(p).alive = "fault"
  <1>1. Exits(p) \in Processes /\ Faults(p) \in Processes
    BY DEF Processes, Exits, Faults
  <1>2. QED
    BY <1>1, ZenonT(40) DEF Processes, Exits, Faults, Left, Plain, AppFds, Kinds

\* What one of two calls leaves behind is what the system lets happen.
LEMMA WorksBoolean ==
  ASSUME NEW p \in Processes, NEW c \in Calls
  PROVE  Works[p.world][c] \in SUBSET BOOLEAN
  BY DEF Processes

\* disable_app_io
LEMMA DisableDo ==
  ASSUME NEW p \in Processes, NEW q \in disable_app_io(p)
  PROVE  q = Disabled(p)
  <1> DEFINE c == [p EXCEPT !.ioCount = Down(@)]
  <1>1. c.ioFd = p.ioFd /\ c.ioCount = Down(p.ioCount)
    BY DEF Processes
  <1>2. q = IF c.ioFd = NoFd THEN [c EXCEPT !.iopl = FALSE]
            ELSE IF c.ioCount = 0 THEN [CloseFd(c, c.ioFd) EXCEPT !.ioFd = NoFd] ELSE c
    BY DEF disable_app_io
  <1>3. CASE p.ioFd = NoFd
    BY <1>1, <1>2, <1>3 DEF Disabled, Processes
  <1>4. CASE p.ioFd # NoFd /\ Down(p.ioCount) = 0
    <2>1. p.ioFd \in Fds
      BY <1>4 DEF Processes
    <2>2. q = [CloseFd(c, p.ioFd) EXCEPT !.ioFd = NoFd]
      BY <1>1, <1>2, <1>4
    <2>3. CloseFd(c, p.ioFd) = [c EXCEPT !.owner[p.ioFd] = "none"]
      BY <2>1 DEF CloseFd
    <2>4. QED
      BY <1>4, <2>1, <2>2, <2>3 DEF Disabled, Processes
  <1>5. CASE p.ioFd # NoFd /\ Down(p.ioCount) # 0
    BY <1>1, <1>2, <1>5 DEF Disabled
  <1>6. QED
    BY <1>3, <1>4, <1>5

LEMMA CountTyped ==
  ASSUME NEW n \in 0 .. Width - 1
  PROVE  Up(n) \in 0 .. Width - 1 /\ Down(n) \in 0 .. Width - 1
  BY DEF Up, Down

LEMMA DisabledLeft ==
  ASSUME NEW p \in Processes, Kinds(p), NEW d
  PROVE  Left(p, Disabled(p), d) /\ Plain(p, Disabled(p)) /\ Disabled(p).alive = p.alive
  <1> DEFINE q == Disabled(p)
  <1>0. Down(p.ioCount) \in 0 .. Width - 1 /\ 0 \in 0 .. Width - 1
    BY CountTyped DEF Processes
  <1>1. CASE p.ioFd # NoFd /\ Down(p.ioCount) = 0
    <2>1. p.ioFd \in Fds /\ p.owner[p.ioFd] = "io"
      BY <1>1 DEF Processes, Kinds
    <2>2. q = [p EXCEPT !.ioCount = 0, !.owner[p.ioFd] = "none", !.ioFd = NoFd]
      BY <1>1 DEF Disabled
    <2> HIDE DEF q
    <2>3. [p.owner EXCEPT ![p.ioFd] = "none"] \in [Fds -> Users]
      BY DEF Processes, Users
    <2>4. q \in Processes
      BY <1>0, <2>2, <2>3 DEF Processes
    <2>5. Kinds(q)
      BY <2>1, <2>2 DEF Processes, Kinds
    <2>6. Plain(p, q) /\ q.alive = p.alive
      BY <2>1, <2>2 DEF Processes, Plain
    <2>7. AppFds(q) = AppFds(p)
      BY <2>1, <2>2 DEF Processes, AppFds
    <2>8. /\ q.world = p.world /\ q.ptr = p.ptr /\ q.live = p.live /\ q.file = p.file
          /\ q.dma = p.dma /\ q.irq = p.irq
      BY <2>2 DEF Processes
    <2>9. QED
      BY <2>4, <2>5, <2>6, <2>7, <2>8 DEF Left, q
  <1>2. CASE ~(p.ioFd # NoFd /\ Down(p.ioCount) = 0)
    <2>1. q \in Processes
      BY <1>0, <1>2 DEF Processes, Disabled
    <2>2. QED
      BY <1>2, <2>1, ZenonT(40) DEF Processes, Disabled, Left, Plain, AppFds, Kinds
  <1>3. QED
    BY <1>1, <1>2

LEMMA EnableLeft ==
  ASSUME NEW p \in Processes, Kinds(p), NEW d, NEW q \in enable_app_io(p)
  PROVE  Left(p, q, d) /\ Plain(p, q) /\ q.alive = p.alive
  <1>1. CASE \E f \in Fds : p.owner[f] = "none" /\ q = Enabled(p, f)
    BY <1>1, EnabledLeft
  <1>2. CASE \E b \in Works[p.world]["iopl"] : q = Refused(p, b)
    <2>1. Works[p.world]["iopl"] \in SUBSET BOOLEAN
      BY WorksBoolean DEF Calls
    <2>2. QED
      BY <1>2, <2>1, RefusedLeft
  <1>3. QED
    BY <1>1, <1>2, EnableDo

LEMMA TryLeft ==
  ASSUME NEW p \in Processes, Kinds(p), NEW d, NEW c \in Calls, NEW q \in Try(p, c)
  PROVE  Left(p, q, d) /\ Plain(p, q) /\ q.alive = p.alive
  <1>1. PICK b \in Works[p.world][c] : q = Says(p, b)
    BY TryDo DEF Says
  <1>2. b \in BOOLEAN
    BY <1>1, WorksBoolean
  <1>3. QED
    BY <1>1, <1>2, SaysLeft

LEMMA ScanDo ==
  ASSUME NEW p \in Processes, Kinds(p), p.alive = "run", NEW q \in pci_scan(p)
  PROVE  \/ q = Says(p, TRUE) /\ FreeFds(p) # {} /\ TRUE \in Works[p.world]["helper"]
         \/ NoHelperFor(p) /\ ScanFallback(p, q)
  <1>1. PICK o \in Open(p, "helper", "io") :
          q \in IF o.p.ok THEN {CloseFd(o.p, o.fd)} ELSE __pci_scan(o.p)
    BY Zenon DEF pci_scan
  <1>2. \/ /\ TRUE \in Works[p.world]["helper"]
           /\ o.fd \in Fds /\ p.owner[o.fd] = "none"
           /\ o.p = [p EXCEPT !.ok = TRUE, !.owner[o.fd] = "io"]
        \/ /\ NoHelperFor(p)
           /\ o.fd = NoFd /\ o.p = [p EXCEPT !.ok = FALSE]
    <2>1. "helper" \in Calls /\ "io" \in Users
      BY DEF Calls, Users
    <2>2. QED
      BY <1>1, <2>1, OpenDo DEF NoHelperFor
  <1>3. CASE /\ TRUE \in Works[p.world]["helper"] /\ o.fd \in Fds /\ p.owner[o.fd] = "none"
             /\ o.p = [p EXCEPT !.ok = TRUE, !.owner[o.fd] = "io"]
    <2>1. o.p.ok
      BY <1>3 DEF Processes
    <2>2. q = [o.p EXCEPT !.owner[o.fd] = "none"]
      BY <1>1, <1>3, <2>1 DEF CloseFd
    <2>3. [[p.owner EXCEPT ![o.fd] = "io"] EXCEPT ![o.fd] = "none"] = p.owner
      BY <1>3 DEF Processes
    <2>4. q = [p EXCEPT !.ok = TRUE, !.owner = [[@ EXCEPT ![o.fd] = "io"] EXCEPT ![o.fd] = "none"]]
      BY <1>3, <2>2 DEF Processes
    <2>5. q = Says(p, TRUE)
      BY <2>3, <2>4 DEF Says, Processes
    <2>6. QED
      BY <1>3, <2>5 DEF FreeFds
  <1>4. CASE NoHelperFor(p) /\ o.p = [p EXCEPT !.ok = FALSE]
    <2> DEFINE s == Says(p, FALSE)
    <2>1. o.p = s /\ ~s.ok /\ s.world = p.world
      BY <1>4 DEF Says, Processes
    <2>2. s \in Processes /\ Kinds(s) /\ s.alive = "run"
      BY SaysLeft, LeftTyped
    <2> HIDE DEF s
    <2>3. q \in Then(enable_app_io(s), LAMBDA t :
                 IF t.ok THEN Then(Try(t, "bus"), disable_app_io) ELSE {t})
      BY <1>1, <2>1 DEF __pci_scan
    <2>4. PICK e \in enable_app_io(s) :
            IF e.alive = "run"
            THEN q \in IF e.ok THEN Then(Try(e, "bus"), disable_app_io) ELSE {e} ELSE q = e
      BY <2>3 DEF Then
    <2>5. Left(s, e, 0) /\ e.alive = "run"
      BY <2>2, <2>4, EnableLeft
    <2>6. CASE ~e.ok
      BY <1>4, <2>4, <2>5, <2>6 DEF ScanFallback, s
    <2>7. CASE e.ok
      <3>1. q \in Then(Try(e, "bus"), disable_app_io)
        BY <2>4, <2>5, <2>7
      <3>2. PICK t \in Try(e, "bus") :
              IF t.alive = "run" THEN q \in disable_app_io(t) ELSE q = t
        BY <3>1 DEF Then
      <3>3. "bus" \in Calls /\ e \in Processes /\ Kinds(e) /\ e.world = p.world
        BY <2>1, <2>5 DEF Calls, Left
      <3>4. PICK b \in Works[p.world]["bus"] : t = Says(e, b)
        BY <3>2, <3>3, TryDo DEF Says
      <3>5. t \in Processes /\ t.alive = "run"
        BY <2>5, <3>2, <3>3, TryLeft, ZenonT(40) DEF Left
      <3>6. q = Disabled(t)
        BY <3>2, <3>5, DisableDo
      <3>7. QED
        BY <1>4, <2>4, <2>7, <3>4, <3>6 DEF ScanFallback, s
    <2>8. QED
      BY <2>6, <2>7
  <1>5. QED
    BY <1>2, <1>3, <1>4

LEMMA ScanLeft ==
  ASSUME NEW p \in Processes, Kinds(p), p.alive = "run", NEW d, NEW q \in pci_scan(p)
  PROVE  Left(p, q, d) /\ Plain(p, q) /\ q.alive = "run"
  <1>1. CASE q = Says(p, TRUE)
    BY <1>1, SaysLeft
  <1>2. CASE ScanFallback(p, q)
    <2> DEFINE s == Says(p, FALSE)
    <2>1. Left(p, s, d) /\ Plain(p, s) /\ s.alive = "run"
      BY SaysLeft
    <2>2. PICK e \in enable_app_io(s) :
            IF e.ok THEN \E b \in Works[p.world]["bus"] : q = Disabled(Says(e, b)) ELSE q = e
      BY <1>2 DEF ScanFallback
    <2> HIDE DEF s
    <2>3. Left(s, e, d) /\ Plain(s, e) /\ e.alive = "run"
      BY <2>1, <2>2, EnableLeft, LeftTyped
    <2>4. Left(p, e, d) /\ Plain(p, e)
      BY <2>1, <2>3, LeftThen, PlainThen
    <2>5. CASE ~e.ok
      BY <2>2, <2>3, <2>4, <2>5
    <2>6. CASE e.ok
      <3>1. PICK b \in Works[p.world]["bus"] : q = Disabled(Says(e, b))
        BY <2>2, <2>6
      <3> DEFINE t == Says(e, b)
      <3>2. b \in BOOLEAN
        <4>1. "bus" \in Calls
          BY DEF Calls
        <4>2. QED
          BY <3>1, <4>1, WorksBoolean
      <3>3. Left(e, t, d) /\ Plain(e, t) /\ t.alive = "run"
        BY <2>3, <3>2, SaysLeft, LeftTyped
      <3> HIDE DEF t
      <3>4. q = Disabled(t)
        BY <3>1 DEF t
      <3>5. Left(t, q, d) /\ Plain(t, q) /\ q.alive = "run"
        BY <3>3, <3>4, DisabledLeft, LeftTyped
      <3>6. Left(e, q, d) /\ Plain(e, q)
        BY <3>3, <3>5, LeftThen, PlainThen
      <3>7. QED
        BY <2>4, <3>5, <3>6, LeftThen, PlainThen
    <2>7. QED
      BY <2>5, <2>6
  <1>3. QED
    BY <1>1, <1>2, ScanDo

\* Accesses to the ports and through a mapping.
LEMMA PortsLeft ==
  ASSUME NEW p \in Processes, Kinds(p), NEW d, NEW q \in ports(p)
  PROVE  Left(p, q, d) /\ Plain(p, q)
  BY LeftSame, DeadLeft DEF ports

LEMMA RegsLeft ==
  ASSUME NEW p \in Processes, Kinds(p), NEW d, NEW t, NEW q \in regs(p, d, t)
  PROVE  Left(p, q, d) /\ Plain(p, q)
  BY LeftSame, DeadLeft DEF regs

\* The ports are asked for, used and given back.
LEMMA ProbePortsDo ==
  ASSUME NEW p \in Processes, Kinds(p), p.alive = "run", NEW q \in ProbePorts(p), q # p
  PROVE  \E e \in enable_app_io(p) :
           q = IF ~e.ok THEN e ELSE IF PortAccess(e) THEN Disabled(e) ELSE Faults(e)
  <1>1. q \in Then(enable_app_io(p), LAMBDA t :
                IF t.ok THEN Then(ports(t), disable_app_io) ELSE {t})
    BY DEF ProbePorts
  <1>2. PICK e \in enable_app_io(p) :
          IF e.alive = "run"
          THEN q \in IF e.ok THEN Then(ports(e), disable_app_io) ELSE {e} ELSE q = e
    BY <1>1 DEF Then
  <1>3. Left(p, e, 0) /\ e.alive = "run"
    BY <1>2, EnableLeft
  <1>4. CASE e.ok
    <2>1. PICK t \in ports(e) : IF t.alive = "run" THEN q \in disable_app_io(t) ELSE q = t
      BY <1>2, <1>3, <1>4 DEF Then
    <2>2. e \in Processes /\ Kinds(e)
      BY <1>3 DEF Left
    <2>3. CASE PortAccess(e)
      <3>1. t = e /\ q \in disable_app_io(e)
        BY <1>3, <2>1, <2>3 DEF ports
      <3>2. QED
        BY <1>2, <1>4, <2>2, <2>3, <3>1, DisableDo
    <2>4. CASE ~PortAccess(e)
      <3>1. t = Faults(e) /\ t.alive = "fault"
        BY <2>1, <2>2, <2>4, DeadLeft DEF ports
      <3>2. QED
        BY <1>2, <1>4, <2>1, <2>4, <3>1
    <2>5. QED
      BY <2>3, <2>4
  <1>5. CASE ~e.ok
    BY <1>2, <1>3, <1>5
  <1>6. QED
    BY <1>4, <1>5

LEMMA ProbePortsLeft ==
  ASSUME NEW p \in Processes, Kinds(p), p.alive = "run", NEW d, NEW q \in ProbePorts(p)
  PROVE  Left(p, q, d) /\ Plain(p, q)
  <1>1. CASE q = p
    BY <1>1, LeftSame
  <1>2. CASE q # p
    <2>1. PICK e \in enable_app_io(p) :
            q = IF ~e.ok THEN e ELSE IF PortAccess(e) THEN Disabled(e) ELSE Faults(e)
      BY <1>2, ProbePortsDo
    <2>2. Left(p, e, d) /\ Plain(p, e) /\ e \in Processes /\ Kinds(e)
      BY <2>1, EnableLeft, LeftTyped
    <2>3. Left(e, q, d) /\ Plain(e, q)
      BY <2>1, <2>2, LeftSame, DisabledLeft, DeadLeft
    <2>4. QED
      BY <2>2, <2>3, LeftThen, PlainThen
  <1>3. QED
    BY <1>1, <1>2

\* map_phys_mem
LEMMA OpenMemDo ==
  ASSUME NEW p \in Processes, p.alive = "run", NEW q \in OpenMem(p)
  PROVE  \/ p.memFd # NoFd /\ q = p
         \/ /\ p.memFd = NoFd
            /\ \E f \in Fds : p.owner[f] = "none" /\ q = MemOpened(p, f)
         \/ /\ FreeFds(p) = {} \/ (/\ FALSE \in Works[p.world]["helper"]
                                   /\ FALSE \in Works[p.world]["devmem"])
            /\ q = Exits(Says(p, FALSE))
  <1>1. CASE p.memFd # NoFd
    BY <1>1 DEF OpenMem
  <1>2. CASE p.memFd = NoFd
    <2>1. "helper" \in Calls /\ "devmem" \in Calls /\ "mem" \in Users
      BY DEF Calls, Users
    <2>2. PICK o \in Open(p, "helper", "mem") :
            LET n == [o.p EXCEPT !.memFd = o.fd]
            IN  IF n.alive = "run"
                THEN q \in IF n.ok THEN {n}
                           ELSE {IF x.p.ok THEN [x.p EXCEPT !.memFd = x.fd] ELSE Exits(x.p) :
                                   x \in Open(n, "devmem", "mem")}
                ELSE q = n
      BY <1>2, ZenonT(40) DEF OpenMem, Then
    <2> DEFINE n == [o.p EXCEPT !.memFd = o.fd]
    <2>3. \/ /\ o.fd \in Fds /\ p.owner[o.fd] = "none"
             /\ o.p = [p EXCEPT !.ok = TRUE, !.owner[o.fd] = "mem"]
          \/ /\ FreeFds(p) = {} \/ FALSE \in Works[p.world]["helper"]
             /\ o.fd = NoFd /\ o.p = [p EXCEPT !.ok = FALSE]
      BY <2>1, OpenDo
    <2>4. CASE /\ o.fd \in Fds /\ p.owner[o.fd] = "none"
               /\ o.p = [p EXCEPT !.ok = TRUE, !.owner[o.fd] = "mem"]
      <3>1. n = MemOpened(p, o.fd)
        BY <2>4 DEF MemOpened, Processes
      <3>2. n.ok = TRUE /\ n.alive = "run"
        BY <2>4 DEF Processes
      <3>3. q = n
        BY <2>2, <3>2
      <3>4. QED
        BY <1>2, <2>4, <3>1, <3>3
    <2>5. CASE /\ FreeFds(p) = {} \/ FALSE \in Works[p.world]["helper"]
               /\ o.fd = NoFd /\ o.p = [p EXCEPT !.ok = FALSE]
      <3>1. n = Says(p, FALSE)
        BY <1>2, <2>5 DEF Says, Processes
      <3>2. n.ok = FALSE /\ n.alive = "run" /\ n.world = p.world /\ n.owner = p.owner
        BY <2>5 DEF Processes
      <3>3. n \in Processes
        <4>1. Says(p, FALSE) \in Processes
          BY DEF Says, Processes
        <4>2. QED
          BY <3>1, <4>1
      <3>4. PICK x \in Open(n, "devmem", "mem") :
              q = IF x.p.ok THEN [x.p EXCEPT !.memFd = x.fd] ELSE Exits(x.p)
        <4> HIDE DEF n
        <4>1. q \in {IF x.p.ok THEN [x.p EXCEPT !.memFd = x.fd] ELSE Exits(x.p) :
                       x \in Open(n, "devmem", "mem")}
          BY <2>2, <3>2 DEF n
        <4>2. QED
          BY <4>1
      <3> HIDE DEF n
      <3>5. \/ /\ x.fd \in Fds /\ n.owner[x.fd] = "none"
               /\ x.p = [n EXCEPT !.ok = TRUE, !.owner[x.fd] = "mem"]
            \/ /\ FreeFds(n) = {} \/ FALSE \in Works[n.world]["devmem"]
               /\ x.fd = NoFd /\ x.p = [n EXCEPT !.ok = FALSE]
        BY <2>1, <3>3, <3>4, OpenDo, ZenonT(40)
      <3>6. CASE /\ x.fd \in Fds /\ n.owner[x.fd] = "none"
                 /\ x.p = [n EXCEPT !.ok = TRUE, !.owner[x.fd] = "mem"]
        <4>1. x.p.ok
          BY <3>3, <3>6 DEF Processes
        <4>2. q = [x.p EXCEPT !.memFd = x.fd]
          BY <3>4, <4>1
        <4>3. q = MemOpened(n, x.fd)
          BY <3>3, <3>6, <4>2 DEF MemOpened, Processes
        <4>4. MemOpened(n, x.fd) = MemOpened(p, x.fd)
          BY <3>1 DEF MemOpened, Says, Processes
        <4>5. QED
          BY <1>2, <3>2, <3>6, <4>3, <4>4
      <3>7. CASE /\ FreeFds(n) = {} \/ FALSE \in Works[n.world]["devmem"]
                 /\ x.fd = NoFd /\ x.p = [n EXCEPT !.ok = FALSE]
        <4>1. ~x.p.ok
          BY <3>3, <3>7 DEF Processes
        <4>2. x.p = Says(p, FALSE)
          BY <3>1, <3>7 DEF Says, Processes
        <4>3. q = Exits(Says(p, FALSE))
          BY <3>4, <4>1, <4>2
        <4>4. FreeFds(n) = FreeFds(p)
          BY <3>2 DEF FreeFds
        <4>5. QED
          BY <2>5, <3>2, <3>7, <4>3, <4>4
      <3>8. QED
        BY <3>5, <3>6, <3>7
    <2>6. QED
      BY <2>3, <2>4, <2>5
  <1>3. QED
    BY <1>1, <1>2

LEMMA MemOpenedLeft ==
  ASSUME NEW p \in Processes, Kinds(p), NEW d, NEW f \in Fds, p.owner[f] = "none",
         p.memFd = NoFd
  PROVE  /\ Left(p, MemOpened(p, f), d) /\ Plain(p, MemOpened(p, f))
         /\ MemOpened(p, f).alive = p.alive
         /\ MemOpened(p, f).memFd = f /\ MemOpened(p, f).owner[f] = "mem"
  <1> DEFINE q == MemOpened(p, f)
  <1>1. q \in Processes
    <2>1. [p.owner EXCEPT ![f] = "mem"] \in [Fds -> Users]
      BY DEF Processes, Users
    <2>2. QED
      BY <2>1 DEF Processes, MemOpened
  <1>2. Kinds(q)
    BY DEF Processes, MemOpened, Kinds, NoFd
  <1>3. QED
    BY <1>1, <1>2 DEF Processes, MemOpened, Left, Plain, AppFds

LEMMA OpenMemLeft ==
  ASSUME NEW p \in Processes, Kinds(p), p.alive = "run", NEW d, NEW q \in OpenMem(p)
  PROVE  /\ Left(p, q, d) /\ Plain(p, q)
         /\ q.alive = "run" => q.memFd # NoFd
  <1>1. CASE p.memFd # NoFd /\ q = p
    BY <1>1, LeftSame
  <1>2. CASE p.memFd = NoFd /\ \E f \in Fds : p.owner[f] = "none" /\ q = MemOpened(p, f)
    <2>1. \A f \in Fds : f # NoFd
      BY DEF NoFd
    <2>2. QED
      BY <1>2, <2>1, MemOpenedLeft
  <1>3. CASE q = Exits(Says(p, FALSE))
    <2>1. Left(p, Says(p, FALSE), d) /\ Plain(p, Says(p, FALSE))
      BY SaysLeft
    <2>2. Left(Says(p, FALSE), q, d) /\ Plain(Says(p, FALSE), q) /\ q.alive = "exit"
      BY <1>3, <2>1, LeftTyped, DeadLeft
    <2>3. QED
      BY <2>1, <2>2, LeftThen, PlainThen
  <1>4. QED
    BY <1>1, <1>2, <1>3, OpenMemDo

LEMMA MapDo ==
  ASSUME NEW p \in Processes, Kinds(p), p.alive = "run", NEW d, NEW r,
         NEW q \in map_phys_mem(p, d, r)
  PROVE  \E m \in OpenMem(p) :
           IF m.alive = "run" THEN \E b \in Works[p.world]["map"] : q = Mapped(m, d, r, b)
           ELSE q = m
  <1>1. PICK m \in OpenMem(p) :
          IF m.alive = "run"
          THEN q \in {[x EXCEPT !.memLocks = Up(@),
                                !.ptr[d][r]  = IF x.ok THEN "held" ELSE "failed",
                                !.live[d][r] = IF x.ok THEN @ + 1 ELSE @] :
                        x \in IF m.owner[m.memFd] = "mem" THEN Try(m, "map") ELSE {Fails(m)}}
          ELSE q = m
    BY Zenon DEF map_phys_mem, Then
  <1>2. CASE m.alive = "run"
    <2>1. Left(p, m, d) /\ m.memFd # NoFd
      BY <1>2, OpenMemLeft
    <2>2. m \in Processes /\ Kinds(m) /\ m.world = p.world
      BY <2>1, LeftTyped
    <2>3. m.owner[m.memFd] = "mem"
      BY <2>1, <2>2 DEF Kinds
    <2>4. PICK x \in Try(m, "map") :
            q = [x EXCEPT !.memLocks = Up(@),
                          !.ptr[d][r]  = IF x.ok THEN "held" ELSE "failed",
                          !.live[d][r] = IF x.ok THEN @ + 1 ELSE @]
      BY <1>1, <1>2, <2>3, Zenon
    <2>5. PICK b \in Works[p.world]["map"] : x = [m EXCEPT !.ok = b]
      <3>1. "map" \in Calls
        BY DEF Calls
      <3>2. QED
        BY <2>2, <2>4, <3>1, TryDo
    <2>6. q = Mapped(m, d, r, b)
      BY <2>2, <2>4, <2>5 DEF Mapped, Processes
    <2>7. QED
      BY <1>2, <2>5, <2>6
  <1>3. QED
    BY <1>1, <1>2

LEMMA MappedLeft ==
  ASSUME NEW p \in Processes, Kinds(p), NEW d \in Drivers, NEW r \in Regions, NEW b \in BOOLEAN
  PROVE  /\ Left(p, Mapped(p, d, r, b), d) /\ Plain(p, Mapped(p, d, r, b))
         /\ Mapped(p, d, r, b).alive = p.alive
  <1> DEFINE q == Mapped(p, d, r, b)
  <1>1. q \in Processes
    <2>1. Up(p.memLocks) \in 0 .. Width - 1 /\ r \in Things
      BY CountTyped DEF Processes, Things
    <2>2. [p.ptr EXCEPT ![d][r] = IF b THEN "held" ELSE "failed"]
            \in [Drivers -> [Things -> {"null", "failed", "held"}]]
      BY <2>1 DEF Processes
    <2>3. [p.live EXCEPT ![d][r] = IF b THEN @ + 1 ELSE @] \in [Drivers -> [Things -> Int]]
      BY <2>1 DEF Processes
    <2>4. QED
      BY <2>1, <2>2, <2>3 DEF Processes, Mapped
  <1>2. Kinds(q)
    BY DEF Processes, Mapped, Kinds
  <1>3. /\ q.world = p.world /\ q.owner = p.owner /\ q.bmFd = p.bmFd /\ q.file = p.file
        /\ q.dma = p.dma /\ q.irq = p.irq /\ q.alive = p.alive
    BY DEF Processes, Mapped
  <1>4. \A e \in Drivers \ {d} : q.ptr[e] = p.ptr[e] /\ q.live[e] = p.live[e]
    BY DEF Processes, Mapped
  <1> HIDE DEF q
  <1>5. QED
    BY <1>1, <1>2, <1>3, <1>4 DEF Left, Plain, AppFds, q

LEMMA MapLeft ==
  ASSUME NEW p \in Processes, Kinds(p), p.alive = "run", NEW d \in Drivers, NEW r \in Regions,
         NEW q \in map_phys_mem(p, d, r)
  PROVE  Left(p, q, d) /\ Plain(p, q)
  <1>1. PICK m \in OpenMem(p) :
          IF m.alive = "run" THEN \E b \in Works[p.world]["map"] : q = Mapped(m, d, r, b)
          ELSE q = m
    BY MapDo
  <1>2. Left(p, m, d) /\ Plain(p, m)
    BY <1>1, OpenMemLeft
  <1>3. CASE m.alive = "run"
    <2>1. PICK b \in Works[p.world]["map"] : q = Mapped(m, d, r, b)
      BY <1>1, <1>3
    <2>2. b \in BOOLEAN
      <3>1. "map" \in Calls
        BY DEF Calls
      <3>2. QED
        BY <2>1, <3>1, WorksBoolean
    <2>3. Left(m, q, d) /\ Plain(m, q)
      BY <1>2, <2>1, <2>2, MappedLeft, LeftTyped
    <2>4. QED
      BY <1>2, <2>3, LeftThen, PlainThen
  <1>4. QED
    BY <1>1, <1>2, <1>3

LEMMA UnmapDo ==
  ASSUME NEW p \in Processes, NEW d \in Drivers, NEW r \in Regions, NEW x,
         NEW q \in unmap_phys_mem(p, d, r, x)
  PROVE  IF UnmapFails(p, d, r, x) THEN q = Exits(p) ELSE q = Unmapped(p, d, r, x)
  <1> DEFINE c == Counted(p, d, r, x)
  <1>1. CASE ~UnmapFails(p, d, r, x)
    <2>1. q = IF c.memLocks = 0 THEN [CloseFd(c, c.memFd) EXCEPT !.memFd = NoFd] ELSE c
      BY <1>1 DEF unmap_phys_mem, Counted
    <2>2. c.memLocks = Down(p.memLocks) /\ c.memFd = p.memFd /\ c.owner = p.owner
      BY DEF Counted, Processes
    <2>3. CASE Down(p.memLocks) # 0
      BY <1>1, <2>1, <2>2, <2>3 DEF Unmapped
    <2>4. CASE Down(p.memLocks) = 0 /\ p.memFd # NoFd
      <3>1. p.memFd \in Fds
        BY <2>4 DEF Processes
      <3>2. CloseFd(c, c.memFd) = [c EXCEPT !.owner[p.memFd] = "none"]
        BY <2>2, <3>1 DEF CloseFd
      <3> HIDE DEF c
      <3>3. q = [[c EXCEPT !.owner[p.memFd] = "none"] EXCEPT !.memFd = NoFd]
        BY <2>1, <2>2, <2>4, <3>2
      <3>4. q = [c EXCEPT !.owner[p.memFd] = "none", !.memFd = NoFd]
        BY <3>3
      <3>5. QED
        BY <1>1, <2>4, <3>4 DEF Unmapped, c
    <2>5. CASE Down(p.memLocks) = 0 /\ p.memFd = NoFd
      <3>1. p.memFd \notin Fds
        BY <2>5 DEF NoFd
      <3>2. CloseFd(c, c.memFd) = c
        BY <2>2, <3>1 DEF CloseFd
      <3>3. q = [c EXCEPT !.memFd = NoFd]
        BY <2>1, <2>2, <2>5, <3>2
      <3>4. [c EXCEPT !.memFd = NoFd] = c
        BY <2>5 DEF Counted, Processes
      <3>5. QED
        BY <1>1, <2>5, <3>3, <3>4 DEF Unmapped
    <2>6. QED
      BY <2>3, <2>4, <2>5
  <1>2. CASE UnmapFails(p, d, r, x)
    BY <1>2 DEF unmap_phys_mem
  <1>3. QED
    BY <1>1, <1>2

LEMMA CountedLeft ==
  ASSUME NEW p \in Processes, Kinds(p), NEW d \in Drivers, NEW r \in Regions, NEW x
  PROVE  /\ Left(p, Counted(p, d, r, x), d) /\ Plain(p, Counted(p, d, r, x))
         /\ Counted(p, d, r, x).alive = p.alive
  <1> DEFINE q == Counted(p, d, r, x)
  <1>1. q \in Processes
    <2>1. Down(p.memLocks) \in 0 .. Width - 1 /\ r \in Things
      BY CountTyped DEF Processes, Things
    <2>2. [p.live EXCEPT ![d][r] = IF p.ptr[d][r] = "held" /\ x # "part" THEN @ - 1 ELSE @]
            \in [Drivers -> [Things -> Int]]
      BY <2>1 DEF Processes
    <2>3. QED
      BY <2>1, <2>2 DEF Processes, Counted
  <1>2. Kinds(q)
    BY DEF Processes, Counted, Kinds
  <1>3. /\ q.world = p.world /\ q.owner = p.owner /\ q.bmFd = p.bmFd /\ q.file = p.file
        /\ q.dma = p.dma /\ q.irq = p.irq /\ q.alive = p.alive /\ q.ptr = p.ptr
    BY DEF Processes, Counted
  <1>4. \A e \in Drivers \ {d} : q.live[e] = p.live[e]
    BY DEF Processes, Counted
  <1> HIDE DEF q
  <1>5. QED
    BY <1>1, <1>2, <1>3, <1>4 DEF Left, Plain, AppFds, q

\* Closing a descriptor of the library for the memory and for interrupts.
LEMMA MemClosedLeft ==
  ASSUME NEW p \in Processes, Kinds(p), NEW d, p.memFd # NoFd,
         NEW q, q = [p EXCEPT !.owner[p.memFd] = "none", !.memFd = NoFd]
  PROVE  Left(p, q, d) /\ Plain(p, q) /\ q.alive = p.alive
  <1>1. p.memFd \in Fds /\ p.owner[p.memFd] = "mem"
    BY DEF Processes, Kinds
  <1>2. q \in Processes
    <2>1. [p.owner EXCEPT ![p.memFd] = "none"] \in [Fds -> Users]
      BY DEF Processes, Users
    <2>2. QED
      BY <2>1 DEF Processes
  <1>3. Kinds(q)
    BY <1>1 DEF Processes, Kinds
  <1>4. Plain(p, q) /\ q.alive = p.alive
    BY <1>1 DEF Processes, Plain
  <1>5. AppFds(q) = AppFds(p)
    BY <1>1 DEF Processes, AppFds
  <1>6. /\ q.world = p.world /\ q.ptr = p.ptr /\ q.live = p.live /\ q.file = p.file
        /\ q.dma = p.dma /\ q.irq = p.irq
    BY DEF Processes
  <1>7. QED
    BY <1>2, <1>3, <1>4, <1>5, <1>6 DEF Left

LEMMA UnmapLeft ==
  ASSUME NEW p \in Processes, Kinds(p), NEW d \in Drivers, NEW r \in Regions, NEW x,
         NEW q \in unmap_phys_mem(p, d, r, x)
  PROVE  Left(p, q, d) /\ Plain(p, q)
  <1> DEFINE c == Counted(p, d, r, x)
  <1>0. c.memFd = p.memFd
    BY DEF Counted, Processes
  <1>1. Left(p, c, d) /\ Plain(p, c) /\ c.memFd = p.memFd
    BY <1>0, CountedLeft
  <1> HIDE DEF c
  <1>2. CASE q = Exits(p)
    BY <1>2, DeadLeft
  <1>3. CASE q = Unmapped(p, d, r, x)
    <2>1. CASE q = c
      BY <1>1, <2>1
    <2>2. CASE p.memFd # NoFd /\ q = [c EXCEPT !.owner[p.memFd] = "none", !.memFd = NoFd]
      <3>1. Left(c, q, d) /\ Plain(c, q)
        BY <1>1, <2>2, MemClosedLeft, LeftTyped
      <3>2. QED
        BY <1>1, <3>1, LeftThen, PlainThen
    <2>3. QED
      BY <1>3, <2>1, <2>2 DEF Unmapped, c
  <1>4. QED
    BY <1>2, <1>3, UnmapDo

\* malloc and free
LEMMA AllocDo ==
  ASSUME NEW p \in Processes, NEW d \in Drivers, NEW t \in Blocks, NEW q \in alloc(p, d, t)
  PROVE  \E b \in Works[p.world]["alloc"] : b \in BOOLEAN /\ q = Alloced(p, d, t, b)
  <1>1. "alloc" \in Calls
    BY DEF Calls
  <1>2. PICK n \in Try(p, "alloc") :
          q = [n EXCEPT !.ptr[d][t]  = IF n.ok THEN "held" ELSE "null",
                        !.live[d][t] = IF n.ok THEN @ + 1 ELSE @]
    BY DEF alloc
  <1>3. PICK b \in Works[p.world]["alloc"] : n = [p EXCEPT !.ok = b]
    BY <1>1, <1>2, TryDo
  <1>4. b \in BOOLEAN
    BY <1>1, <1>3, WorksBoolean
  <1>5. q = Alloced(p, d, t, b)
    BY <1>2, <1>3 DEF Alloced, Processes
  <1>6. QED
    BY <1>3, <1>4, <1>5

LEMMA AllocedLeft ==
  ASSUME NEW p \in Processes, Kinds(p), NEW d \in Drivers, NEW t \in Blocks, NEW b \in BOOLEAN,
         NEW q, q = Alloced(p, d, t, b) \/ q = Freed(p, d, t)
  PROVE  Left(p, q, d) /\ Plain(p, q) /\ q.alive = p.alive
  <1>1. t \in Things
    BY DEF Things
  <1>2. q \in Processes
    <2>1. [p.ptr EXCEPT ![d][t] = IF b THEN "held" ELSE "null"]
            \in [Drivers -> [Things -> {"null", "failed", "held"}]]
      BY <1>1 DEF Processes
    <2>2. [p.live EXCEPT ![d][t] = IF b THEN @ + 1 ELSE @] \in [Drivers -> [Things -> Int]]
      BY <1>1 DEF Processes
    <2>3. [p.live EXCEPT ![d][t] = IF p.ptr[d][t] = "held" THEN @ - 1 ELSE @]
            \in [Drivers -> [Things -> Int]]
      BY <1>1 DEF Processes
    <2>4. CASE q = Alloced(p, d, t, b)
      BY <2>1, <2>2, <2>4, ZenonT(40) DEF Processes, Alloced
    <2>5. CASE q = Freed(p, d, t)
      BY <2>3, <2>5 DEF Processes, Freed
    <2>6. QED
      BY <2>4, <2>5
  <1>3. /\ q.world = p.world /\ q.owner = p.owner /\ q.bmFd = p.bmFd /\ q.file = p.file
        /\ q.dma = p.dma /\ q.irq = p.irq /\ q.alive = p.alive
        /\ q.memFd = p.memFd /\ q.ioFd = p.ioFd /\ q.irqFd = p.irqFd
    BY ZenonT(40) DEF Processes, Alloced, Freed
  <1>4. \A e \in Drivers \ {d} : q.ptr[e] = p.ptr[e] /\ q.live[e] = p.live[e]
    <2>1. CASE q = Alloced(p, d, t, b)
      BY <2>1 DEF Processes, Alloced
    <2>2. CASE q = Freed(p, d, t)
      BY <2>2 DEF Processes, Freed
    <2>3. QED
      BY <2>1, <2>2
  <1>5. QED
    BY <1>2, <1>3, <1>4 DEF Left, Plain, AppFds, Kinds

LEMMA AllocLeft ==
  ASSUME NEW p \in Processes, Kinds(p), NEW d \in Drivers, NEW t \in Blocks,
         NEW q \in alloc(p, d, t) \cup free(p, d, t)
  PROVE  Left(p, q, d) /\ Plain(p, q) /\ q.alive = p.alive
  <1>1. CASE q \in alloc(p, d, t)
    BY <1>1, AllocDo, AllocedLeft
  <1>2. CASE q \in free(p, d, t)
    <2>1. q = Freed(p, d, t)
      BY <1>2 DEF free, Freed
    <2>2. \E b : b \in BOOLEAN
      BY TRUE \in BOOLEAN
    <2>3. QED
      BY <2>1, <2>2, AllocedLeft
  <1>3. QED
    BY <1>1, <1>2

\* s3 gives the mapping of its memory back that it does not have.
LEMMA MemoryDo ==
  ASSUME NEW p \in Processes, NEW d \in Drivers, p.alive = "run", NEW q \in Memory(p, d)
  PROVE  \E b \in Works[p.world]["memory"] :
           /\ b \in BOOLEAN
           /\ IF b THEN q = Says(p, b)
              ELSE q \in unmap_phys_mem(Says(p, b), d, "mem", "sized")
  <1>1. PICK n \in Try(p, "memory") :
          IF n.alive = "run"
          THEN q \in IF n.ok THEN {n} ELSE unmap_phys_mem(n, d, "mem", "sized") ELSE q = n
    BY DEF Memory, Then
  <1>2. "memory" \in Calls
    BY DEF Calls
  <1>3. PICK b \in Works[p.world]["memory"] : n = Says(p, b)
    BY <1>1, <1>2, TryDo DEF Says
  <1>4. b \in BOOLEAN
    BY <1>2, <1>3, WorksBoolean
  <1>5. n.alive = "run" /\ n.ok = b
    BY <1>3 DEF Says, Processes
  <1>6. QED
    BY <1>1, <1>3, <1>4, <1>5

LEMMA MemoryLeft ==
  ASSUME NEW p \in Processes, Kinds(p), NEW d \in Drivers, p.alive = "run", NEW q \in Memory(p, d)
  PROVE  Left(p, q, d) /\ Plain(p, q)
  <1>1. PICK b \in BOOLEAN : IF b THEN q = Says(p, b)
                             ELSE q \in unmap_phys_mem(Says(p, b), d, "mem", "sized")
    BY MemoryDo
  <1>2. Left(p, Says(p, b), d) /\ Plain(p, Says(p, b))
    BY SaysLeft
  <1>3. CASE ~b
    <2>1. "mem" \in Regions
      BY DEF Regions
    <2>2. Left(Says(p, b), q, d) /\ Plain(Says(p, b), q)
      BY <1>1, <1>2, <1>3, <2>1, UnmapLeft, LeftTyped
    <2>3. QED
      BY <1>2, <2>2, LeftThen, PlainThen
  <1>4. QED
    BY <1>1, <1>2, <1>3

\* hwirq_install
LEMMA InstallDo ==
  ASSUME NEW p \in Processes, Kinds(p), NEW d \in Drivers, NEW q \in hwirq_install(p, d)
  PROVE  \/ p.irqFd # NoFd /\ \E b \in BOOLEAN : q = Installed(p, d, b)
         \/ p.irqFd = NoFd /\ q = Installed(p, d, FALSE)
         \/ p.irqFd = NoFd /\ \E f \in Fds : /\ p.owner[f] = "none"
                                             /\ \E b \in BOOLEAN : q = Installed(IrqOpened(p, f), d, b)
  <1> DEFINE Set(o) == [o.p EXCEPT !.irqFd = o.fd, !.irqUsed = TRUE]
  <1>1. PICK o \in IF p.irqFd = NoFd THEN Open(p, "helper", "irq") ELSE {[fd |-> p.irqFd, p |-> p]} :
          q \in IF Helper(Set(o), Set(o).irqFd)
                THEN {[r EXCEPT !.irq[d] = IF r.ok THEN "yes" ELSE "tried"] : r \in Try(Set(o), "irq")}
                ELSE {[Fails(Set(o)) EXCEPT !.irq[d] = "tried"]}
    BY Zenon DEF hwirq_install
  <1>2. "helper" \in Calls /\ "irq" \in Calls /\ "irq" \in Users
    BY DEF Calls, Users
  <1>3. ASSUME NEW n \in Processes, NEW f \in Fds, n.irqFd = f, n.owner[f] = "irq",
               Set(o) = [n EXCEPT !.irqUsed = TRUE]
        PROVE  \E b \in BOOLEAN : q = Installed(n, d, b)
    <2>1. Set(o) \in Processes /\ Set(o).irqFd = f /\ Set(o).owner[f] = "irq"
          /\ Set(o).world = n.world
      <3> HIDE DEF Set
      <3>1. [n EXCEPT !.irqUsed = TRUE] \in Processes
        BY DEF Processes
      <3>2. /\ [n EXCEPT !.irqUsed = TRUE].irqFd = n.irqFd
            /\ [n EXCEPT !.irqUsed = TRUE].owner = n.owner
            /\ [n EXCEPT !.irqUsed = TRUE].world = n.world
        BY DEF Processes
      <3>3. QED
        BY <1>3, <3>1, <3>2
    <2> HIDE DEF Set
    <2>2. Helper(Set(o), Set(o).irqFd)
      BY <2>1 DEF Helper
    <2>3. PICK r \in Try(Set(o), "irq") : q = [r EXCEPT !.irq[d] = IF r.ok THEN "yes" ELSE "tried"]
      BY <1>1, <2>2, Zenon
    <2>4. PICK b \in Works[n.world]["irq"] : r = [Set(o) EXCEPT !.ok = b]
      BY <1>2, <2>1, <2>3, TryDo
    <2>5. b \in BOOLEAN
      BY <1>2, <2>4, WorksBoolean
    <2>6. q = Installed(n, d, b)
      BY <1>3, <2>3, <2>4 DEF Installed, Processes
    <2>7. QED
      BY <2>5, <2>6
  <1>4. CASE p.irqFd # NoFd
    <2>1. p.irqFd \in Fds /\ p.owner[p.irqFd] = "irq"
      BY <1>4 DEF Processes, Kinds
    <2>2. o.p = p /\ o.fd = p.irqFd
      BY <1>1, <1>4
    <2>3. Set(o) = [p EXCEPT !.irqUsed = TRUE]
      BY <2>2 DEF Processes
    <2>4. QED
      BY <1>3, <1>4, <2>1, <2>3
  <1>5. CASE p.irqFd = NoFd
    <2>1. o \in Open(p, "helper", "irq")
      BY <1>1, <1>5
    <2>2. \/ /\ o.fd \in Fds /\ p.owner[o.fd] = "none"
             /\ o.p = [p EXCEPT !.ok = TRUE, !.owner[o.fd] = "irq"]
          \/ o.fd = NoFd /\ o.p = [p EXCEPT !.ok = FALSE]
      <3> HIDE DEF Set
      <3>1. \A x \in Open(p, "helper", "irq") :
              \/ /\ TRUE \in Works[p.world]["helper"]
                 /\ x.fd \in Fds /\ p.owner[x.fd] = "none"
                 /\ x.p = [p EXCEPT !.ok = TRUE, !.owner[x.fd] = "irq"]
              \/ /\ FreeFds(p) = {} \/ FALSE \in Works[p.world]["helper"]
                 /\ x.fd = NoFd /\ x.p = [p EXCEPT !.ok = FALSE]
        BY <1>2, OpenDo
      <3>2. QED
        BY <2>1, <3>1
    <2>3. CASE /\ o.fd \in Fds /\ p.owner[o.fd] = "none"
               /\ o.p = [p EXCEPT !.ok = TRUE, !.owner[o.fd] = "irq"]
      <3> DEFINE n == IrqOpened(p, o.fd)
      <3>1. n \in Processes
        <4>1. [p.owner EXCEPT ![o.fd] = "irq"] \in [Fds -> Users]
          BY <1>2 DEF Processes
        <4>2. QED
          BY <2>3, <4>1 DEF IrqOpened, Processes
      <3>2. n.irqFd = o.fd /\ n.owner[o.fd] = "irq"
        BY <2>3 DEF IrqOpened, Processes
      <3>3. Set(o) = [n EXCEPT !.irqUsed = TRUE]
        BY <2>3 DEF IrqOpened, Processes
      <3> HIDE DEF n, Set
      <3>4. PICK b \in BOOLEAN : q = Installed(n, d, b)
        BY <1>3, <2>3, <3>1, <3>2, <3>3
      <3>5. QED
        BY <1>5, <2>3, <3>4 DEF n
    <2>4. CASE o.fd = NoFd /\ o.p = [p EXCEPT !.ok = FALSE]
      <3>1. Set(o).irqFd = NoFd
        BY <2>4 DEF Processes
      <3>2. ~Helper(Set(o), Set(o).irqFd)
        <4> HIDE DEF Set
        <4>1. QED
          BY <3>1 DEF Helper, NoFd
      <3>3. q = [Fails(Set(o)) EXCEPT !.irq[d] = "tried"]
        BY <1>1, <3>2, Zenon
      <3>4. Fails(Set(o)) = [p EXCEPT !.ok = FALSE, !.irqUsed = TRUE]
        BY <1>5, <2>4 DEF Fails, Processes
      <3>5. q = Installed(p, d, FALSE)
        <4> HIDE DEF Set
        <4>1. QED
          BY <3>3, <3>4 DEF Installed, Processes
      <3>6. QED
        BY <1>5, <3>5
    <2>5. QED
      BY <2>2, <2>3, <2>4
  <1>6. QED
    BY <1>4, <1>5

LEMMA InstalledLeft ==
  ASSUME NEW p \in Processes, Kinds(p), NEW d \in Drivers, NEW b \in BOOLEAN
  PROVE  Left(p, Installed(p, d, b), d) /\ Plain(p, Installed(p, d, b))
         /\ Installed(p, d, b).alive = p.alive
  <1> DEFINE q == Installed(p, d, b)
  <1>1. q \in Processes
    <2>1. [p.irq EXCEPT ![d] = IF b THEN "yes" ELSE "tried"] \in [Drivers -> {"no", "tried", "yes"}]
      BY DEF Processes
    <2>2. QED
      BY <2>1 DEF Processes, Installed
  <1>2. /\ q.world = p.world /\ q.owner = p.owner /\ q.bmFd = p.bmFd /\ q.file = p.file
        /\ q.dma = p.dma /\ q.ptr = p.ptr /\ q.live = p.live /\ q.alive = p.alive
        /\ q.memFd = p.memFd /\ q.ioFd = p.ioFd /\ q.irqFd = p.irqFd
    BY DEF Processes, Installed
  <1>3. \A e \in Drivers \ {d} : q.irq[e] = p.irq[e]
    BY DEF Processes, Installed
  <1> HIDE DEF q
  <1>4. QED
    BY <1>1, <1>2, <1>3 DEF Left, Plain, AppFds, Kinds, q

LEMMA IrqOpenedLeft ==
  ASSUME NEW p \in Processes, Kinds(p), NEW d, NEW f \in Fds, p.owner[f] = "none", p.irqFd = NoFd
  PROVE  Left(p, IrqOpened(p, f), d) /\ Plain(p, IrqOpened(p, f))
         /\ IrqOpened(p, f).alive = p.alive
  <1> DEFINE q == IrqOpened(p, f)
  <1>1. q \in Processes
    <2>1. [p.owner EXCEPT ![f] = "irq"] \in [Fds -> Users]
      BY DEF Processes, Users
    <2>2. QED
      BY <2>1 DEF Processes, IrqOpened
  <1>2. Kinds(q)
    BY DEF Processes, IrqOpened, Kinds, NoFd
  <1>3. QED
    BY <1>1, <1>2 DEF Processes, IrqOpened, Left, Plain, AppFds

LEMMA InstallLeft ==
  ASSUME NEW p \in Processes, Kinds(p), NEW d \in Drivers, NEW q \in hwirq_install(p, d)
  PROVE  Left(p, q, d) /\ Plain(p, q) /\ q.alive = p.alive
  <1>1. CASE \E b \in BOOLEAN : q = Installed(p, d, b)
    BY <1>1, InstalledLeft
  <1>2. CASE p.irqFd = NoFd /\ \E f \in Fds : /\ p.owner[f] = "none"
                                             /\ \E b \in BOOLEAN : q = Installed(IrqOpened(p, f), d, b)
    <2>1. PICK f \in Fds : p.owner[f] = "none" /\ \E b \in BOOLEAN : q = Installed(IrqOpened(p, f), d, b)
      BY <1>2
    <2> DEFINE n == IrqOpened(p, f)
    <2>2. Left(p, n, d) /\ Plain(p, n) /\ n.alive = p.alive
      BY <1>2, <2>1, IrqOpenedLeft
    <2> HIDE DEF n
    <2>3. PICK b \in BOOLEAN : q = Installed(n, d, b)
      BY <2>1 DEF n
    <2>4. Left(n, q, d) /\ Plain(n, q) /\ q.alive = n.alive
      BY <2>2, <2>3, InstalledLeft, LeftTyped
    <2>5. QED
      BY <2>2, <2>4, LeftThen, PlainThen
  <1>3. QED
    BY <1>1, <1>2, InstallDo

LEMMA UninstallDo ==
  ASSUME NEW p \in Processes, Kinds(p), NEW d \in Drivers, NEW q \in hwirq_uninstall(p, d)
  PROVE  LET u == Uninstalled(p, d)
         IN  q = IF ~p.irqUsed /\ p.irqFd # NoFd
                 THEN [u EXCEPT !.owner[p.irqFd] = "none", !.irqFd = NoFd] ELSE u
  <1> DEFINE u == Uninstalled(p, d)
  <1>1. Helper(p, p.irqFd) <=> p.irqFd # NoFd
    BY DEF Helper, Kinds, Processes, NoFd
  <1>2. q = IF ~u.irqUsed THEN [CloseFd(u, u.irqFd) EXCEPT !.irqFd = NoFd] ELSE u
    BY <1>1 DEF hwirq_uninstall, Uninstalled
  <1>3. u.irqUsed = p.irqUsed /\ u.irqFd = p.irqFd /\ u.owner = p.owner
    BY DEF Uninstalled, Processes
  <1>4. CASE p.irqUsed
    BY <1>2, <1>3, <1>4
  <1>5. CASE ~p.irqUsed /\ p.irqFd # NoFd
    <2>1. p.irqFd \in Fds
      BY <1>5 DEF Processes
    <2>2. CloseFd(u, u.irqFd) = [u EXCEPT !.owner[p.irqFd] = "none"]
      BY <1>3, <2>1 DEF CloseFd
    <2> HIDE DEF u
    <2>3. q = [u EXCEPT !.owner[p.irqFd] = "none", !.irqFd = NoFd]
      BY <1>2, <1>3, <1>5, <2>2
    <2>4. QED
      BY <1>5, <2>3 DEF u
  <1>6. CASE ~p.irqUsed /\ p.irqFd = NoFd
    <2>1. p.irqFd \notin Fds
      BY <1>6 DEF NoFd
    <2>2. CloseFd(u, u.irqFd) = u
      BY <1>3, <2>1 DEF CloseFd
    <2>3. [u EXCEPT !.irqFd = NoFd] = u
      BY <1>6 DEF Uninstalled, Processes
    <2>4. QED
      BY <1>2, <1>3, <1>6, <2>2, <2>3
  <1>7. QED
    BY <1>4, <1>5, <1>6

LEMMA UninstallLeft ==
  ASSUME NEW p \in Processes, Kinds(p), NEW d \in Drivers, NEW q \in hwirq_uninstall(p, d)
  PROVE  Left(p, q, d) /\ Plain(p, q) /\ q.alive = p.alive
  <1> DEFINE u == Uninstalled(p, d)
  <1>1. Left(p, u, d) /\ Plain(p, u) /\ u.alive = p.alive /\ u.irqFd = p.irqFd
    <2>1. u \in Processes
      <3>1. [p.irq EXCEPT ![d] = IF p.irqFd # NoFd THEN "no" ELSE @]
              \in [Drivers -> {"no", "tried", "yes"}]
        BY DEF Processes
      <3>2. QED
        BY <3>1 DEF Processes, Uninstalled
    <2>2. /\ u.world = p.world /\ u.owner = p.owner /\ u.bmFd = p.bmFd /\ u.file = p.file
          /\ u.dma = p.dma /\ u.ptr = p.ptr /\ u.live = p.live /\ u.alive = p.alive
          /\ u.memFd = p.memFd /\ u.ioFd = p.ioFd /\ u.irqFd = p.irqFd
      BY DEF Processes, Uninstalled
    <2>3. \A e \in Drivers \ {d} : u.irq[e] = p.irq[e]
      BY DEF Processes, Uninstalled
    <2> HIDE DEF u
    <2>4. QED
      BY <2>1, <2>2, <2>3 DEF Left, Plain, AppFds, Kinds
  <1> HIDE DEF u
  <1>2. CASE q = u
    BY <1>1, <1>2
  <1>3. CASE p.irqFd # NoFd /\ q = [u EXCEPT !.owner[p.irqFd] = "none", !.irqFd = NoFd]
    <2>1. u \in Processes /\ Kinds(u)
      BY <1>1, LeftTyped
    <2>2. u.irqFd \in Fds /\ u.owner[u.irqFd] = "irq" /\ q = [u EXCEPT !.owner[u.irqFd] = "none", !.irqFd = NoFd]
      BY <1>1, <1>3, <2>1 DEF Kinds, Processes
    <2>3. q \in Processes
      <3>1. [u.owner EXCEPT ![u.irqFd] = "none"] \in [Fds -> Users]
        BY <2>1 DEF Processes, Users
      <3>2. QED
        BY <2>1, <2>2, <3>1 DEF Processes
    <2>4. Kinds(q)
      BY <2>1, <2>2 DEF Processes, Kinds
    <2>5. Plain(u, q) /\ q.alive = u.alive
      BY <2>1, <2>2 DEF Processes, Plain
    <2>6. AppFds(q) = AppFds(u)
      BY <2>1, <2>2 DEF Processes, AppFds
    <2>7. /\ q.world = u.world /\ q.ptr = u.ptr /\ q.live = u.live /\ q.file = u.file
          /\ q.dma = u.dma /\ q.irq = u.irq
      BY <2>1, <2>2 DEF Processes
    <2>8. Left(u, q, d)
      BY <2>3, <2>4, <2>6, <2>7 DEF Left
    <2>9. QED
      BY <1>1, <2>5, <2>8, LeftThen, PlainThen
  <1>4. QED
    BY <1>2, <1>3, UninstallDo DEF u

----------------------------------------------------------------------------
\* Bus mastering.

LEMMA PlainKeeps ==
  ASSUME NEW p \in Processes, NEW q \in Processes, Plain(p, q)
  PROVE  FilesLeft(p, q) /\ (BmKept(p) => BmKept(q))
  BY ZenonT(40) DEF Plain, FilesLeft, BmKept, Processes

LEMMA FilesThen ==
  ASSUME NEW p, NEW q, NEW r, FilesLeft(p, q), FilesLeft(q, r)
  PROVE  FilesLeft(p, r)
  BY DEF FilesLeft

\* bm_open
LEMMA BmOpenDo ==
  ASSUME NEW p \in Processes, FALSE \notin Works[p.world]["version"], NEW q \in bm_open(p)
  PROVE  \/ \E f \in Fds : p.owner[f] = "none" /\ q = BmOpened(p, f)
         \/ q = BmRefused(p)
  <1> DEFINE Set(o) == [o.p EXCEPT !.bmFd = o.fd]
  <1>1. PICK o \in Open(p, "helper", "bm") :
          q \in IF ~Set(o).ok THEN {Set(o)}
                ELSE {IF v.ok THEN v ELSE CloseFd(v, v.bmFd) : v \in Try(Set(o), "version")}
    BY Zenon DEF bm_open
  <1>2. \/ /\ TRUE \in Works[p.world]["helper"]
           /\ o.fd \in Fds /\ p.owner[o.fd] = "none"
           /\ o.p = [p EXCEPT !.ok = TRUE, !.owner[o.fd] = "bm"]
        \/ /\ NoHelperFor(p)
           /\ o.fd = NoFd /\ o.p = [p EXCEPT !.ok = FALSE]
    <2>1. "helper" \in Calls /\ "bm" \in Users
      BY DEF Calls, Users
    <2>2. \A x \in Open(p, "helper", "bm") :
            \/ /\ TRUE \in Works[p.world]["helper"]
               /\ x.fd \in Fds /\ p.owner[x.fd] = "none"
               /\ x.p = [p EXCEPT !.ok = TRUE, !.owner[x.fd] = "bm"]
            \/ /\ FreeFds(p) = {} \/ FALSE \in Works[p.world]["helper"]
               /\ x.fd = NoFd /\ x.p = [p EXCEPT !.ok = FALSE]
      BY <2>1, OpenDo
    <2> HIDE DEF Set
    <2>3. QED
      BY <1>1, <2>2 DEF NoHelperFor
  <1>3. CASE /\ o.fd \in Fds /\ p.owner[o.fd] = "none"
             /\ o.p = [p EXCEPT !.ok = TRUE, !.owner[o.fd] = "bm"]
    <2>1. Set(o) = BmOpened(p, o.fd)
      BY <1>3 DEF BmOpened, Processes
    <2>2. BmOpened(p, o.fd).ok = TRUE /\ BmOpened(p, o.fd).world = p.world
      BY DEF BmOpened, Processes
    <2>3. BmOpened(p, o.fd) \in Processes
      <3>1. [p.owner EXCEPT ![o.fd] = "bm"] \in [Fds -> Users]
        BY DEF Processes, Users
      <3>2. QED
        BY <1>3, <3>1 DEF BmOpened, Processes
    <2> HIDE DEF Set
    <2>4. PICK v \in Try(BmOpened(p, o.fd), "version") :
            q = IF v.ok THEN v ELSE CloseFd(v, v.bmFd)
      BY <1>1, <2>1, <2>2
    <2>5. PICK b \in Works[p.world]["version"] : v = [BmOpened(p, o.fd) EXCEPT !.ok = b]
      <3>1. "version" \in Calls
        BY DEF Calls
      <3>2. QED
        BY <2>2, <2>3, <2>4, <3>1, TryDo
    <2>6. b = TRUE
      <3>1. "version" \in Calls
        BY DEF Calls
      <3>2. b \in BOOLEAN
        BY <2>5, <3>1, WorksBoolean
      <3>3. QED
        BY <2>5, <3>2
    <2>7. v = BmOpened(p, o.fd)
      <3>1. v = [BmOpened(p, o.fd) EXCEPT !.ok = BmOpened(p, o.fd).ok]
        BY <2>2, <2>5, <2>6
      <3>2. \A x \in Processes : [x EXCEPT !.ok = x.ok] = x
        BY DEF Processes
      <3>3. QED
        BY <2>3, <3>1, <3>2
    <2>8. QED
      BY <1>3, <2>2, <2>4, <2>7
  <1>4. CASE o.fd = NoFd /\ o.p = [p EXCEPT !.ok = FALSE]
    <2>1. Set(o) = BmRefused(p)
      BY <1>4 DEF BmRefused, Processes
    <2>2. BmRefused(p).ok = FALSE
      BY DEF BmRefused, Processes
    <2> HIDE DEF Set
    <2>3. QED
      BY <1>1, <2>1, <2>2
  <1>5. QED
    BY <1>2, <1>3, <1>4

LEMMA BmOpenLeft ==
  ASSUME NEW p \in Processes, Kinds(p), FALSE \notin Works[p.world]["version"],
         NEW d, NEW q \in bm_open(p)
  PROVE  Left(p, q, d) /\ FilesLeft(p, q) /\ BmKept(q) /\ q.alive = p.alive
  <1>1. CASE q = BmRefused(p)
    <2>1. q \in Processes
      BY <1>1 DEF BmRefused, Processes
    <2>2. QED
      BY <1>1, <2>1 DEF BmRefused, Processes, Left, FilesLeft, BmKept, AppFds, Kinds
  <1>2. ASSUME NEW f \in Fds, p.owner[f] = "none", q = BmOpened(p, f)
        PROVE  Left(p, q, d) /\ FilesLeft(p, q) /\ BmKept(q) /\ q.alive = p.alive
    <2>1. q \in Processes
      <3>1. [p.owner EXCEPT ![f] = "bm"] \in [Fds -> Users]
        BY DEF Processes, Users
      <3>2. QED
        BY <1>2, <3>1, ZenonT(40) DEF BmOpened, Processes
    <2>2. Kinds(q)
      BY <1>2 DEF BmOpened, Processes, Kinds
    <2>3. AppFds(q) = AppFds(p)
      BY <1>2 DEF BmOpened, Processes, AppFds
    <2>4. FilesLeft(p, q) /\ BmKept(q) /\ q.alive = p.alive
      BY <1>2 DEF BmOpened, Processes, FilesLeft, BmKept
    <2>5. /\ q.world = p.world /\ q.ptr = p.ptr /\ q.live = p.live /\ q.file = p.file
          /\ q.dma = p.dma /\ q.irq = p.irq
      BY <1>2 DEF BmOpened, Processes
    <2>6. QED
      BY <2>1, <2>2, <2>3, <2>4, <2>5 DEF Left
  <1>3. QED
    BY <1>1, <1>2, BmOpenDo

\* mach64 and radeon: bus mastering and the tables it needs.
LEMMA MastersLeft ==
  ASSUME NEW p \in Processes, Kinds(p), NEW d \in Drivers, NEW b \in BOOLEAN
  PROVE  Left(p, Masters(p, d, b), d) /\ Plain(p, Masters(p, d, b))
         /\ Masters(p, d, b).alive = p.alive
  <1> DEFINE q == Masters(p, d, b)
  <1>1. q \in Processes
    <2>1. [p.dma EXCEPT ![d] = b] \in [Drivers -> BOOLEAN]
      BY DEF Processes
    <2>2. QED
      BY <2>1 DEF Processes, Masters
  <1>2. /\ q.world = p.world /\ q.owner = p.owner /\ q.bmFd = p.bmFd /\ q.file = p.file
        /\ q.irq = p.irq /\ q.ptr = p.ptr /\ q.live = p.live /\ q.alive = p.alive
        /\ q.memFd = p.memFd /\ q.ioFd = p.ioFd /\ q.irqFd = p.irqFd
    BY DEF Processes, Masters
  <1>3. \A e \in Drivers \ {d} : q.dma[e] = p.dma[e]
    BY DEF Processes, Masters
  <1> HIDE DEF q
  <1>4. QED
    BY <1>1, <1>2, <1>3 DEF Left, Plain, AppFds, Kinds, q

LEMMA BmTableDo ==
  ASSUME NEW p \in Processes, Kinds(p), p.alive = "run", NEW d \in Drivers,
         FALSE \notin Works[p.world]["version"], NEW q \in BmTable(p, d)
  PROVE  \E n \in bm_open(p) :
           \/ ~n.ok /\ q = n
           \/ /\ n.ok
              /\ \E b \in BOOLEAN : q = Masters(Alloced(n, d, "table", b), d, b)
  <1>1. PICK n \in bm_open(p) :
          IF n.alive = "run"
          THEN q \in IF ~n.ok THEN {n} ELSE {[a EXCEPT !.dma[d] = a.ok] : a \in alloc(n, d, "table")}
          ELSE q = n
    BY DEF BmTable, Then
  <1>2. Left(p, n, d) /\ n.alive = "run"
    BY <1>1, BmOpenLeft
  <1>3. CASE n.ok
    <2>1. PICK a \in alloc(n, d, "table") : q = [a EXCEPT !.dma[d] = a.ok]
      BY <1>1, <1>2, <1>3
    <2>2. n \in Processes /\ "table" \in Blocks
      BY <1>2, LeftTyped DEF Blocks
    <2>3. PICK b \in BOOLEAN : a = Alloced(n, d, "table", b)
      BY <2>1, <2>2, AllocDo
    <2>4. a.ok = b
      BY <2>2, <2>3 DEF Alloced, Processes
    <2>5. QED
      BY <1>1, <1>3, <2>1, <2>3, <2>4 DEF Masters
  <1>4. CASE ~n.ok
    BY <1>1, <1>2, <1>4
  <1>5. QED
    BY <1>3, <1>4

LEMMA BmTableLeft ==
  ASSUME NEW p \in Processes, Kinds(p), p.alive = "run", NEW d \in Drivers,
         FALSE \notin Works[p.world]["version"], NEW q \in BmTable(p, d)
  PROVE  Left(p, q, d) /\ FilesLeft(p, q) /\ BmKept(q) /\ q.alive = "run"
  <1>0. \E n \in bm_open(p) :
           \/ ~n.ok /\ q = n
           \/ /\ n.ok
              /\ \E b \in BOOLEAN : q = Masters(Alloced(n, d, "table", b), d, b)
    BY BmTableDo, ZenonT(40)
  <1>1. PICK n \in bm_open(p) :
           \/ q = n
           \/ \E b \in BOOLEAN : q = Masters(Alloced(n, d, "table", b), d, b)
    BY <1>0
  <1>2. Left(p, n, d) /\ FilesLeft(p, n) /\ BmKept(n) /\ n.alive = "run"
    BY <1>1, BmOpenLeft
  <1>3. ASSUME NEW b \in BOOLEAN, q = Masters(Alloced(n, d, "table", b), d, b)
        PROVE  Left(p, q, d) /\ FilesLeft(p, q) /\ BmKept(q) /\ q.alive = "run"
    <2> DEFINE a == Alloced(n, d, "table", b)
    <2>1. "table" \in Blocks
      BY DEF Blocks
    <2>2. Left(n, a, d) /\ Plain(n, a) /\ a.alive = "run"
      BY <1>2, <2>1, LeftTyped, AllocedLeft
    <2>3. Left(a, Masters(a, d, b), d) /\ Plain(a, Masters(a, d, b)) /\ Masters(a, d, b).alive = "run"
      BY <2>2, LeftTyped, MastersLeft
    <2> HIDE DEF a
    <2>4. q = Masters(a, d, b)
      BY <1>3 DEF a
    <2>5. Left(n, q, d) /\ Plain(n, q) /\ q.alive = "run"
      BY <2>2, <2>3, <2>4, LeftThen, PlainThen
    <2>6. FilesLeft(n, q) /\ BmKept(q)
      BY <1>2, <2>5, LeftTyped, PlainKeeps
    <2>7. QED
      BY <1>2, <2>5, <2>6, LeftThen, FilesThen
  <1>4. QED
    BY <1>1, <1>2, <1>3

LEMMA BmListsDo ==
  ASSUME NEW p \in Processes, Kinds(p), p.alive = "run", NEW d \in Drivers,
         FALSE \notin Works[p.world]["version"], NEW q \in BmLists(p, d)
  PROVE  ListsMade(p, d, q)
  <1>1. PICK n \in BmTable(p, d) :
          IF n.alive = "run"
          THEN q \in IF ~n.dma[d] THEN {n}
                     ELSE {[a EXCEPT !.dma[d] = a.ok] : a \in alloc(n, d, "block")}
          ELSE q = n
    BY DEF BmLists, Then
  <1>2. Left(p, n, d) /\ n.alive = "run"
    BY <1>1, BmTableLeft
  <1>3. CASE n.dma[d]
    <2>1. PICK a \in alloc(n, d, "block") : q = [a EXCEPT !.dma[d] = a.ok]
      BY <1>1, <1>2, <1>3
    <2>2. n \in Processes /\ "block" \in Blocks
      BY <1>2, LeftTyped DEF Blocks
    <2>3. PICK b \in BOOLEAN : a = Alloced(n, d, "block", b)
      BY <2>1, <2>2, AllocDo
    <2>4. a.ok = b
      BY <2>2, <2>3 DEF Alloced, Processes
    <2>5. QED
      BY <1>1, <1>3, <2>1, <2>3, <2>4 DEF Masters, ListsMade
  <1>4. CASE ~n.dma[d]
    BY <1>1, <1>2, <1>4 DEF ListsMade
  <1>5. QED
    BY <1>3, <1>4 DEF ListsMade

LEMMA BmListsLeft ==
  ASSUME NEW p \in Processes, Kinds(p), p.alive = "run", NEW d \in Drivers,
         FALSE \notin Works[p.world]["version"], NEW q \in BmLists(p, d)
  PROVE  Left(p, q, d) /\ FilesLeft(p, q) /\ BmKept(q)
  <1>0. \E n \in BmTable(p, d) :
           \/ ~n.dma[d] /\ q = n
           \/ /\ n.dma[d]
              /\ \E b \in BOOLEAN : q = Masters(Alloced(n, d, "block", b), d, b)
    <2>1. ListsMade(p, d, q)
      BY BmListsDo
    <2>2. QED
      BY <2>1 DEF ListsMade
  <1>1. PICK n \in BmTable(p, d) :
           q = n \/ \E b \in BOOLEAN : q = Masters(Alloced(n, d, "block", b), d, b)
    BY <1>0
  <1>2. Left(p, n, d) /\ FilesLeft(p, n) /\ BmKept(n) /\ n.alive = "run"
    BY <1>1, BmTableLeft
  <1>3. ASSUME NEW b \in BOOLEAN, q = Masters(Alloced(n, d, "block", b), d, b)
        PROVE  Left(p, q, d) /\ FilesLeft(p, q) /\ BmKept(q)
    <2> DEFINE a == Alloced(n, d, "block", b)
    <2>1. "block" \in Blocks
      BY DEF Blocks
    <2>2. Left(n, a, d) /\ Plain(n, a) /\ a.alive = "run"
      BY <1>2, <2>1, LeftTyped, AllocedLeft
    <2>3. Left(a, Masters(a, d, b), d) /\ Plain(a, Masters(a, d, b))
      BY <2>2, LeftTyped, MastersLeft
    <2> HIDE DEF a
    <2>4. q = Masters(a, d, b)
      BY <1>3 DEF a
    <2>5. Left(n, q, d) /\ Plain(n, q)
      BY <2>2, <2>3, <2>4, LeftThen, PlainThen
    <2>6. FilesLeft(n, q) /\ BmKept(q)
      BY <1>2, <2>5, LeftTyped, PlainKeeps
    <2>7. QED
      BY <1>2, <2>5, <2>6, LeftThen, FilesThen
  <1>4. QED
    BY <1>1, <1>2, <1>3

\* pm3: bus mastering, the interrupt, and a register.
LEMMA BmIrqDo ==
  ASSUME NEW p \in Processes, Kinds(p), p.alive = "run", NEW d \in Drivers,
         FALSE \notin Works[p.world]["version"], NEW q \in BmIrq(p, d)
  PROVE  \E n \in bm_open(p) :
           \/ ~n.ok /\ q = n
           \/ /\ n.ok
              /\ \E r \in hwirq_install(n, d) :
                   q = IF r.ptr[d]["ctl"] = "held" THEN Masters(r, d, TRUE) ELSE Faults(r)
  <1>1. PICK n \in bm_open(p) :
          IF n.alive = "run"
          THEN q \in IF ~n.ok THEN {n}
                     ELSE Then(hwirq_install(n, d), LAMBDA r :
                            Then(regs(r, d, "ctl"), LAMBDA t : {[t EXCEPT !.dma[d] = TRUE]}))
          ELSE q = n
    BY DEF BmIrq, Then
  <1>2. Left(p, n, d) /\ n.alive = "run"
    BY <1>1, BmOpenLeft
  <1>3. CASE n.ok
    <2>1. PICK r \in hwirq_install(n, d) :
            IF r.alive = "run"
            THEN q \in Then(regs(r, d, "ctl"), LAMBDA t : {[t EXCEPT !.dma[d] = TRUE]})
            ELSE q = r
      BY <1>1, <1>2, <1>3 DEF Then
    <2>2. r.alive = "run" /\ r \in Processes /\ Kinds(r)
      BY <1>2, <2>1, LeftTyped, InstallLeft
    <2>3. PICK t \in regs(r, d, "ctl") :
            IF t.alive = "run" THEN q \in {[t EXCEPT !.dma[d] = TRUE]} ELSE q = t
      BY <2>1, <2>2 DEF Then
    <2>4. CASE r.ptr[d]["ctl"] = "held"
      <3>1. t = r
        BY <2>3, <2>4 DEF regs
      <3>2. q = Masters(r, d, TRUE)
        BY <2>2, <2>3, <3>1 DEF Masters
      <3>3. QED
        BY <1>1, <1>3, <2>1, <2>4, <3>2
    <2>5. CASE r.ptr[d]["ctl"] # "held"
      <3>1. t = Faults(r) /\ t.alive = "fault"
        BY <2>2, <2>3, <2>5, DeadLeft DEF regs
      <3>2. QED
        BY <1>1, <1>3, <2>1, <2>3, <2>5, <3>1
    <2>6. QED
      BY <2>4, <2>5
  <1>4. CASE ~n.ok
    BY <1>1, <1>2, <1>4
  <1>5. QED
    BY <1>3, <1>4

LEMMA BmIrqLeft ==
  ASSUME NEW p \in Processes, Kinds(p), p.alive = "run", NEW d \in Drivers,
         FALSE \notin Works[p.world]["version"], NEW q \in BmIrq(p, d)
  PROVE  Left(p, q, d) /\ FilesLeft(p, q) /\ BmKept(q)
  <1>0. \E n \in bm_open(p) :
           \/ ~n.ok /\ q = n
           \/ /\ n.ok
              /\ \E r \in hwirq_install(n, d) :
                   q = IF r.ptr[d]["ctl"] = "held" THEN Masters(r, d, TRUE) ELSE Faults(r)
    BY BmIrqDo
  <1>1. PICK n \in bm_open(p) :
           \/ q = n
           \/ \E r \in hwirq_install(n, d) :
                q = IF r.ptr[d]["ctl"] = "held" THEN Masters(r, d, TRUE) ELSE Faults(r)
    BY <1>0
  <1>2. Left(p, n, d) /\ FilesLeft(p, n) /\ BmKept(n)
    BY <1>1, BmOpenLeft
  <1>3. ASSUME NEW r \in hwirq_install(n, d),
               q = IF r.ptr[d]["ctl"] = "held" THEN Masters(r, d, TRUE) ELSE Faults(r)
        PROVE  Left(p, q, d) /\ FilesLeft(p, q) /\ BmKept(q)
    <2>1. Left(n, r, d) /\ Plain(n, r)
      BY <1>2, LeftTyped, InstallLeft
    <2>2. Left(r, q, d) /\ Plain(r, q)
      BY <1>3, <2>1, LeftTyped, MastersLeft, DeadLeft
    <2>3. Left(n, q, d) /\ Plain(n, q)
      BY <2>1, <2>2, LeftThen, PlainThen
    <2>4. FilesLeft(n, q) /\ BmKept(q)
      BY <1>2, <2>3, LeftTyped, PlainKeeps
    <2>5. QED
      BY <1>2, <2>3, <2>4, LeftThen, FilesThen
  <1>4. QED
    BY <1>1, <1>2, <1>3

HIDE WorksAssumption
HIDE WidthAssumption
HIDE FdsAssumption

\* ivtv opens a device file.
LEMMA DeviceOpenDo ==
  ASSUME NEW p \in Processes, NEW d \in Drivers, NEW f \in Files,
         NEW q \in device_open(p, d, f)
  PROVE  \/ \E n \in Fds : p.owner[n] = "none" /\ q = FileOpened(p, d, f, n)
         \/ q = FileRefused(p, d, f)
  <1>1. PICK o \in Open(p, "device", "driver") : q = [o.p EXCEPT !.file[d][f] = o.fd]
    BY DEF device_open
  <1>2. \/ /\ TRUE \in Works[p.world]["device"]
           /\ o.fd \in Fds /\ p.owner[o.fd] = "none"
           /\ o.p = [p EXCEPT !.ok = TRUE, !.owner[o.fd] = "driver"]
        \/ /\ FreeFds(p) = {} \/ FALSE \in Works[p.world]["device"]
           /\ o.fd = NoFd /\ o.p = [p EXCEPT !.ok = FALSE]
    <2>1. "device" \in Calls /\ "driver" \in Users
      BY DEF Calls, Users
    <2>2. \A x \in Open(p, "device", "driver") :
            \/ /\ TRUE \in Works[p.world]["device"]
               /\ x.fd \in Fds /\ p.owner[x.fd] = "none"
               /\ x.p = [p EXCEPT !.ok = TRUE, !.owner[x.fd] = "driver"]
            \/ /\ FreeFds(p) = {} \/ FALSE \in Works[p.world]["device"]
               /\ x.fd = NoFd /\ x.p = [p EXCEPT !.ok = FALSE]
      BY <2>1, OpenDo
    <2>3. QED
      BY <1>1, <2>2
  <1>3. CASE /\ o.fd \in Fds /\ p.owner[o.fd] = "none"
             /\ o.p = [p EXCEPT !.ok = TRUE, !.owner[o.fd] = "driver"]
    <2>1. q = FileOpened(p, d, f, o.fd)
      BY <1>1, <1>3 DEF FileOpened, Processes
    <2>2. QED
      BY <1>3, <2>1
  <1>4. CASE o.fd = NoFd /\ o.p = [p EXCEPT !.ok = FALSE]
    BY <1>1, <1>4 DEF FileRefused, Processes
  <1>5. QED
    BY <1>2, <1>3, <1>4

LEMMA DeviceOpenLeft ==
  ASSUME NEW p \in Processes, Kinds(p), NEW d \in Drivers, NEW f \in Files,
         NEW q \in device_open(p, d, f)
  PROVE  /\ Left(p, q, d) /\ q.alive = p.alive /\ q.bmFd = p.bmFd
         /\ \A n \in Fds : p.owner[n] \in {"bm", "driver"} => q.owner[n] = p.owner[n]
         /\ OwnFiles(p, d) => OwnFiles(q, d)
  <1>1. ASSUME NEW n \in Fds, p.owner[n] = "none", q = FileOpened(p, d, f, n)
        PROVE  /\ Left(p, q, d) /\ q.alive = p.alive /\ q.bmFd = p.bmFd
               /\ \A m \in Fds : p.owner[m] \in {"bm", "driver"} => q.owner[m] = p.owner[m]
               /\ OwnFiles(p, d) => OwnFiles(q, d)
    <2>1. q \in Processes
      <3>1. [p.owner EXCEPT ![n] = "driver"] \in [Fds -> Users]
        BY DEF Processes, Users
      <3>2. [p.file EXCEPT ![d][f] = n] \in [Drivers -> [Files -> Fds \cup {NoFd}]]
        BY DEF Processes
      <3>3. QED
        BY <1>1, <3>1, <3>2 DEF FileOpened, Processes
    <2>2. /\ q.world = p.world /\ q.ptr = p.ptr /\ q.live = p.live /\ q.dma = p.dma
          /\ q.irq = p.irq /\ q.alive = p.alive /\ q.bmFd = p.bmFd /\ q.memFd = p.memFd
          /\ q.ioFd = p.ioFd /\ q.irqFd = p.irqFd
          /\ q.owner = [p.owner EXCEPT ![n] = "driver"]
          /\ q.file = [p.file EXCEPT ![d][f] = n]
      BY <1>1 DEF FileOpened, Processes
    <2>3. Kinds(q) /\ AppFds(q) = AppFds(p)
      BY <1>1, <2>2 DEF Processes, Kinds, AppFds
    <2>4. \A m \in Fds : p.owner[m] \in {"bm", "driver"} => q.owner[m] = p.owner[m]
      BY <1>1, <2>2 DEF Processes
    <2>5. \A e \in Drivers \ {d} : q.file[e] = p.file[e]
      BY <2>2 DEF Processes
    <2>6. OwnFiles(p, d) => OwnFiles(q, d)
      BY <1>1, <2>2 DEF Processes, OwnFiles
    <2>7. QED
      BY <2>1, <2>2, <2>3, <2>4, <2>5, <2>6 DEF Left
  <1>2. ASSUME q = FileRefused(p, d, f)
        PROVE  /\ Left(p, q, d) /\ q.alive = p.alive /\ q.bmFd = p.bmFd
               /\ \A m \in Fds : p.owner[m] \in {"bm", "driver"} => q.owner[m] = p.owner[m]
               /\ OwnFiles(p, d) => OwnFiles(q, d)
    <2>1. q \in Processes
      <3>2. [p.file EXCEPT ![d][f] = NoFd] \in [Drivers -> [Files -> Fds \cup {NoFd}]]
        BY DEF Processes
      <3>3. QED
        BY <1>2, <3>2 DEF FileRefused, Processes
    <2>2. /\ q.world = p.world /\ q.ptr = p.ptr /\ q.live = p.live /\ q.dma = p.dma
          /\ q.irq = p.irq /\ q.alive = p.alive /\ q.bmFd = p.bmFd /\ q.memFd = p.memFd
          /\ q.ioFd = p.ioFd /\ q.irqFd = p.irqFd
          /\ q.owner = p.owner
          /\ q.file = [p.file EXCEPT ![d][f] = NoFd]
      BY <1>2 DEF FileRefused, Processes
    <2>3. Kinds(q) /\ AppFds(q) = AppFds(p)
      BY <2>2 DEF Processes, Kinds, AppFds
    <2>5. \A e \in Drivers \ {d} : q.file[e] = p.file[e]
      BY <2>2 DEF Processes
    <2>6. OwnFiles(p, d) => OwnFiles(q, d)
      BY <2>2 DEF Processes, OwnFiles
    <2>7. QED
      BY <2>1, <2>2, <2>3, <2>5, <2>6 DEF Left
  <1>3. QED
    BY <1>1, <1>2, DeviceOpenDo

\* ivtv closes a device file.
LEMMA FileClosedLeft ==
  ASSUME NEW p \in Processes, Kinds(p), NEW d, NEW n \in Fds,
         p.owner[n] \in {"driver", "none"}, NEW q, q = FileClosed(p, n)
  PROVE  Left(p, q, d) /\ Gone(p, q, n)
  <1>1. q \in Processes
    <2>1. [p.owner EXCEPT ![n] = "none"] \in [Fds -> Users]
      BY DEF Processes, Users
    <2>2. QED
      BY <2>1 DEF FileClosed, Processes
  <1>2. /\ q.world = p.world /\ q.ptr = p.ptr /\ q.live = p.live /\ q.dma = p.dma
        /\ q.irq = p.irq /\ q.alive = p.alive /\ q.bmFd = p.bmFd /\ q.memFd = p.memFd
        /\ q.ioFd = p.ioFd /\ q.irqFd = p.irqFd /\ q.file = p.file /\ q.ok = p.ok
        /\ q.owner = [p.owner EXCEPT ![n] = "none"]
    BY DEF FileClosed, Processes
  <1>3. q.owner[n] = "none" /\ \A m \in Fds \ {n} : q.owner[m] = p.owner[m]
    BY <1>2 DEF Processes
  <1>4. Kinds(q) /\ AppFds(q) = AppFds(p)
    BY <1>2, <1>3 DEF Processes, Kinds, AppFds
  <1>5. QED
    BY <1>1, <1>2, <1>3, <1>4 DEF Left, Gone

LEMMA ScreenDo ==
  ASSUME NEW p \in Processes, NEW d \in Drivers, NEW f \in Files, NEW q \in Screen(p, d, f)
  PROVE  \/ q = Says(p, TRUE)
         \/ p.file[d][f] = NoFd /\ q = Says(p, FALSE)
         \/ p.file[d][f] # NoFd /\ q = FileClosed(Says(p, FALSE), p.file[d][f])
  <1>1. PICK t \in Try(p, "screen") :
          q = IF t.ok THEN t ELSE Fails(CloseFd(t, t.file[d][f]))
    BY DEF Screen
  <1>2. "screen" \in Calls
    BY DEF Calls
  <1>3. PICK b \in Works[p.world]["screen"] : t = Says(p, b)
    BY <1>1, <1>2, TryDo DEF Says
  <1>4. b \in BOOLEAN /\ t.ok = b /\ t.file = p.file
    BY <1>2, <1>3, WorksBoolean DEF Says, Processes
  <1>5. CASE ~b
    <2>1. t = Says(p, FALSE) /\ q = Fails(CloseFd(t, p.file[d][f]))
      BY <1>1, <1>3, <1>4, <1>5
    <2>2. CASE p.file[d][f] = NoFd
      <3>1. q = Fails(Says(p, FALSE))
        <4>1. NoFd \notin Fds
          BY FdsAssumption DEF NoFd
        <4>2. QED
          BY <2>1, <2>2, <4>1 DEF CloseFd
      <3>2. QED
        BY <2>2, <3>1 DEF Fails, Says, Processes
    <2>3. CASE p.file[d][f] # NoFd
      <3>1. p.file[d][f] \in Fds
        BY <2>3 DEF Processes
      <3>2. CloseFd(t, p.file[d][f]) = FileClosed(Says(p, FALSE), p.file[d][f])
        BY <2>1, <3>1 DEF CloseFd, FileClosed
      <3>3. Fails(FileClosed(Says(p, FALSE), p.file[d][f]))
              = FileClosed(Says(p, FALSE), p.file[d][f])
        BY <3>1 DEF Fails, FileClosed, Says, Processes
      <3>4. QED
        BY <2>1, <2>3, <3>2, <3>3
    <2>4. QED
      BY <2>2, <2>3
  <1>6. CASE b
    BY <1>1, <1>3, <1>4, <1>6
  <1>7. QED
    BY <1>4, <1>5, <1>6

LEMMA DeviceCloseDo ==
  ASSUME NEW p \in Processes, NEW d \in Drivers, NEW f \in Files,
         NEW q \in device_close(p, d, f)
  PROVE  \/ p.file[d][f] = NoFd /\ q = p
         \/ p.file[d][f] # NoFd /\ q = FileClosed(p, p.file[d][f])
  BY FdsAssumption DEF device_close, CloseFd, FileClosed, Processes, NoFd

----------------------------------------------------------------------------
\* Scripts.

\* The calls of a handler one after the other, by induction on their number.
LEMMA Unrolled ==
  ASSUME NEW d, NEW script, Len(script) \in Nat, NEW S, NEW X,
         NEW p \in S[0],
         \A i \in 1 .. Len(script) : \A q \in S[i - 1] : q.alive = "run" =>
           \A r \in Calling(d, script[i], q) :
             IF r.alive = "run" /\ (r.ok \/ script[i][1] \notin Stops)
             THEN r \in S[i] ELSE r \in X
  PROVE  \A r \in Run(d, script, p) : Ends(p, r, S[Len(script)], X)
  <1> DEFINE N == Len(script)
             Call(i, r) ==
               IF r.p.alive = "run" /\ r.done
               THEN {[p |-> q, done |-> q.alive = "run"
                                 /\ (q.ok \/ script[i][1] \notin Stops)] :
                       q \in Calling(d, script[i], r.p)}
               ELSE {r}
             Step(g, n) ==
               IF n = 0 THEN {[p |-> p, done |-> TRUE]} ELSE UNION {Call(n, r) : r \in g[n - 1]}
             Rec(g, n) == g = [i \in 0 .. n |-> Step(g, i)]
             Reaches(r, n) == Ends(p, r, S[n], X)
  <1>1. \A n \in 0 .. N : \E g : Rec(g, n)
    <2> DEFINE Bad == {n \in 0 .. N : ~\E g : Rec(g, n)}
    <2> SUFFICES ASSUME Bad # {} PROVE FALSE
      OBVIOUS
    <2>1. PICK n \in Bad : \A i \in Bad : n <= i
      <3>1. Bad \subseteq Nat
        BY SMT
      <3> HIDE DEF Bad
      <3> QED BY <3>1, LeastMember
    <2>2. n \in 0 .. N /\ ~\E g : Rec(g, n)
      OBVIOUS
    <2> HIDE DEF Call
    <2>3. n # 0
      <3> DEFINE g == [i \in 0 .. 0 |-> {[p |-> p, done |-> TRUE]}]
      <3>1. Rec(g, 0)
        <4>1. \A i \in 0 .. 0 : Step(g, i) = {[p |-> p, done |-> TRUE]}
          BY SMT
        <4> HIDE DEF Step
        <4>2. QED
          BY <4>1
      <3> HIDE DEF Rec, g
      <3>2. QED
        BY <2>2, <3>1
    <2>4. n - 1 \in 0 .. N /\ ~(n <= n - 1)
      BY <2>2, <2>3, SMT
    <2>5. PICK f : Rec(f, n - 1)
      <3> HIDE DEF Rec, N
      <3>1. n - 1 \notin Bad
        <4> HIDE DEF Bad
        <4> QED BY <2>1, <2>4
      <3>2. QED
        BY <2>4, <3>1
    <2> DEFINE g == [i \in 0 .. n |-> IF i = n THEN UNION {Call(n, r) : r \in f[n - 1]}
                                     ELSE f[i]]
    <2>6. \A i \in 0 .. n : Step(g, i) = g[i]
      <3> TAKE i \in 0 .. n
      <3>1. CASE i = n
        <4>1. n - 1 \in 0 .. n /\ n - 1 # n
          BY <2>2, <2>3, SMT
        <4>2. g[n - 1] = f[n - 1]
          BY <4>1
        <4>3. g[n] = UNION {Call(n, r) : r \in f[n - 1]}
          BY <3>1
        <4> HIDE DEF g
        <4>4. QED
          BY <2>3, <3>1, <4>2, <4>3
      <3>2. CASE i # n
        <4>1. i \in 0 .. n - 1 /\ g[i] = f[i]
          BY <2>2, <3>2, SMT
        <4>2. f[i] = Step(f, i)
          <5> HIDE DEF Step
          <5> QED BY <2>5, <4>1
        <4>3. Step(g, i) = Step(f, i)
          <5>1. CASE i = 0
            BY <5>1
          <5>2. CASE i # 0
            <6>1. i - 1 \in 0 .. n /\ i - 1 # n
              BY <2>2, <3>2, <5>2, SMT
            <6>2. g[i - 1] = f[i - 1]
              BY <6>1
            <6> HIDE DEF g
            <6>3. QED
              BY <5>2, <6>2
          <5>3. QED
            BY <5>1, <5>2
        <4>4. QED
          BY <4>1, <4>2, <4>3
      <3>3. QED
        BY <3>1, <3>2
    <2>7. Rec(g, n)
      <3>1. g = [i \in 0 .. n |-> g[i]]
        OBVIOUS
      <3> HIDE DEF g, Step
      <3>2. QED
        BY <2>6, <3>1
    <2> HIDE DEF Rec, g
    <2>8. QED
      BY <2>2, <2>7
  <1> DEFINE after == CHOOSE g : Rec(g, N)
  <1>2. Rec(after, N)
    <2>1. \E g : Rec(g, N)
      <3> HIDE DEF Rec
      <3>1. N \in 0 .. N
        BY SMT
      <3>2. QED
        BY <1>1, <3>1
    <2> HIDE DEF Rec
    <2>2. QED
      BY <2>1
  <1>3. Run(d, script, p) = after[N]
    BY Zenon DEF Run
  <1> HIDE DEF after
  <1>4. \A n \in 0 .. N : \A r \in after[n] : Reaches(r, n)
    <2> DEFINE Bad == {n \in 0 .. N : ~\A r \in after[n] : Reaches(r, n)}
    <2> SUFFICES ASSUME Bad # {} PROVE FALSE
      OBVIOUS
    <2> HIDE DEF Reaches
    <2>1. PICK n \in Bad : \A i \in Bad : n <= i
      <3>1. Bad \subseteq Nat
        BY SMT
      <3> HIDE DEF Bad
      <3> QED BY <3>1, LeastMember
    <2>2. n \in 0 .. N /\ ~\A r \in after[n] : Reaches(r, n)
      OBVIOUS
    <2>3. after[n] = Step(after, n)
      <3> HIDE DEF Step
      <3> QED BY <1>2, <2>2
    <2>4. n # 0
      <3>1. \A r : r \in {[p |-> p, done |-> TRUE]} => Reaches(r, 0)
        <4>1. Reaches([p |-> p, done |-> TRUE], 0)
          BY DEF Reaches, Ends
        <4> HIDE DEF Reaches
        <4>2. QED
          BY <4>1
      <3> HIDE DEF Call
      <3>2. QED
        BY <2>2, <2>3, <3>1
    <2>5. n \in 1 .. N /\ n - 1 \in 0 .. N /\ ~(n <= n - 1)
      BY <2>2, <2>4, SMT
    <2>6. \A r \in after[n - 1] : Reaches(r, n - 1)
      <3> HIDE DEF N
      <3>1. n - 1 \notin Bad
        <4> HIDE DEF Bad
        <4> QED BY <2>1, <2>5
      <3> QED BY <2>5, <3>1
    <2>7. ASSUME NEW t \in after[n] PROVE Reaches(t, n)
      <3>1. PICK r \in after[n - 1] : t \in Call(n, r)
        <4> HIDE DEF Call
        <4> QED BY <2>3, <2>4
      <3>2. Reaches(r, n - 1)
        BY <2>6
      <3>3. CASE r.p.alive = "run" /\ r.done
        <4>1. PICK q \in Calling(d, script[n], r.p) :
                t = [p |-> q, done |-> q.alive = "run" /\ (q.ok \/ script[n][1] \notin Stops)]
          BY <3>1, <3>3
        <4>2. p.alive = "run" /\ r.p \in S[n - 1]
          BY <3>2, <3>3 DEF Reaches, Ends
        <4>3. IF q.alive = "run" /\ (q.ok \/ script[n][1] \notin Stops)
              THEN q \in S[n] ELSE q \in X
          BY <2>5, <3>3, <4>1, <4>2
        <4>4. t.p = q /\ t.done = (q.alive = "run" /\ (q.ok \/ script[n][1] \notin Stops))
          BY <4>1
        <4>5. QED
          BY <4>2, <4>3, <4>4 DEF Reaches, Ends
      <3>4. CASE ~(r.p.alive = "run" /\ r.done)
        <4>1. t = r
          BY <3>1, <3>4
        <4>2. QED
          BY <3>2, <3>4, <4>1 DEF Reaches, Ends
      <3>5. QED
        BY <3>3, <3>4
    <2>8. QED
      BY <2>2, <2>7
  <1>5. N \in 0 .. N
    BY SMT
  <1>6. QED
    BY <1>3, <1>4, <1>5

\* What a plain call does.
LEMMA PlainCall ==
  ASSUME NEW p \in Processes, Kinds(p), p.alive = "run", NEW d \in Drivers, NEW s, IsPlain(s),
         NEW q \in Calling(d, s, p)
  PROVE  Left(p, q, d) /\ Plain(p, q)
  <1>1. CASE s[1] = "scan"
    BY <1>1, ScanLeft DEF Calling
  <1>2. CASE s[1] \in {"card", "fits"}
    <2>1. \E c \in Calls : q \in Try(p, c)
      BY <1>2 DEF Calling, Calls
    <2>2. QED
      BY <2>1, TryLeft
  <1>3. CASE s[1] = "probePorts"
    BY <1>3, ProbePortsLeft DEF Calling
  <1>4. CASE s[1] = "ports"
    BY <1>4, PortsLeft DEF Calling
  <1>5. CASE s[1] \in {"enable", "enableOr"}
    BY <1>5, EnableLeft DEF Calling
  <1>6. CASE s[1] = "disable"
    <2>1. q = Disabled(p)
      BY <1>6, DisableDo DEF Calling
    <2>2. QED
      BY <2>1, DisabledLeft
  <1>7. CASE s[1] = "uninstall"
    BY <1>7, UninstallLeft DEF Calling
  <1>8. CASE s[1] = "uninstallIf"
    <2>1. q = p \/ q \in hwirq_uninstall(p, d)
      BY <1>8 DEF Calling
    <2>2. QED
      BY <2>1, LeftSame, UninstallLeft
  <1>9. CASE s[1] = "memory"
    BY <1>9, MemoryLeft DEF Calling
  <1>10. CASE s[1] = "regs"
    BY <1>10, RegsLeft DEF Calling
  <1>11. CASE s[1] \in {"map", "mapOr"} /\ s[2] \in Regions
    BY <1>11, MapLeft DEF Calling
  <1>12. CASE s[1] \in {"unmap", "unmapSized", "unmapIf"} /\ s[2] \in Regions
    <2>1. q = p \/ \E x : q \in unmap_phys_mem(p, d, s[2], x)
      <3>1. CASE s[1] = "unmap"
        BY <3>1 DEF Calling
      <3>2. CASE s[1] = "unmapSized"
        BY <3>2 DEF Calling
      <3>3. CASE s[1] = "unmapIf"
        BY <3>3 DEF Calling
      <3>4. QED
        BY <1>12, <3>1, <3>2, <3>3
    <2>2. QED
      BY <1>12, <2>1, LeftSame, UnmapLeft
  <1>13. CASE s[1] \in {"alloc", "allocOr", "free"} /\ s[2] \in Blocks
    <2>1. q \in alloc(p, d, s[2]) \cup free(p, d, s[2])
      BY <1>13 DEF Calling
    <2>2. QED
      BY <1>13, <2>1, AllocLeft
  <1>14. QED
    BY <1>1, <1>2, <1>3, <1>4, <1>5, <1>6, <1>7, <1>8, <1>9, <1>10, <1>11, <1>12, <1>13
       DEF IsPlain

\* The scripts of the drivers, read call by call.
LEMMA ProbesPlain ==
  ASSUME NEW d \in DriverNames, d # "ivtv"
  PROVE  /\ Len(ProbeOf(d)) \in Nat
         /\ \A i \in 1 .. Len(ProbeOf(d)) : IsPlain(ProbeOf(d)[i])
  BY DEF DriverNames, ProbeOf, ProbeScript, SisProbe, IsPlain

LEMMA InitsPlain ==
  ASSUME NEW d \in DriverNames \ Openers
  PROVE  /\ Len(InitOf[d]) \in Nat
         /\ \A i \in 1 .. Len(InitOf[d]) : IsPlain(InitOf[d][i])
  <1> USE DEF InitOf, IsPlain, Regions, Blocks
  <1>1. CASE d = "cyberblade"
    BY <1>1 DEF CyberbladeInit
  <1>2. CASE d = "ivtv"
    BY <1>2 DEF IvtvInit
  <1>3. CASE d = "mga"
    BY <1>3 DEF MgaInit
  <1>4. CASE d = "nvidia"
    BY <1>4 DEF NvidiaInit
  <1>5. CASE d = "pm2"
    BY <1>5 DEF Pm2Init
  <1>6. CASE d = "radeonhd"
    BY <1>6 DEF RadeonhdInit
  <1>7. CASE d = "s3"
    BY <1>7 DEF S3Init
  <1>8. CASE d = "savage"
    BY <1>8 DEF SavageInit
  <1>9. CASE d = "sis"
    BY <1>9 DEF SisInit
  <1>10. CASE d = "unichrome"
    BY <1>10 DEF UnichromeInit
  <1> HIDE DEF InitOf, IsPlain, Regions, Blocks
  <1>11. QED
    BY <1>1, <1>2, <1>3, <1>4, <1>5, <1>6, <1>7, <1>8, <1>9, <1>10 DEF DriverNames, Openers

LEMMA PlaysPlain ==
  ASSUME NEW d \in DriverNames
  PROVE  /\ Len(ConfigOf[d]) \in Nat /\ Len(PlayOf[d]) \in Nat
         /\ \A i \in 1 .. Len(ConfigOf[d]) : IsPlain(ConfigOf[d][i])
         /\ \A i \in 1 .. Len(PlayOf[d]) : IsPlain(PlayOf[d][i])
  <1> USE DEF ConfigOf, PlayOf, IsPlain, Regions, Blocks
  <1>1. CASE d = "cyberblade"
    BY <1>1 DEF CyberbladeConfig, CyberbladePlay
  <1>2. CASE d = "ivtv"
    BY <1>2 DEF IvtvConfig, IvtvPlay
  <1>3. CASE d = "mach64"
    BY <1>3 DEF Mach64Config, Mach64Play
  <1>4. CASE d = "mga"
    BY <1>4 DEF MgaConfig, MgaPlay
  <1>5. CASE d = "nvidia"
    BY <1>5 DEF NvidiaConfig, NvidiaPlay
  <1>6. CASE d = "pm2"
    BY <1>6 DEF Pm2Config, Pm2Play
  <1>7. CASE d = "pm3"
    BY <1>7 DEF Pm3Config, Pm3Play
  <1>8. CASE d = "radeon"
    BY <1>8 DEF RadeonConfig, RadeonPlay
  <1>9. CASE d = "radeonhd"
    BY <1>9 DEF RadeonhdConfig, RadeonhdPlay
  <1>10. CASE d = "s3"
    BY <1>10 DEF S3Config, S3Play
  <1>11. CASE d = "savage"
    BY <1>11 DEF SavageConfig, SavagePlay
  <1>12. CASE d = "sis"
    BY <1>12 DEF SisConfig, SisPlay
  <1>13. CASE d = "unichrome"
    BY <1>13 DEF UnichromeConfig, UnichromePlay
  <1> HIDE DEF ConfigOf, PlayOf, IsPlain, Regions, Blocks
  <1>14. QED
    BY <1>1, <1>2, <1>3, <1>4, <1>5, <1>6, <1>7, <1>8, <1>9, <1>10, <1>11, <1>12, <1>13 DEF
       DriverNames

LEMMA DestroysPlain ==
  ASSUME NEW d \in DriverNames
  PROVE  /\ Len(DestroyOf[d]) \in Nat
         /\ \A i \in 1 .. Len(DestroyOf[d]) :
              \/ IsPlain(DestroyOf[d][i])
              \/ d \in Closers /\ DestroyOf[d][i][1] = "bmClose"
              \/ d = "ivtv" /\ IsClose(DestroyOf[d][i])
  <1> USE DEF DestroyOf, IsPlain, IsClose, Closers, Openers, Regions, Blocks, Files
  <1>1. CASE d = "cyberblade"
    BY <1>1 DEF CyberbladeDestroy
  <1>2. CASE d = "ivtv"
    BY <1>2 DEF IvtvDestroy
  <1>3. CASE d = "mach64"
    BY <1>3 DEF Mach64Destroy
  <1>4. CASE d = "mga"
    BY <1>4 DEF MgaDestroy
  <1>5. CASE d = "nvidia"
    BY <1>5 DEF NvidiaDestroy
  <1>6. CASE d = "pm2"
    BY <1>6 DEF Pm2Destroy
  <1>7. CASE d = "pm3"
    BY <1>7 DEF Pm3Destroy
  <1>8. CASE d = "radeon"
    BY <1>8 DEF RadeonDestroy
  <1>9. CASE d = "radeonhd"
    BY <1>9 DEF RadeonhdDestroy
  <1>10. CASE d = "s3"
    BY <1>10 DEF S3Destroy
  <1>11. CASE d = "savage"
    BY <1>11 DEF SavageDestroy
  <1>12. CASE d = "sis"
    BY <1>12 DEF SisDestroy
  <1>13. CASE d = "unichrome"
    BY <1>13 DEF UnichromeDestroy
  <1> HIDE DEF DestroyOf, IsPlain, IsClose, Closers, Openers, Regions, Blocks, Files
  <1>14. QED
    BY <1>1, <1>2, <1>3, <1>4, <1>5, <1>6, <1>7, <1>8, <1>9, <1>10, <1>11, <1>12, <1>13 DEF
       DriverNames

\* vixInit of a driver with bus mastering opens the helper for it once.
LEMMA OpenersInit ==
  ASSUME NEW d \in Openers
  PROVE  /\ Len(InitOf[d]) \in Nat
         /\ \E k \in 1 .. Len(InitOf[d]) : IsBm(InitOf[d][k])
         /\ \A i \in 1 .. Len(InitOf[d]) : IsPlain(InitOf[d][i]) \/ IsBm(InitOf[d][i])
         /\ \A i \in 1 .. Len(InitOf[d]) : InitOf[d][i][1] \in Stops =>
               d # "pm3" /\ InitOf[d][i][1] = "mapOr" /\ InitOf[d][i][2] \in Regions
  <1>1. CASE d = "mach64"
    <2>1. IsBm(InitOf[d][5]) /\ Len(InitOf[d]) = 5
      BY <1>1 DEF InitOf, Mach64Init, IsBm
    <2>2. QED
      BY <1>1, <2>1 DEF InitOf, Mach64Init, IsPlain, IsBm, Regions, Blocks, Stops
  <1>2. CASE d = "pm3"
    <2>1. IsBm(InitOf[d][3]) /\ Len(InitOf[d]) = 4
      BY <1>2 DEF InitOf, Pm3Init, IsBm
    <2>2. QED
      BY <1>2, <2>1 DEF InitOf, Pm3Init, IsPlain, IsBm, Regions, Blocks, Stops
  <1>3. CASE d = "radeon"
    <2>1. IsBm(InitOf[d][5]) /\ Len(InitOf[d]) = 6
      BY <1>3 DEF InitOf, RadeonInit, IsBm
    <2>2. QED
      BY <1>3, <2>1 DEF InitOf, RadeonInit, IsPlain, IsBm, Regions, Blocks, Stops
  <1>4. QED
    BY <1>1, <1>2, <1>3 DEF Openers

\* mach64 and radeon give back their mappings first, and do not survive it when one
\* of them had failed.
LEMMA DoomedStart ==
  ASSUME NEW d \in {"mach64", "radeon"}
  PROVE  /\ Len(DestroyOf[d]) \in Nat /\ Len(DestroyOf[d]) >= 2
         /\ DestroyOf[d][1] = <<"regs", "ctl">> /\ DestroyOf[d][2] = <<"unmapSized", "mem">>
  <1>1. CASE d = "mach64"
    BY <1>1 DEF DestroyOf, Mach64Destroy
  <1>2. CASE d = "radeon"
    BY <1>2 DEF DestroyOf, RadeonDestroy
  <1>3. QED
    BY <1>1, <1>2

\* A handler made of such calls does what they do.
LEMMA PlainRun ==
  ASSUME NEW p \in Processes, Kinds(p), NEW d \in Drivers, NEW script, Len(script) \in Nat,
         \A i \in 1 .. Len(script) : IsPlain(script[i]), NEW r \in Run(d, script, p)
  PROVE  /\ Left(p, r.p, d) /\ Plain(p, r.p)
         /\ p.alive = "run" /\ r.done => r.p.alive = "run"
         /\ p.alive # "run" => r.p = p
  <1> DEFINE N == Len(script)
             X == {q \in Processes : Left(p, q, d) /\ Plain(p, q)}
             S == [i \in 0 .. N |-> X]
  <1>0. N \in Nat
    OBVIOUS
  <1>1. p \in X
    BY LeftSame
  <1>2. ASSUME NEW i \in 1 .. N, NEW q \in S[i - 1], q.alive = "run",
               NEW t \in Calling(d, script[i], q)
        PROVE  IF t.alive = "run" /\ (t.ok \/ script[i][1] \notin Stops)
               THEN t \in S[i] ELSE t \in X
    <2>1. q \in X /\ S[i] = X
      OBVIOUS
    <2>2. q \in Processes /\ Kinds(q) /\ Left(p, q, d) /\ Plain(p, q)
      BY <2>1, LeftTyped
    <2> HIDE DEF S, X
    <2>3. Left(q, t, d) /\ Plain(q, t)
      <3>1. IsPlain(script[i])
        OBVIOUS
      <3>2. QED
        BY <1>2, <2>2, <3>1, PlainCall
    <2>4. t \in Processes /\ Left(p, t, d) /\ Plain(p, t)
      BY <2>2, <2>3, LeftTyped, LeftThen, PlainThen
    <2>5. t \in X
      BY <2>4 DEF X
    <2>6. QED
      BY <2>1, <2>5
  <1>3. p \in S[0]
    BY <1>1
  <1>4. S[N] = X
    OBVIOUS
  <1> HIDE DEF S, X
  <1>5. \A t \in Run(d, script, p) : Ends(p, t, S[N], X)
    <2>1. \A i \in 1 .. Len(script) : \A q \in S[i - 1] : q.alive = "run" =>
           \A t \in Calling(d, script[i], q) :
             IF t.alive = "run" /\ (t.ok \/ script[i][1] \notin Stops)
             THEN t \in S[i] ELSE t \in X
      BY <1>2
    <2>2. QED
      BY <1>0, <1>3, <2>1, Unrolled
  <1>6. r.p \in X
    BY <1>1, <1>4, <1>5 DEF Ends
  <1>7. Left(p, r.p, d) /\ Plain(p, r.p)
    BY <1>6 DEF X
  <1>8. QED
    BY <1>5, <1>7 DEF Ends

LEMMA BmLeftKeeps ==
  ASSUME NEW p \in Processes, NEW q, BmLeft(p, q), BmKept(p)
  PROVE  BmKept(q)
  BY DEF BmLeft, BmKept, Processes

LEMMA PlainBmLeft ==
  ASSUME NEW p, NEW q, Plain(p, q)
  PROVE  BmLeft(p, q)
  BY DEF Plain, BmLeft

LEMMA MapFailed ==
  ASSUME NEW p \in Processes, Kinds(p), p.alive = "run", NEW d \in Drivers, NEW r \in Regions,
         NEW q \in map_phys_mem(p, d, r), q.alive = "run"
  PROVE  q.ptr[d][r] = IF q.ok THEN "held" ELSE "failed"
  <1>1. PICK m \in OpenMem(p) :
           IF m.alive = "run" THEN \E b \in Works[p.world]["map"] : q = Mapped(m, d, r, b)
           ELSE q = m
    BY MapDo
  <1>2. PICK b \in Works[p.world]["map"] : q = Mapped(m, d, r, b)
    BY <1>1
  <1>3. m \in Processes /\ r \in Things
    BY OpenMemLeft, LeftTyped DEF Things
  <1>4. b \in BOOLEAN
    BY <1>2, WorksBoolean DEF Calls
  <1>5. q.ok = b /\ q.ptr[d][r] = IF b THEN "held" ELSE "failed"
    BY <1>2, <1>3 DEF Mapped, Processes
  <1>6. QED
    BY <1>4, <1>5

LEMMA BmCall ==
  ASSUME NEW p \in Processes, Kinds(p), p.alive = "run", NEW d \in Drivers,
         FALSE \notin Works[p.world]["version"], NEW s, IsBm(s), NEW q \in Calling(d, s, p)
  PROVE  Left(p, q, d) /\ FilesLeft(p, q) /\ BmKept(q)
  <1>1. CASE s[1] = "bmIrq"
    BY <1>1, BmIrqLeft DEF Calling
  <1>2. CASE s[1] = "bmTable"
    BY <1>2, BmTableLeft DEF Calling
  <1>3. CASE s[1] = "bmLists"
    BY <1>3, BmListsLeft DEF Calling
  <1>4. QED
    BY <1>1, <1>2, <1>3 DEF IsBm

LEMMA OpenersRun ==
  ASSUME NEW p \in Processes, Kinds(p), NEW d \in Drivers, d \in Openers,
         FALSE \notin Works[p.world]["version"], NEW r \in Run(d, InitOf[d], p)
  PROVE  /\ Left(p, r.p, d) /\ FilesLeft(p, r.p)
         /\ BmKept(p) => BmKept(r.p)
         /\ p.alive = "run" /\ r.done => r.p.alive = "run" /\ BmKept(r.p)
         /\ p.alive = "run" /\ ~r.done => Doomed(r.p, d) /\ (d = "pm3" => r.p.alive # "run")
         /\ p.alive # "run" => r.p = p
  <1> DEFINE N == Len(InitOf[d])
             Base(q) == Left(p, q, d) /\ FilesLeft(p, q) /\ (BmKept(p) => BmKept(q))
             X == {q \in Processes : Base(q) /\ Doomed(q, d) /\ (d = "pm3" => q.alive # "run")}
  <1>1. PICK k \in 1 .. N : IsBm(InitOf[d][k])
    BY OpenersInit
  <1> DEFINE S == [i \in 0 .. N |-> {q \in Processes : Base(q) /\ (i >= k => BmKept(q))}]
  <1>2. N \in Nat
    BY OpenersInit
  <1>3. ASSUME NEW i \in 1 .. N, NEW q \in S[i - 1], q.alive = "run",
               NEW t \in Calling(d, InitOf[d][i], q)
        PROVE  IF t.alive = "run" /\ (t.ok \/ InitOf[d][i][1] \notin Stops)
               THEN t \in S[i] ELSE t \in X
    <2>1. i - 1 \in 0 .. N /\ i \in 0 .. N
      BY <1>2, SMT
    <2>2. Base(q) /\ (i - 1 >= k => BmKept(q)) /\ q \in Processes
      BY <2>1
    <2>3. Kinds(q) /\ q.world = p.world
      BY <2>2, LeftTyped
    <2> HIDE DEF S
    <2>4. /\ Left(q, t, d) /\ FilesLeft(q, t)
          /\ BmKept(q) \/ IsBm(InitOf[d][i]) => BmKept(t)
      <3>1. CASE IsPlain(InitOf[d][i])
        <4>1. Left(q, t, d) /\ Plain(q, t)
          BY <1>3, <2>2, <2>3, <3>1, PlainCall
        <4>2. FilesLeft(q, t) /\ (BmKept(q) => BmKept(t))
          BY <2>2, <4>1, LeftTyped, PlainKeeps
        <4>3. ~IsBm(InitOf[d][i])
          BY <3>1 DEF IsPlain, IsBm
        <4>4. QED
          BY <4>1, <4>2, <4>3
      <3>2. CASE IsBm(InitOf[d][i])
        BY <1>3, <2>2, <2>3, <3>2, BmCall
      <3>3. QED
        BY <3>1, <3>2, OpenersInit
    <2>5. t \in Processes /\ Base(t)
      BY <2>2, <2>4, LeftTyped, LeftThen, FilesThen
    <2>6. i >= k => BmKept(t)
      <3>1. i >= k => i = k \/ i - 1 >= k
        BY <1>1, <1>2, SMT
      <3>2. QED
        BY <1>1, <2>2, <2>4, <3>1
    <2>7. CASE t.alive = "run" /\ (t.ok \/ InitOf[d][i][1] \notin Stops)
      BY <2>1, <2>5, <2>6, <2>7 DEF S
    <2>8. CASE ~(t.alive = "run" /\ (t.ok \/ InitOf[d][i][1] \notin Stops))
      <3>1. ASSUME t.alive = "run"
            PROVE  /\ d # "pm3"
                   /\ t.ptr[d]["ctl"] = "failed" \/ t.ptr[d]["mem"] = "failed"
        <4>1. ~t.ok /\ d # "pm3" /\ InitOf[d][i][1] = "mapOr" /\ InitOf[d][i][2] \in Regions
          BY <2>8, <3>1, OpenersInit
        <4>2. t \in map_phys_mem(q, d, InitOf[d][i][2])
          BY <1>3, <4>1 DEF Calling
        <4>3. t.ptr[d][InitOf[d][i][2]] = "failed"
          BY <1>3, <2>2, <2>3, <3>1, <4>1, <4>2, MapFailed
        <4>4. QED
          BY <4>1, <4>3 DEF Regions
      <3>2. QED
        BY <2>5, <2>8, <3>1 DEF Doomed
    <2>9. QED
      BY <2>7, <2>8
  <1>4. p \in S[0]
    <2>1. ~(0 >= k) /\ 0 \in 0 .. N
      BY <1>1, <1>2, SMT
    <2>2. FilesLeft(p, p)
      BY DEF FilesLeft
    <2>3. QED
      BY <2>1, <2>2, LeftSame
  <1>5. S[N] = {q \in Processes : Base(q) /\ BmKept(q)}
    <2>1. N \in 0 .. N /\ N >= k
      BY <1>1, <1>2, SMT
    <2>2. QED
      BY <2>1
  <1> HIDE DEF S, X
  <1>6. \A t \in Run(d, InitOf[d], p) : Ends(p, t, S[N], X)
    BY <1>2, <1>3, <1>4, Unrolled
  <1>7. CASE p.alive # "run"
    <2>1. r.p = p
      BY <1>6, <1>7 DEF Ends
    <2>2. FilesLeft(p, p)
      BY DEF FilesLeft
    <2>3. QED
      BY <1>7, <2>1, <2>2, LeftSame
  <1>8. CASE p.alive = "run" /\ r.done
    BY <1>5, <1>6, <1>8 DEF Ends
  <1>9. CASE p.alive = "run" /\ ~r.done
    <2>1. r.p \in X
      BY <1>6, <1>9 DEF Ends
    <2>2. QED
      BY <1>9, <2>1 DEF X
  <1>10. QED
    BY <1>7, <1>8, <1>9

\* A driver whose registers could not be mapped ends the program in vixDestroy.
LEMMA DoomedRun ==
  ASSUME NEW p \in Processes, Kinds(p), NEW d \in Drivers, d \in {"mach64", "radeon"},
         Doomed(p, d), NEW r \in Run(d, DestroyOf[d], p)
  PROVE  Left(p, r.p, d) /\ r.p.alive # "run"
  <1> DEFINE N == Len(DestroyOf[d])
             X == {q \in Processes : Left(p, q, d) /\ q.alive # "run"}
             Base(q) == Left(p, q, d) /\ Doomed(q, d)
             S == [i \in 0 .. N |->
                    IF i = 0 THEN {q \in Processes : Base(q)}
                    ELSE IF i = 1 THEN {q \in Processes : Base(q) /\ q.ptr[d]["mem"] = "failed"}
                    ELSE {}]
  <1>1. /\ N \in Nat /\ N >= 2
        /\ DestroyOf[d][1] = <<"regs", "ctl">> /\ DestroyOf[d][2] = <<"unmapSized", "mem">>
    BY DoomedStart
  <1>2. S[0] = {q \in Processes : Base(q)} /\ S[N] = {}
        /\ S[1] = {q \in Processes : Base(q) /\ q.ptr[d]["mem"] = "failed"}
        /\ S[2] = {} /\ \A i \in 2 .. N : S[i] = {}
    <2> HIDE DEF Base
    <2>1. QED
      BY <1>1
  <1>3. ASSUME NEW i \in 1 .. N, NEW q \in S[i - 1], q.alive = "run",
               NEW t \in Calling(d, DestroyOf[d][i], q)
        PROVE  IF t.alive = "run" /\ (t.ok \/ DestroyOf[d][i][1] \notin Stops)
               THEN t \in S[i] ELSE t \in X
    <2> HIDE DEF S, N
    <2>1. i = 1 \/ i = 2 \/ i - 1 \in 2 .. N
      BY <1>1, SMT
    <2>2. i # 1 => i = 2
      BY <1>2, <1>3, <2>1
    <2>3. q \in Processes /\ Base(q)
      BY <1>2, <1>3, <2>2
    <2>4. CASE i = 1
      <3>1. t = IF q.ptr[d]["ctl"] = "held" THEN q ELSE Faults(q)
        BY <1>1, <1>3, <2>4, SMTT(20) DEF Calling, regs
      <3>2. CASE q.ptr[d]["ctl"] = "held"
        <4>1. t = q /\ q.ptr[d]["mem"] = "failed"
          BY <1>3, <2>3, <3>1, <3>2 DEF Doomed
        <4>2. t \in S[1] /\ 1 \notin {0}
          BY <1>2, <2>3, <4>1
        <4>3. t.ok \/ t \in S[1]
          BY <4>2
        <4>4. DestroyOf[d][1][1] \notin Stops
          BY <1>1 DEF Stops
        <4>5. QED
          BY <1>3, <2>4, <4>1, <4>2, <4>4
      <3>3. CASE q.ptr[d]["ctl"] # "held"
        <4>1. t = Faults(q) /\ t.alive = "fault" /\ Left(q, t, d)
          BY <2>3, <3>1, <3>3, LeftTyped, DeadLeft
        <4>2. t \in X
          BY <2>3, <4>1, LeftTyped, LeftThen
        <4>3. QED
          BY <4>1, <4>2
      <3>4. QED
        BY <3>2, <3>3
    <2>5. CASE i = 2
      <3>1. q.ptr[d]["mem"] = "failed"
        <4>1. i - 1 = 1
          BY <2>5
        <4>2. QED
          BY <1>2, <1>3, <4>1
      <3>2. t = Exits(q)
        <4>1. t \in unmap_phys_mem(q, d, "mem", "sized")
          BY <1>1, <1>3, <2>5, SMTT(20) DEF Calling
        <4>2. UnmapFails(q, d, "mem", "sized")
          BY <3>1 DEF UnmapFails
        <4>3. QED
          BY <4>1, <4>2 DEF unmap_phys_mem
      <3>3. t.alive = "exit" /\ Left(q, t, d)
        BY <2>3, <3>2, LeftTyped, DeadLeft
      <3>4. t \in X
        BY <2>3, <3>3, LeftTyped, LeftThen
      <3>5. QED
        BY <3>3, <3>4
    <2>6. QED
      BY <2>2, <2>4, <2>5
  <1>4. p \in S[0]
    BY <1>2, LeftSame
  <1> HIDE DEF S, X
  <1>5. \A t \in Run(d, DestroyOf[d], p) : Ends(p, t, S[N], X)
    BY <1>1, <1>3, <1>4, Unrolled
  <1>6. CASE p.alive # "run"
    BY <1>5, <1>6, LeftSame DEF Ends
  <1>7. CASE p.alive = "run"
    <2>1. r.p \in X
      BY <1>2, <1>5, <1>7 DEF Ends
    <2>2. QED
      BY <2>1 DEF X
  <1>8. QED
    BY <1>6, <1>7

\* A driver that closes what it opened for bus mastering, or has no part in it.
LEMMA BmCloseDo ==
  ASSUME NEW p \in Processes, Kinds(p), BmKept(p), NEW d, NEW q \in bm_close(p)
  PROVE  Left(p, q, d) /\ FilesLeft(p, q) /\ q.bmFd = p.bmFd
  <1>1. CASE p.bmFd = NoFd
    <2>1. NoFd \notin Fds
      BY FdsAssumption DEF NoFd
    <2>2. q = p
      BY <1>1, <2>1 DEF bm_close, CloseFd
    <2>3. QED
      BY <2>2, LeftSame DEF FilesLeft
  <1>2. CASE p.bmFd # NoFd
    <2>1. p.bmFd \in Fds /\ p.owner[p.bmFd] = "bm"
      BY <1>2 DEF BmKept, Processes
    <2>2. q = [p EXCEPT !.owner[p.bmFd] = "none"]
      BY <2>1 DEF bm_close, CloseFd
    <2>3. q \in Processes
      <3>1. [p.owner EXCEPT ![p.bmFd] = "none"] \in [Fds -> Users]
        BY DEF Processes, Users
      <3>2. QED
        BY <2>2, <3>1 DEF Processes
    <2>4. /\ q.world = p.world /\ q.ptr = p.ptr /\ q.live = p.live /\ q.dma = p.dma
          /\ q.irq = p.irq /\ q.memFd = p.memFd /\ q.ioFd = p.ioFd /\ q.irqFd = p.irqFd
          /\ q.file = p.file /\ q.bmFd = p.bmFd /\ q.owner = [p.owner EXCEPT ![p.bmFd] = "none"]
      BY <2>2 DEF Processes
    <2>5. Kinds(q) /\ AppFds(q) = AppFds(p) /\ FilesLeft(p, q)
      BY <2>1, <2>4 DEF Processes, Kinds, AppFds, FilesLeft
    <2>6. QED
      BY <2>3, <2>4, <2>5 DEF Left
  <1>3. QED
    BY <1>1, <1>2

\* vixDestroy closes the descriptor for bus mastering once.
LEMMA ClosersDestroy ==
  ASSUME NEW d \in Closers
  PROVE  /\ Len(DestroyOf[d]) \in Nat
         /\ \E k \in 1 .. Len(DestroyOf[d]) :
              /\ DestroyOf[d][k][1] = "bmClose"
              /\ \A i \in 1 .. Len(DestroyOf[d]) : i # k => IsPlain(DestroyOf[d][i])
  <1>1. CASE d = "mach64"
    <2>1. /\ Len(DestroyOf[d]) = 7 /\ DestroyOf[d][4][1] = "bmClose"
          /\ \A i \in 1 .. 7 : i # 4 => IsPlain(DestroyOf[d][i])
      BY <1>1 DEF DestroyOf, Mach64Destroy, IsPlain, Regions, Blocks
    <2>2. QED
      BY <2>1
  <1>2. CASE d = "pm3"
    <2>1. /\ Len(DestroyOf[d]) = 5 /\ DestroyOf[d][5][1] = "bmClose"
          /\ \A i \in 1 .. 5 : i # 5 => IsPlain(DestroyOf[d][i])
      BY <1>2 DEF DestroyOf, Pm3Destroy, IsPlain, Regions, Blocks
    <2>2. QED
      BY <2>1
  <1>3. CASE d = "radeon"
    <2>1. /\ Len(DestroyOf[d]) = 4 /\ DestroyOf[d][4][1] = "bmClose"
          /\ \A i \in 1 .. 4 : i # 4 => IsPlain(DestroyOf[d][i])
      BY <1>3 DEF DestroyOf, RadeonDestroy, IsPlain, Regions, Blocks
    <2>2. QED
      BY <2>1
  <1>4. CASE d = "radeonhd"
    <2>1. /\ Len(DestroyOf[d]) = 3 /\ DestroyOf[d][3][1] = "bmClose"
          /\ \A i \in 1 .. 3 : i # 3 => IsPlain(DestroyOf[d][i])
      BY <1>4 DEF DestroyOf, RadeonhdDestroy, IsPlain, Regions, Blocks
    <2>2. QED
      BY <2>1
  <1>5. QED
    BY <1>1, <1>2, <1>3, <1>4 DEF Closers, Openers

LEMMA ClosersRun ==
  ASSUME NEW p \in Processes, Kinds(p), BmKept(p), NEW d \in Drivers, d \in Closers,
         NEW r \in Run(d, DestroyOf[d], p)
  PROVE  Left(p, r.p, d) /\ FilesLeft(p, r.p) /\ r.p.bmFd = p.bmFd
  <1> DEFINE N == Len(DestroyOf[d])
             X == {q \in Processes : Left(p, q, d) /\ FilesLeft(p, q) /\ q.bmFd = p.bmFd}
  <1>1. N \in Nat
    BY ClosersDestroy
  <1>2. PICK k \in 1 .. N : /\ DestroyOf[d][k][1] = "bmClose"
                            /\ \A i \in 1 .. N : i # k => IsPlain(DestroyOf[d][i])
    BY ClosersDestroy
  <1> DEFINE S == [i \in 0 .. N |-> {q \in X : i < k => BmKept(q)}]
  <1>3. ASSUME NEW i \in 1 .. N, NEW q \in S[i - 1], q.alive = "run",
               NEW t \in Calling(d, DestroyOf[d][i], q)
        PROVE  IF t.alive = "run" /\ (t.ok \/ DestroyOf[d][i][1] \notin Stops)
               THEN t \in S[i] ELSE t \in X
    <2>1. i - 1 \in 0 .. N /\ i \in 0 .. N
      BY <1>1, SMT
    <2>2. q \in X /\ (i - 1 < k => BmKept(q))
      BY <2>1
    <2>3. /\ q \in Processes /\ Kinds(q) /\ Left(p, q, d) /\ FilesLeft(p, q)
          /\ q.bmFd = p.bmFd
      BY <2>2, LeftTyped
    <2> HIDE DEF S, X
    <2>4. Left(q, t, d) /\ FilesLeft(q, t) /\ t.bmFd = q.bmFd /\ (i < k => BmKept(t))
      <3>1. CASE i = k
        <4>1. i - 1 < k /\ ~(i < k)
          BY <1>1, <1>2, <3>1, SMT
        <4>2. t \in bm_close(q)
          BY <1>2, <1>3, <3>1 DEF Calling
        <4>3. QED
          BY <2>2, <2>3, <4>1, <4>2, BmCloseDo
      <3>2. CASE i # k
        <4>1. Left(q, t, d) /\ Plain(q, t)
          <5>1. IsPlain(DestroyOf[d][i])
            BY <1>2, <3>2
          <5>2. QED
            BY <1>3, <2>3, <5>1, PlainCall
        <4>2. FilesLeft(q, t) /\ t.bmFd = q.bmFd /\ (BmKept(q) => BmKept(t))
          BY <2>3, <4>1, LeftTyped, PlainKeeps DEF Plain
        <4>3. i < k => i - 1 < k
          BY <1>1, <1>2, SMT
        <4>4. QED
          BY <2>2, <4>1, <4>2, <4>3
      <3>3. QED
        BY <3>1, <3>2
    <2>5. t \in X
      <3>1. t \in Processes /\ Left(p, t, d) /\ FilesLeft(p, t) /\ t.bmFd = p.bmFd
        BY <2>3, <2>4, LeftTyped, LeftThen, FilesThen
      <3>2. QED
        BY <3>1 DEF X
    <2>6. t \in S[i]
      BY <2>1, <2>4, <2>5 DEF S
    <2>7. QED
      BY <2>5, <2>6
  <1>4. p \in X
    BY LeftSame DEF FilesLeft
  <1>5. p \in S[0]
    <2>1. 0 \in 0 .. N
      BY <1>1, SMT
    <2> HIDE DEF X
    <2>2. QED
      BY <1>4, <2>1
  <1>6. \A q \in S[N] : q \in X
    <2>1. N \in 0 .. N
      BY <1>1, SMT
    <2> HIDE DEF X
    <2>2. QED
      BY <2>1
  <1> HIDE DEF S, X
  <1>7. \A t \in Run(d, DestroyOf[d], p) : Ends(p, t, S[N], X)
    BY <1>1, <1>3, <1>5, Unrolled
  <1>8. r.p \in X
    BY <1>4, <1>6, <1>7 DEF Ends
  <1>9. QED
    BY <1>8 DEF X

LEMMA HandThen ==
  ASSUME NEW p, NEW q, NEW r, NEW d, Hand(p, q, d), Hand(q, r, d)
  PROVE  Hand(p, r, d)
  BY LeftThen, FilesThen DEF Hand

LEMMA BmLeftThen ==
  ASSUME NEW p, NEW q, NEW r, BmLeft(p, q), BmLeft(q, r)
  PROVE  BmLeft(p, r)
  BY DEF BmLeft

LEMMA PlainHand ==
  ASSUME NEW p \in Processes, NEW q, NEW d, Left(p, q, d), Plain(p, q)
  PROVE  Hand(p, q, d) /\ BmLeft(p, q) /\ (OwnFiles(p, d) /\ d \in Drivers => OwnFiles(q, d))
  <1>1. FilesLeft(p, q)
    BY LeftTyped, PlainKeeps
  <1>2. ASSUME OwnFiles(p, d), d \in Drivers PROVE OwnFiles(q, d)
    <2> SUFFICES ASSUME NEW f \in Files, q.file[d][f] # NoFd
                 PROVE  q.owner[q.file[d][f]] = "driver"
      BY DEF OwnFiles
    <2>1. q.file = p.file /\ p.owner[p.file[d][f]] = "driver"
      BY <1>2 DEF Plain, OwnFiles
    <2>2. p.file[d][f] \in Fds
      BY <1>2, <2>1 DEF Processes
    <2>3. QED
      BY <2>1, <2>2 DEF Plain
  <1>3. QED
    BY <1>1, <1>2, PlainBmLeft DEF Hand

LEMMA HandSame ==
  ASSUME NEW p \in Processes, Kinds(p), NEW d
  PROVE  Hand(p, p, d) /\ BmLeft(p, p)
  BY LeftSame, PlainBmLeft DEF Hand, FilesLeft

\* The calls of vixProbe of ivtv.
LEMMA IvtvProbeCall ==
  ASSUME NEW p \in Processes, Kinds(p), p.alive = "run", NEW d \in Drivers, OwnFiles(p, d),
         NEW s, IsPlain(s) \/ IsOpen(s), NEW q \in Calling(d, s, p)
  PROVE  /\ Left(p, q, d) /\ BmLeft(p, q)
         /\ q.ok \/ s[1] \notin Stops => OwnFiles(q, d)
  <1>1. CASE IsPlain(s)
    BY <1>1, PlainCall, PlainHand
  <1>2. CASE s[1] = "openOr" /\ s[2] \in Files
    <2>1. q \in device_open(p, d, s[2])
      BY <1>2 DEF Calling
    <2>2. QED
      BY <1>2, <2>1, DeviceOpenLeft DEF BmLeft
  <1>3. CASE s[1] = "screenOr" /\ s[2] \in Files
    <2>1. q \in Screen(p, d, s[2])
      BY <1>3 DEF Calling
    <2>2. CASE q = Says(p, TRUE) \/ q = Says(p, FALSE)
      <3>1. Left(p, q, d) /\ Plain(p, q)
        BY <2>2, SaysLeft
      <3>2. QED
        BY <3>1, PlainHand
    <2>3. ASSUME NEW n, n = p.file[d][s[2]], n # NoFd,
                 NEW t, t = Says(p, FALSE), q = FileClosed(t, n)
          PROVE  /\ Left(p, q, d) /\ BmLeft(p, q)
                 /\ q.ok \/ s[1] \notin Stops => OwnFiles(q, d)
      <3>1. Left(p, t, d) /\ BmLeft(p, t) /\ OwnFiles(t, d)
        BY <2>3, SaysLeft, PlainHand
      <3>2. ~t.ok /\ t.file = p.file
        BY <2>3 DEF Says, Processes
      <3>3. n \in Fds /\ t.owner[n] = "driver"
        <4>1. n \in Fds
          BY <1>3, <2>3 DEF Processes
        <4>2. QED
          BY <1>3, <2>3, <3>1, <3>2, <4>1 DEF OwnFiles
      <3>4. t \in Processes /\ Kinds(t)
        BY <3>1, LeftTyped
      <3>5. Left(t, q, d) /\ Gone(t, q, n)
        BY <2>3, <3>3, <3>4, FileClosedLeft
      <3>6. BmLeft(t, q)
        BY <3>3, <3>5 DEF BmLeft, Gone
      <3>7. s[1] \in Stops
        BY <1>3 DEF Stops
      <3>8. QED
        BY <3>1, <3>2, <3>5, <3>6, <3>7, LeftThen, BmLeftThen DEF Gone
    <2>4. \/ q = Says(p, TRUE)
          \/ p.file[d][s[2]] = NoFd /\ q = Says(p, FALSE)
          \/ p.file[d][s[2]] # NoFd /\ q = FileClosed(Says(p, FALSE), p.file[d][s[2]])
      BY <1>3, <2>1, ScreenDo
    <2>5. QED
      BY <2>2, <2>3, <2>4
  <1>4. QED
    BY <1>1, <1>2, <1>3 DEF IsOpen

LEMMA ProbeRun ==
  ASSUME NEW p \in Processes, Kinds(p), p.alive = "run", NEW d \in Drivers,
         d = "ivtv" => OwnFiles(p, d), NEW r \in Run(d, ProbeOf(d), p)
  PROVE  /\ Hand(p, r.p, d) /\ BmLeft(p, r.p)
         /\ r.done => r.p.alive = "run" /\ (d = "ivtv" => OwnFiles(r.p, d))
  <1>1. CASE d # "ivtv"
    <2>1. Left(p, r.p, d) /\ Plain(p, r.p) /\ (r.done => r.p.alive = "run")
      BY <1>1, DriversAssumption, ProbesPlain, PlainRun
    <2>2. QED
      BY <1>1, <2>1, PlainHand
  <1>2. CASE d = "ivtv"
    <2> DEFINE script == ProbeOf(d)
               N == Len(script)
               X == {q \in Processes : Left(p, q, d) /\ BmLeft(p, q)}
               S == [i \in 0 .. N |-> {q \in X : OwnFiles(q, d)}]
    <2>1. N = 5 /\ \A i \in 1 .. 5 : IsPlain(script[i]) \/ IsOpen(script[i])
      BY <1>2 DEF ProbeOf, IvtvProbe, IsPlain, IsOpen, Files
    <2>2. ASSUME NEW i \in 1 .. N, NEW q \in S[i - 1], q.alive = "run",
                 NEW t \in Calling(d, script[i], q)
          PROVE  IF t.alive = "run" /\ (t.ok \/ script[i][1] \notin Stops)
                 THEN t \in S[i] ELSE t \in X
      <3>1. S[i - 1] = {x \in X : OwnFiles(x, d)} /\ S[i] = {x \in X : OwnFiles(x, d)}
        BY <2>1
      <3>2. IsPlain(script[i]) \/ IsOpen(script[i])
        BY <2>1
      <3> HIDE DEF S, script, N
      <3>3. /\ q \in Processes /\ Kinds(q) /\ Left(p, q, d) /\ BmLeft(p, q)
            /\ OwnFiles(q, d)
        BY <3>1, LeftTyped
      <3>4. Left(q, t, d) /\ BmLeft(q, t) /\ (t.ok \/ script[i][1] \notin Stops => OwnFiles(t, d))
        BY <2>2, <3>2, <3>3, IvtvProbeCall
      <3>5. t \in X
        BY <3>3, <3>4, LeftTyped, LeftThen, BmLeftThen
      <3>6. QED
        BY <3>1, <3>4, <3>5
    <2>3. p \in X
      BY HandSame DEF Hand
    <2>4. p \in S[0] /\ S[N] = {q \in X : OwnFiles(q, d)}
      <3> HIDE DEF X
      <3> QED BY <1>2, <2>1, <2>3
    <2>5. N \in Nat /\ p \in S[0]
      BY <2>1, <2>4
    <2> HIDE DEF S, X, script
    <2>6. \A t \in Run(d, script, p) : Ends(p, t, S[N], X)
      BY <2>2, <2>5, Unrolled
    <2>7. r.p \in X /\ (r.done => r.p.alive = "run" /\ OwnFiles(r.p, d))
      BY <2>4, <2>6 DEF script, Ends
    <2>8. QED
      BY <1>2, <2>7 DEF X, Hand
  <1>3. QED
    BY <1>1, <1>2

LEMMA IvtvDestroyCall ==
  ASSUME NEW p \in Processes, Kinds(p), NEW d \in Drivers, FilesSafe(p, d),
         NEW s, IsClose(s) \/ (s[1] = "free" /\ s[2] \in Blocks), NEW q \in Calling(d, s, p)
  PROVE  Left(p, q, d) /\ BmLeft(p, q) /\ FilesSafe(q, d)
  <1>1. CASE s[1] = "free" /\ s[2] \in Blocks
    <2>1. q \in free(p, d, s[2])
      BY <1>1 DEF Calling
    <2>2. Left(p, q, d) /\ Plain(p, q)
      BY <1>1, <2>1, AllocLeft
    <2>3. q.owner = p.owner /\ q.file = p.file
      BY <2>1 DEF free, Processes
    <2>4. QED
      BY <2>2, <2>3, PlainHand DEF FilesSafe
  <1>2. CASE IsClose(s)
    <2>1. s[2] \in Files /\ q \in device_close(p, d, s[2])
      BY <1>2 DEF Calling, IsClose
    <2>2. CASE q = p
      BY <2>2, HandSame DEF Hand
    <2>3. ASSUME NEW n, n = p.file[d][s[2]], n # NoFd, q = FileClosed(p, n)
          PROVE  Left(p, q, d) /\ BmLeft(p, q) /\ FilesSafe(q, d)
      <3>1. n \in Fds /\ p.owner[n] \in {"driver", "none"}
        BY <2>1, <2>3 DEF FilesSafe, Processes
      <3>2. Left(p, q, d) /\ Gone(p, q, n)
        BY <2>3, <3>1, FileClosedLeft
      <3>3. BmLeft(p, q)
        BY <3>1, <3>2 DEF BmLeft, Gone
      <3>4. FilesSafe(q, d)
        <4> SUFFICES ASSUME NEW f \in Files, q.file[d][f] # NoFd
                     PROVE  q.owner[q.file[d][f]] \in {"driver", "none"}
          BY DEF FilesSafe
        <4>1. /\ q.file[d][f] = p.file[d][f] /\ p.file[d][f] \in Fds
              /\ p.owner[p.file[d][f]] \in {"driver", "none"}
          BY <3>2 DEF FilesSafe, Processes, Gone
        <4>2. QED
          BY <3>2, <4>1 DEF Gone
      <3>5. QED
        BY <3>2, <3>3, <3>4
    <2>4. QED
      BY <2>1, <2>2, <2>3, DeviceCloseDo
  <1>3. QED
    BY <1>1, <1>2

LEMMA IvtvDestroyRun ==
  ASSUME NEW p \in Processes, Kinds(p), NEW d \in Drivers, d = "ivtv", OwnFiles(p, d),
         NEW r \in Run(d, DestroyOf[d], p)
  PROVE  Left(p, r.p, d) /\ BmLeft(p, r.p)
  <1> DEFINE script == DestroyOf[d]
             N == Len(script)
             X == {q \in Processes : Left(p, q, d) /\ BmLeft(p, q) /\ FilesSafe(q, d)}
             S == [i \in 0 .. N |-> X]
  <1>1. N = 4 /\ \A i \in 1 .. 4 :
                   IsClose(script[i]) \/ (script[i][1] = "free" /\ script[i][2] \in Blocks)
    BY DEF DestroyOf, IvtvDestroy, IsClose, Files, Blocks
  <1>2. ASSUME NEW i \in 1 .. N, NEW q \in S[i - 1], q.alive = "run",
               NEW t \in Calling(d, script[i], q)
        PROVE  IF t.alive = "run" /\ (t.ok \/ script[i][1] \notin Stops)
               THEN t \in S[i] ELSE t \in X
    <2>1. S[i - 1] = X /\ S[i] = X
      BY <1>1
    <2>2. IsClose(script[i]) \/ (script[i][1] = "free" /\ script[i][2] \in Blocks)
      BY <1>1
    <2> HIDE DEF S, script, N
    <2>3. /\ q \in Processes /\ Kinds(q) /\ Left(p, q, d) /\ BmLeft(p, q)
          /\ FilesSafe(q, d)
      BY <2>1, LeftTyped
    <2>4. Left(q, t, d) /\ BmLeft(q, t) /\ FilesSafe(t, d)
      BY <1>2, <2>2, <2>3, IvtvDestroyCall
    <2>5. t \in X
      BY <2>3, <2>4, LeftTyped, LeftThen, BmLeftThen
    <2>6. QED
      BY <2>1, <2>5
  <1>3. p \in X
    BY HandSame DEF Hand, OwnFiles, FilesSafe
  <1>4. S[0] = X /\ S[N] = X
    BY <1>1
  <1>5. N \in Nat /\ p \in S[0]
    <2> HIDE DEF X
    <2> QED BY <1>1, <1>3
  <1> HIDE DEF S, X, script
  <1>6. \A t \in Run(d, script, p) : Ends(p, t, S[N], X)
    BY <1>2, <1>5, Unrolled
  <1>7. r.p \in X
    BY <1>3, <1>4, <1>6 DEF script, Ends
  <1>8. QED
    BY <1>7 DEF X

LEMMA UnloadDo ==
  ASSUME NEW p \in Processes, Kinds(p), NEW d \in Drivers, NEW q, q = Unload(d, p)
  PROVE  Left(p, q, d) /\ Unloaded(p, q, d)
  <1> DEFINE u == [p EXCEPT !.ptr[d] = [t \in Things |-> "null"],
                            !.file[d] = [f \in Files |-> NoFd],
                            !.dma[d] = FALSE,
                            !.irq[d] = IF @ = "tried" THEN "no" ELSE @]
  <1>1. q = IF Used \subseteq {d} THEN Loaded(u) ELSE u
    BY DEF Unload
  <1>2. u \in Processes
    <2>1. [p.ptr EXCEPT ![d] = [t \in Things |-> "null"]]
            \in [Drivers -> [Things -> {"null", "failed", "held"}]]
      BY DEF Processes
    <2>2. [p.file EXCEPT ![d] = [f \in Files |-> NoFd]] \in [Drivers -> [Files -> Fds \cup {NoFd}]]
      BY DEF Processes
    <2>3. /\ [p.dma EXCEPT ![d] = FALSE] \in [Drivers -> BOOLEAN]
          /\ [p.irq EXCEPT ![d] = IF @ = "tried" THEN "no" ELSE @]
               \in [Drivers -> {"no", "tried", "yes"}]
      BY DEF Processes
    <2>4. QED
      BY <2>1, <2>2, <2>3 DEF Processes
  <1>3. /\ u.world = p.world /\ u.owner = p.owner /\ u.alive = p.alive /\ u.bmFd = p.bmFd
        /\ u.memFd = p.memFd /\ u.ioFd = p.ioFd /\ u.irqFd = p.irqFd
        /\ u.live = p.live
        /\ u.ptr = [p.ptr EXCEPT ![d] = [t \in Things |-> "null"]]
        /\ u.file = [p.file EXCEPT ![d] = [f \in Files |-> NoFd]]
        /\ u.dma = [p.dma EXCEPT ![d] = FALSE]
        /\ u.irq = [p.irq EXCEPT ![d] = IF @ = "tried" THEN "no" ELSE @]
    BY DEF Processes
  <1> HIDE DEF u
  <1>4. /\ \A f \in Files : u.file[d][f] = NoFd
        /\ \A e \in Drivers \ {d} : /\ u.ptr[e] = p.ptr[e] /\ u.file[e] = p.file[e]
                                    /\ u.dma[e] = p.dma[e] /\ u.irq[e] = p.irq[e]
    BY <1>3 DEF Processes
  <1>5. Left(p, u, d)
    BY <1>2, <1>3, <1>4 DEF Left, AppFds, Kinds
  <1>6. CASE Used \subseteq {d}
    <2>1. q = Loaded(u)
      BY <1>1, <1>6
    <2>2. q \in Processes
      <3>1. 0 \in 0 .. Width - 1 /\ NoFd \in Fds \cup {NoFd}
        BY WidthAssumption
      <3>2. QED
        BY <1>2, <2>1, <3>1, ZenonT(40) DEF Loaded, Processes
    <2>3. /\ q.world = u.world /\ q.owner = u.owner /\ q.alive = u.alive /\ q.bmFd = NoFd
          /\ q.memFd = NoFd /\ q.ioFd = NoFd /\ q.irqFd = NoFd
          /\ q.live = u.live /\ q.ptr = u.ptr /\ q.file = u.file /\ q.dma = u.dma /\ q.irq = u.irq
      BY <1>2, <2>1 DEF Loaded, Processes
    <2>4. Left(u, q, d)
      BY <2>2, <2>3 DEF Left, AppFds, Kinds
    <2>5. Unloaded(p, q, d)
      BY <1>3, <1>4, <1>6, <2>3 DEF Unloaded
    <2>6. QED
      BY <1>5, <2>4, <2>5, LeftThen
  <1>7. CASE ~(Used \subseteq {d})
    BY <1>1, <1>3, <1>4, <1>5, <1>7 DEF Unloaded
  <1>8. QED
    BY <1>6, <1>7

----------------------------------------------------------------------------
\* The parts of the invariant of the descriptors.
LEMMA FilesKept ==
  ASSUME NEW p \in Processes, NEW q \in Processes, NEW st, NEW su, NEW d \in Drivers,
         FilesGood(p, st), Hand(p, q, d), OwnGood(q, su, d),
         \A e \in Drivers \ {d} : st[e] = su[e]
  PROVE  FilesGood(q, su)
  <1> SUFFICES ASSUME NEW e \in Drivers, e # d
               PROVE  IF e = "ivtv" /\ su[e] # "closed" THEN OwnFiles(q, e)
                      ELSE \A f \in Files : q.file[e][f] = NoFd
    BY DEF FilesGood, OwnGood
  <1>1. q.file[e] = p.file[e]
    BY DEF Hand, Left
  <1>2. CASE e = "ivtv" /\ su[e] # "closed"
    <2> SUFFICES ASSUME NEW f \in Files, q.file[e][f] # NoFd
                 PROVE  q.owner[q.file[e][f]] = "driver"
      BY <1>2 DEF OwnFiles
    <2>1. p.file[e][f] \in Fds /\ p.owner[p.file[e][f]] = "driver"
      BY <1>1, <1>2 DEF FilesGood, OwnFiles, Processes
    <2>2. FilesLeft(p, q)
      BY <1>2 DEF Hand
    <2>3. QED
      BY <1>1, <2>1, <2>2 DEF FilesLeft
  <1>3. CASE ~(e = "ivtv" /\ su[e] # "closed")
    BY <1>1, <1>3 DEF FilesGood
  <1>4. QED
    BY <1>2, <1>3

\* Handlers without a call that closes or replaces the descriptor.
LEMMA BmSteady ==
  ASSUME NEW p \in Processes, NEW q \in Processes, NEW st, NEW su,
         BmGood(p, st), BmLeft(p, q), q.world = p.world,
         \A e \in Drivers : st[e] = "closed" <=> su[e] = "closed"
  PROVE  BmGood(q, su)
  <1>1. q.bmFd = p.bmFd
    BY DEF BmLeft
  <1>2. QED
    BY <1>1, BmLeftKeeps DEF BmGood

LEMMA UseSteady ==
  ASSUME NEW p, NEW q, NEW st, NEW su, UseGood(p, st), q.world = p.world,
         \A e \in Drivers : su[e] # "closed" => st[e] # "closed"
  PROVE  UseGood(q, su)
  BY DEF UseGood

\* Playback and configuration.
LEMMA PlainStep ==
  ASSUME NEW p \in Processes, NEW q, NEW st, NEW su, NEW d \in Drivers, st[d] # "closed",
         Kinds(p), FilesGood(p, st), BmGood(p, st), UseGood(p, st), Left(p, q, d), Plain(p, q),
         su[d] # "closed", \A e \in Drivers \ {d} : su[e] = st[e]
  PROVE  Sound(q, su)
  <1>1. q \in Processes /\ Kinds(q) /\ q.world = p.world
    BY LeftTyped
  <1>2. Hand(p, q, d) /\ BmLeft(p, q) /\ (OwnFiles(p, d) => OwnFiles(q, d))
    BY PlainHand
  <1>3. OwnGood(q, su, d)
    <2>1. q.file = p.file
      BY DEF Plain
    <2>2. QED
      BY <1>2, <2>1 DEF OwnGood, FilesGood
  <1>4. FilesGood(q, su)
    BY <1>1, <1>2, <1>3, FilesKept
  <1>5. BmGood(q, su)
    BY <1>1, <1>2, BmSteady
  <1>6. UseGood(q, su)
    BY <1>1, UseSteady
  <1>7. QED
    BY <1>1, <1>4, <1>5, <1>6 DEF Sound

\* Whether the descriptor for bus mastering is good when a driver that closes it
\* starts to work: so it is, or a stale one is replaced before it is closed.
LEMMA ClosersStart ==
  ASSUME NEW p \in Processes, NEW d \in Drivers, d \in Closers, d \in Uses[p.world],
         BmGood(p, stage), p.world \in Several \/ Used = {}
  PROVE  BmKept(p) \/ d \in Openers
  <1>1. CASE p.world \notin Several
    <2>1. p.bmFd = NoFd
      BY <1>1 DEF BmGood, Used
    <2>2. QED
      BY <2>1 DEF BmKept
  <1>2. CASE p.world \in Several /\ d \notin Openers
    <2>1. Uses[p.world] \cap Openers = {}
      BY <1>2, MasterAssumption DEF Closers
    <2>2. p.bmFd = NoFd
      BY <2>1 DEF BmGood
    <2>3. QED
      BY <2>2 DEF BmKept
  <1>3. QED
    BY <1>1, <1>2

\* vixDestroy
LEMMA DestroyRun ==
  ASSUME NEW p \in Processes, Kinds(p), NEW d \in Drivers, d \in Closers => BmKept(p),
         d = "ivtv" => OwnFiles(p, d), NEW r \in Run(d, DestroyOf[d], p)
  PROVE  /\ Hand(p, r.p, d) /\ r.p.bmFd = p.bmFd
         /\ d \notin Closers => BmLeft(p, r.p)
  <1>1. d \in DriverNames
    BY DriversAssumption
  <1>2. CASE d \in Closers
    BY <1>2, ClosersRun DEF Hand
  <1>3. CASE d = "ivtv"
    BY <1>3, IvtvDestroyRun DEF Hand, BmLeft
  <1>4. CASE d \notin Closers /\ d # "ivtv"
    <2>1. /\ Len(DestroyOf[d]) \in Nat
          /\ \A i \in 1 .. Len(DestroyOf[d]) : IsPlain(DestroyOf[d][i])
      BY <1>1, <1>4, DestroysPlain
    <2>2. Left(p, r.p, d) /\ Plain(p, r.p)
      BY <2>1, PlainRun
    <2>3. QED
      BY <2>2, PlainHand DEF BmLeft
  <1>5. QED
    BY <1>2, <1>3, <1>4

\* A driver that is closed again.
LEMMA ClosedStep ==
  ASSUME NEW p \in Processes, Kinds(p), FilesGood(p, stage), BmGood(p, stage),
         UseGood(p, stage), NEW d \in Drivers, NEW q, Hand(p, q, d), q.bmFd = p.bmFd,
         BmLeft(p, q) \/ (d \in Closers /\ d \in Uses[p.world]),
         p.world \in Several \/ Used \subseteq {d},
         NEW su, su[d] = "closed", \A e \in Drivers \ {d} : su[e] = stage[e],
         NEW t, t = Unload(d, q)
  PROVE  Sound(t, su) /\ Left(p, t, d)
  <1>1. q \in Processes /\ Kinds(q) /\ q.world = p.world /\ Left(p, q, d)
    BY LeftTyped DEF Hand
  <1>2. Left(q, t, d) /\ Unloaded(q, t, d)
    BY <1>1, UnloadDo
  <1>3. t \in Processes /\ Kinds(t) /\ t.world = q.world
    BY <1>2, LeftTyped
  <1>4. Left(p, t, d)
    BY <1>1, <1>2, LeftThen
  <1>5. FilesGood(t, su)
    <2>1. \A e \in Drivers \ {d} : t.file[e] = p.file[e]
      BY <1>4 DEF Left
    <2>2. \A f \in Files : t.file[d][f] = NoFd
      BY <1>2 DEF Unloaded
    <2>3. ASSUME NEW e \in Drivers \ {d}, e = "ivtv", su[e] # "closed"
          PROVE  OwnFiles(t, e)
      <3> SUFFICES ASSUME NEW f \in Files, t.file[e][f] # NoFd
                   PROVE  t.owner[t.file[e][f]] = "driver"
        BY DEF OwnFiles
      <3>1. t.file[e][f] \in Fds /\ p.owner[t.file[e][f]] = "driver"
        BY <2>1, <2>3 DEF FilesGood, OwnFiles, Processes
      <3>2. FilesLeft(p, q)
        BY <2>3 DEF Hand
      <3>3. QED
        BY <1>2, <3>1, <3>2 DEF FilesLeft, Unloaded
    <2>4. \A e \in Drivers \ {d} : ~(e = "ivtv" /\ su[e] # "closed") =>
             \A f \in Files : t.file[e][f] = NoFd
      BY <2>1 DEF FilesGood
    <2>5. QED
      BY <2>2, <2>3, <2>4 DEF FilesGood
  <1>6. BmGood(t, su)
    <2>1. CASE Used \subseteq {d}
      <3>1. t.bmFd = NoFd
        BY <1>2, <2>1 DEF Unloaded
      <3>2. QED
        BY <3>1 DEF BmGood, BmKept
    <2>2. CASE ~(Used \subseteq {d})
      <3>1. t.bmFd = p.bmFd /\ t.owner = q.owner /\ p.world \in Several
        BY <1>2, <2>2 DEF Unloaded
      <3>2. PICK e \in Drivers \ {d} : su[e] # "closed"
        BY <2>2 DEF Used
      <3>3. Uses[p.world] \cap Openers = {} => t.bmFd = NoFd
        BY <3>1 DEF BmGood
      <3>4. ASSUME NEW g \in Drivers \cap Closers, su[g] # "closed"
            PROVE  BmKept(t)
        <4>1. g # d /\ stage[g] # "closed"
          BY <3>4
        <4>2. g \in Uses[p.world] /\ BmKept(p)
          BY <4>1 DEF UseGood, BmGood
        <4>3. BmLeft(p, q)
          BY <3>1, <4>1, <4>2, MasterAssumption
        <4>4. BmKept(q)
          BY <4>2, <4>3, BmLeftKeeps
        <4>5. QED
          BY <3>1, <4>4 DEF BmKept
      <3>5. QED
        BY <1>1, <1>3, <3>2, <3>3, <3>4 DEF BmGood
    <2>3. QED
      BY <2>1, <2>2
  <1>7. UseGood(t, su)
    <2>1. \A e \in Drivers : su[e] # "closed" => stage[e] # "closed"
      OBVIOUS
    <2>2. QED
      BY <1>1, <1>3, <2>1, UseSteady
  <1>8. QED
    BY <1>3, <1>4, <1>5, <1>6, <1>7 DEF Sound

\* A program that has ended makes no more calls.
LEMMA DeadRun ==
  ASSUME NEW p, p.alive # "run", NEW d, NEW script, Len(script) \in Nat,
         NEW r \in Run(d, script, p)
  PROVE  r.p = p
  <1> DEFINE N == Len(script)
             X == {}
             S == [i \in 0 .. N |-> {p}]
  <1>1. N \in Nat /\ p \in S[0]
    BY SMT
  <1>2. ASSUME NEW i \in 1 .. N, NEW q \in S[i - 1], q.alive = "run",
               NEW t \in Calling(d, script[i], q)
        PROVE  IF t.alive = "run" /\ (t.ok \/ script[i][1] \notin Stops)
               THEN t \in S[i] ELSE t \in X
    <2>1. S[i - 1] = {p}
      BY <1>1
    <2>2. QED
      BY <1>2, <2>1
  <1> HIDE DEF S, X
  <1>3. \A t \in Run(d, script, p) : Ends(p, t, S[Len(script)], X)
    <2>1. \A i \in 1 .. Len(script) : \A q \in S[i - 1] : q.alive = "run" =>
             \A t \in Calling(d, script[i], q) :
               IF t.alive = "run" /\ (t.ok \/ script[i][1] \notin Stops)
               THEN t \in S[i] ELSE t \in X
      BY <1>2
    <2>2. QED
      BY <1>1, <2>1, Unrolled
  <1>4. \A t : t \notin X
    BY DEF X
  <1>5. QED
    BY <1>3, <1>4 DEF Ends

\* vixInit
LEMMA InitRun ==
  ASSUME NEW p \in Processes, Kinds(p), p.alive = "run", NEW d \in Drivers,
         d \in Openers => FALSE \notin Works[p.world]["version"],
         d = "ivtv" => OwnFiles(p, d), NEW r \in Run(d, InitOf[d], p)
  PROVE  /\ Hand(p, r.p, d) /\ (d = "ivtv" => OwnFiles(r.p, d))
         /\ BmKept(p) => BmKept(r.p)
         /\ d \notin Openers => BmLeft(p, r.p)
         /\ r.done => r.p.alive = "run" /\ (d \in Openers => BmKept(r.p))
         /\ ~r.done /\ d \in Openers => Doomed(r.p, d) /\ (d = "pm3" => r.p.alive # "run")
  <1>1. CASE d \in Openers
    <2>1. d # "ivtv"
      BY <1>1 DEF Openers
    <2>2. QED
      BY <1>1, <2>1, OpenersRun DEF Hand
  <1>2. CASE d \notin Openers
    <2>1. /\ Len(InitOf[d]) \in Nat
          /\ \A i \in 1 .. Len(InitOf[d]) : IsPlain(InitOf[d][i])
      BY <1>2, DriversAssumption, InitsPlain
    <2>2. Left(p, r.p, d) /\ Plain(p, r.p) /\ (r.done => r.p.alive = "run")
      BY <2>1, PlainRun
    <2>3. Hand(p, r.p, d) /\ BmLeft(p, r.p) /\ (OwnFiles(p, d) => OwnFiles(r.p, d))
      BY <2>2, PlainHand
    <2>4. QED
      BY <1>2, <2>2, <2>3, BmLeftKeeps
  <1>3. QED
    BY <1>1, <1>2

\* A driver that was opened.
LEMMA OpenedStep ==
  ASSUME TypeOK, NEW p \in Processes, FilesGood(p, stage), BmGood(p, stage), UseGood(p, stage),
         NEW d \in Drivers, stage[d] = "closed", d \in Uses[p.world],
         p.world \in Several \/ Used = {}, NEW q, Hand(p, q, d), d = "ivtv" => OwnFiles(q, d),
         d \in Openers \/ BmLeft(p, q), d \in Closers => BmKept(q)
  PROVE  Sound(q, [stage EXCEPT ![d] = "open"])
  <1> DEFINE su == [stage EXCEPT ![d] = "open"]
  <1>0. su[d] = "open" /\ \A e \in Drivers \ {d} : su[e] = stage[e]
    BY DEF TypeOK
  <1>1. q \in Processes /\ Kinds(q) /\ q.world = p.world
    BY LeftTyped DEF Hand
  <1> HIDE DEF su
  <1>2. UseGood(q, su)
    <2>1. \A e \in Drivers : su[e] # "closed" => e = d \/ stage[e] # "closed"
      BY <1>0
    <2>2. QED
      BY <1>1, <2>1 DEF UseGood, Used
  <1>3. FilesGood(q, su)
    <2>1. OwnGood(q, su, d)
      <3>1. CASE d = "ivtv"
        BY <1>0, <3>1 DEF OwnGood
      <3>2. CASE d # "ivtv"
        BY <3>2 DEF OwnGood, FilesGood, Hand, FilesLeft
      <3>3. QED
        BY <3>1, <3>2
    <2>2. QED
      BY <1>0, <1>1, <2>1, FilesKept
  <1>4. BmGood(q, su)
    <2>1. ASSUME \A e \in Drivers : su[e] = "closed" PROVE FALSE
      BY <1>0, <2>1
    <2>2. ASSUME Uses[q.world] \cap Openers = {} PROVE q.bmFd = NoFd
      <3>1. p.bmFd = NoFd
        BY <1>1, <2>2 DEF BmGood
      <3>2. d \notin Openers
        BY <1>1, <2>2
      <3>3. QED
        BY <3>1, <3>2 DEF BmLeft
    <2>3. ASSUME NEW e \in Drivers \cap Closers, su[e] # "closed" PROVE BmKept(q)
      <3>1. CASE e # d
        <4>1. stage[e] # "closed"
          BY <1>0, <2>3, <3>1
        <4>2. BmKept(p)
          BY <4>1 DEF BmGood
        <4>3. CASE d \in Openers
          BY <4>3 DEF Closers
        <4>4. CASE d \notin Openers
          BY <4>2, <4>4, BmLeftKeeps
        <4>5. QED
          BY <4>3, <4>4
      <3>2. QED
        BY <3>1
    <2>4. QED
      BY <2>1, <2>2, <2>3 DEF BmGood
  <1>5. QED
    BY <1>1, <1>2, <1>3, <1>4 DEF Sound, su

\* vdlOpen
LEMMA OpenStep ==
  ASSUME TypeOK, Sound(proc, stage), NEW d \in Drivers, OpenDriver(d)
  PROVE  proc' \in Processes /\ Sound(proc', stage') /\ Left(proc, proc', d)
  <1>1. /\ proc \in Processes /\ proc.alive = "run" /\ d \in Uses[proc.world]
        /\ stage[d] = "closed" /\ (proc.world \in Several \/ Used = {})
    BY DEF OpenDriver, MayOpen, Runs, TypeOK
  <1>2. /\ Kinds(proc) /\ FilesGood(proc, stage) /\ BmGood(proc, stage)
        /\ UseGood(proc, stage)
    BY <1>1 DEF Sound
  <1>3. OwnFiles(proc, d)
    BY <1>1, <1>2 DEF FilesGood, OwnFiles
  <1>4. PICK r \in Run(d, ProbeOf(d), proc) :
          IF ~r.done THEN proc' = Unload(d, r.p) /\ UNCHANGED stage
          ELSE \E i \in Run(d, InitOf[d], r.p) :
            IF i.done THEN proc' = i.p /\ stage' = [stage EXCEPT ![d] = "open"]
            ELSE /\ \E x \in Run(d, DestroyOf[d], i.p) : proc' = Unload(d, x.p)
                 /\ UNCHANGED stage
    BY DEF OpenDriver
  <1>5. /\ Hand(proc, r.p, d) /\ BmLeft(proc, r.p)
        /\ r.done => r.p.alive = "run" /\ (d = "ivtv" => OwnFiles(r.p, d))
    BY <1>1, <1>2, <1>3, ProbeRun
  <1>6. r.p \in Processes /\ Kinds(r.p) /\ r.p.world = proc.world
    BY <1>5, LeftTyped DEF Hand
  <1>7. ASSUME NEW q, Hand(proc, q, d), q.bmFd = proc.bmFd, BmLeft(proc, q) \/ d \in Closers,
               proc' = Unload(d, q), stage' = stage
        PROVE  proc' \in Processes /\ Sound(proc', stage') /\ Left(proc, proc', d)
    <2>1. /\ stage'[d] = "closed" /\ \A e \in Drivers \ {d} : stage'[e] = stage[e]
          /\ proc.world \in Several \/ Used \subseteq {d}
      BY <1>1, <1>7
    <2>2. Sound(proc', stage') /\ Left(proc, proc', d)
      BY <1>1, <1>2, <1>7, <2>1, ClosedStep
    <2>3. QED
      BY <2>2, LeftTyped
  <1>8. CASE ~r.done
    BY <1>4, <1>5, <1>7, <1>8 DEF BmLeft
  <1>9. CASE r.done
    <2>1. PICK i \in Run(d, InitOf[d], r.p) :
            IF i.done THEN proc' = i.p /\ stage' = [stage EXCEPT ![d] = "open"]
            ELSE /\ \E x \in Run(d, DestroyOf[d], i.p) : proc' = Unload(d, x.p)
                 /\ UNCHANGED stage
      BY <1>4, <1>9
    <2>2. d \in Openers => FALSE \notin Works[r.p.world]["version"]
      <3>1. proc.world \in Worlds
        BY <1>1 DEF Processes
      <3>2. QED
        BY <1>1, <1>6, <3>1, VersionAssumption
    <2>3. /\ Hand(r.p, i.p, d) /\ (d = "ivtv" => OwnFiles(i.p, d))
          /\ BmKept(r.p) => BmKept(i.p)
          /\ d \notin Openers => BmLeft(r.p, i.p)
          /\ i.done => i.p.alive = "run" /\ (d \in Openers => BmKept(i.p))
          /\ ~i.done /\ d \in Openers => Doomed(i.p, d) /\ (d = "pm3" => i.p.alive # "run")
      BY <1>5, <1>6, <1>9, <2>2, InitRun
    <2>4. Hand(proc, i.p, d) /\ (d \notin Openers => BmLeft(proc, i.p))
      BY <1>5, <2>3, HandThen, BmLeftThen
    <2>5. d \in Closers /\ d \notin Openers => BmKept(i.p)
      <3>1. d \in Closers /\ d \notin Openers => BmKept(proc)
        BY <1>1, <1>2, ClosersStart
      <3>2. QED
        BY <1>1, <2>4, <3>1, BmLeftKeeps
    <2>6. i.p \in Processes /\ Kinds(i.p) /\ Left(proc, i.p, d)
      BY <2>4, LeftTyped DEF Hand
    <2>7. CASE i.done
      <3>1. proc' = i.p /\ stage' = [stage EXCEPT ![d] = "open"]
        BY <2>1, <2>7
      <3>2. d \in Closers => BmKept(i.p)
        BY <2>3, <2>5, <2>7
      <3>3. Sound(i.p, [stage EXCEPT ![d] = "open"])
        BY <1>1, <1>2, <2>3, <2>4, <3>2, OpenedStep
      <3>4. QED
        BY <2>6, <3>1, <3>3
    <2>8. CASE ~i.done
      <3>1. PICK x \in Run(d, DestroyOf[d], i.p) : proc' = Unload(d, x.p) /\ stage' = stage
        BY <2>1, <2>8
      <3>2. CASE d \notin Openers
        <4>1. /\ Hand(i.p, x.p, d) /\ x.p.bmFd = i.p.bmFd
              /\ d \notin Closers => BmLeft(i.p, x.p)
          BY <2>3, <2>5, <2>6, <3>2, DestroyRun
        <4>2. /\ Hand(proc, x.p, d) /\ x.p.bmFd = proc.bmFd
              /\ BmLeft(proc, x.p) \/ d \in Closers
          BY <2>4, <3>2, <4>1, HandThen, BmLeftThen DEF BmLeft
        <4>3. QED
          BY <1>7, <3>1, <4>2
      <3>3. CASE d \in Openers
        <4>1. Left(i.p, x.p, d) /\ x.p.alive # "run"
          <5>1. CASE d = "pm3"
            <6>1. x.p = i.p
              <7>1. Len(DestroyOf[d]) \in Nat
                BY DriversAssumption, DestroysPlain
              <7>2. QED
                BY <2>3, <2>8, <3>3, <5>1, <7>1, DeadRun
            <6>2. QED
              BY <2>3, <2>6, <2>8, <3>3, <5>1, <6>1, LeftSame
          <5>2. CASE d # "pm3"
            BY <2>3, <2>6, <2>8, <3>3, <5>2, DoomedRun DEF Openers
          <5>3. QED
            BY <5>1, <5>2
        <4>2. x.p \in Processes /\ Kinds(x.p)
          BY <4>1, LeftTyped
        <4>3. Left(x.p, proc', d) /\ Unloaded(x.p, proc', d)
          BY <3>1, <4>2, UnloadDo
        <4>4. Left(proc, proc', d)
          BY <2>6, <4>1, <4>3, LeftThen
        <4>5. Sound(proc', stage')
          BY <4>1, <4>3 DEF Unloaded, Sound
        <4>6. QED
          BY <4>3, <4>4, <4>5, LeftTyped
      <3>4. QED
        BY <3>2, <3>3
    <2>9. QED
      BY <2>7, <2>8
  <1>10. QED
    BY <1>8, <1>9

\* The other calls of the program.
LEMMA ConfigStep ==
  ASSUME TypeOK, Sound(proc, stage), NEW d \in Drivers, Config(d) \/ Play(d) \/ CopyFrame(d)
  PROVE  proc' \in Processes /\ Sound(proc', stage') /\ Left(proc, proc', d)
  <1>1. proc \in Processes /\ proc.alive = "run" /\ stage[d] # "closed"
    BY DEF Config, Play, CopyFrame, Runs, TypeOK
  <1>2. /\ Kinds(proc) /\ FilesGood(proc, stage) /\ BmGood(proc, stage)
        /\ UseGood(proc, stage)
    BY <1>1 DEF Sound
  <1>3. /\ Len(ConfigOf[d]) \in Nat /\ Len(PlayOf[d]) \in Nat
        /\ \A i \in 1 .. Len(ConfigOf[d]) : IsPlain(ConfigOf[d][i])
        /\ \A i \in 1 .. Len(PlayOf[d]) : IsPlain(PlayOf[d][i])
    BY DriversAssumption, PlaysPlain
  <1>4. Left(proc, proc', d) /\ Plain(proc, proc')
    <2>1. CASE Config(d)
      <3>1. PICK r \in Run(d, ConfigOf[d], proc) : proc' = r.p
        BY <2>1 DEF Config
      <3>2. QED
        BY <1>1, <1>2, <1>3, <3>1, PlainRun
    <2>2. CASE Play(d)
      <3>1. PICK r \in Run(d, PlayOf[d], proc) : proc' = r.p
        BY <2>2 DEF Play
      <3>2. QED
        BY <1>1, <1>2, <1>3, <3>1, PlainRun
    <2>3. CASE CopyFrame(d)
      <3>1. proc' \in hwirq_install(proc, d)
        BY <2>3 DEF CopyFrame
      <3>2. QED
        BY <1>1, <1>2, <3>1, InstallLeft
    <2>4. QED
      BY <2>1, <2>2, <2>3
  <1>5. stage'[d] # "closed" /\ \A e \in Drivers \ {d} : stage'[e] = stage[e]
    BY <1>1 DEF Config, Play, CopyFrame, TypeOK
  <1>6. Sound(proc', stage')
    BY <1>1, <1>2, <1>4, <1>5, PlainStep
  <1>7. QED
    BY <1>4, <1>6, LeftTyped

LEMMA SearchStep ==
  ASSUME TypeOK, Sound(proc, stage), NEW d \in Drivers, Search(d)
  PROVE  proc' \in Processes /\ Sound(proc', stage') /\ Left(proc, proc', d)
  <1>1. /\ proc \in Processes /\ proc.alive = "run" /\ d \in Uses[proc.world]
        /\ stage[d] = "closed" /\ (proc.world \in Several \/ Used = {})
    BY DEF Search, MayOpen, Runs, TypeOK
  <1>2. /\ Kinds(proc) /\ FilesGood(proc, stage) /\ BmGood(proc, stage)
        /\ UseGood(proc, stage)
    BY <1>1 DEF Sound
  <1>3. OwnFiles(proc, d)
    BY <1>1, <1>2 DEF FilesGood, OwnFiles
  <1>4. PICK r \in Run(d, ProbeOf(d), proc) : proc' = Unload(d, r.p)
    BY DEF Search
  <1>5. Hand(proc, r.p, d) /\ BmLeft(proc, r.p)
    BY <1>1, <1>2, <1>3, ProbeRun
  <1>6. /\ stage'[d] = "closed" /\ \A e \in Drivers \ {d} : stage'[e] = stage[e]
        /\ proc.world \in Several \/ Used \subseteq {d}
    BY <1>1 DEF Search
  <1>7. Sound(proc', stage') /\ Left(proc, proc', d)
    BY <1>1, <1>2, <1>4, <1>5, <1>6, ClosedStep DEF BmLeft
  <1>8. QED
    BY <1>7, LeftTyped

LEMMA CloseStep ==
  ASSUME TypeOK, Sound(proc, stage), NEW d \in Drivers, CloseDriver(d)
  PROVE  proc' \in Processes /\ Sound(proc', stage') /\ Left(proc, proc', d)
  <1>1. proc \in Processes /\ proc.alive = "run" /\ stage[d] # "closed"
    BY DEF CloseDriver, Runs, TypeOK
  <1>2. /\ Kinds(proc) /\ FilesGood(proc, stage) /\ BmGood(proc, stage)
        /\ UseGood(proc, stage)
    BY <1>1 DEF Sound
  <1>3. d = "ivtv" => OwnFiles(proc, d)
    BY <1>1, <1>2 DEF FilesGood
  <1>4. d \in Closers => BmKept(proc)
    BY <1>1, <1>2 DEF BmGood
  <1>5. PICK r \in Run(d, DestroyOf[d], proc) : proc' = Unload(d, r.p)
    BY DEF CloseDriver
  <1>6. /\ Hand(proc, r.p, d) /\ r.p.bmFd = proc.bmFd
        /\ d \notin Closers => BmLeft(proc, r.p)
    BY <1>1, <1>2, <1>3, <1>4, DestroyRun
  <1>7. stage'[d] = "closed" /\ \A e \in Drivers \ {d} : stage'[e] = stage[e]
    BY DEF CloseDriver, TypeOK
  <1>8. d \in Uses[proc.world] /\ (proc.world \in Several \/ Used \subseteq {d})
    BY <1>1, <1>2 DEF UseGood, Used
  <1>9. Sound(proc', stage') /\ Left(proc, proc', d)
    BY <1>1, <1>2, <1>5, <1>6, <1>7, <1>8, ClosedStep
  <1>10. QED
    BY <1>9, LeftTyped

\* The program's own files.
LEMMA AppStep ==
  ASSUME TypeOK, Sound(proc, stage), AppOpen \/ \E f \in Fds : AppClose(f)
  PROVE  proc' \in Processes /\ Sound(proc', stage')
  <1>1. proc \in Processes /\ proc.alive = "run"
    BY DEF AppOpen, AppClose, Runs, TypeOK
  <1>2. /\ Kinds(proc) /\ FilesGood(proc, stage) /\ BmGood(proc, stage)
        /\ UseGood(proc, stage)
    BY <1>1 DEF Sound
  <1>3. \E f \in Fds : \E u \in {"app", "none"} :
          /\ proc.owner[f] \in {"app", "none"} /\ proc' = [proc EXCEPT !.owner[f] = u]
    <2>1. CASE AppOpen
      <3>1. Min(FreeFds(proc)) \in FreeFds(proc)
        <4>1. FreeFds(proc) # {} /\ FreeFds(proc) \subseteq Nat
          BY <2>1, FdsAssumption DEF AppOpen, FreeFds
        <4>2. QED
          BY <4>1, MinIn
      <3>2. QED
        BY <2>1, <3>1 DEF AppOpen, FreeFds
    <2>2. CASE \E f \in Fds : AppClose(f)
      BY <2>2 DEF AppClose, CloseFd
    <2>3. QED
      BY <2>1, <2>2
  <1>4. PICK f \in Fds, u \in {"app", "none"} :
          /\ proc.owner[f] \in {"app", "none"} /\ proc' = [proc EXCEPT !.owner[f] = u]
    BY <1>3
  <1>5. proc' \in Processes
    <2>1. [proc.owner EXCEPT ![f] = u] \in [Fds -> Users]
      BY <1>1 DEF Processes, Users
    <2>2. QED
      BY <1>1, <1>4, <2>1 DEF Processes
  <1>6. /\ proc'.world = proc.world /\ proc'.memFd = proc.memFd /\ proc'.ioFd = proc.ioFd
        /\ proc'.irqFd = proc.irqFd /\ proc'.bmFd = proc.bmFd /\ proc'.file = proc.file
        /\ \A m \in Fds : proc.owner[m] \notin {"app", "none"} => proc'.owner[m] = proc.owner[m]
        /\ stage' = stage
    BY <1>1, <1>4 DEF Processes, AppOpen, AppClose
  <1>7. Kinds(proc') /\ BmGood(proc', stage) /\ UseGood(proc', stage)
    <2>1. \A m \in Fds : proc.owner[m] \in {"mem", "io", "irq", "bm"} => proc'.owner[m] = proc.owner[m]
      BY <1>6
    <2>2. Kinds(proc')
      BY <1>1, <1>2, <1>6, <2>1 DEF Kinds, Processes
    <2>3. BmKept(proc) => BmKept(proc')
      BY <1>1, <1>6, <2>1 DEF BmKept, Processes
    <2>4. BmGood(proc', stage)
      BY <1>2, <1>6, <2>3 DEF BmGood
    <2>5. UseGood(proc', stage)
      BY <1>2, <1>6, UseSteady
    <2>6. QED
      BY <2>2, <2>4, <2>5
  <1>8. FilesGood(proc', stage)
    BY <1>1, <1>2, <1>6 DEF FilesGood, OwnFiles, Processes
  <1>9. QED
    BY <1>5, <1>6, <1>7, <1>8 DEF Sound

\* The invariant holds at first, and every step keeps it.
LEMMA SoundInit ==
  ASSUME Init
  PROVE  SoundInv
  <1>1. PICK w \in Worlds : proc = Start(w)
    BY DEF Init
  <1>2. proc \in Processes
    <2>1. 0 \in 0 .. Width - 1
      BY WidthAssumption
    <2>2. QED
      BY <1>1, <2>1 DEF Start, Processes, Users
  <1>3. /\ proc.memFd = NoFd /\ proc.ioFd = NoFd /\ proc.irqFd = NoFd /\ proc.bmFd = NoFd
        /\ proc.file = [d \in Drivers |-> [f \in Files |-> NoFd]]
    BY <1>1 DEF Start
  <1>4. \A d \in Drivers : stage[d] = "closed"
    BY DEF Init
  <1>5. Sound(proc, stage)
    BY <1>3, <1>4 DEF Sound, Kinds, FilesGood, BmGood, UseGood
  <1>6. QED
    BY <1>2, <1>5 DEF SoundInv, TypeOK, Init

LEMMA StageTyped ==
  ASSUME TypeOK, Next
  PROVE  stage' \in [Drivers -> {"closed", "open", "configured"}]
  BY DEF TypeOK, Next, OpenDriver, Search, Config, Play, CopyFrame, CloseDriver, AppOpen,
         AppClose, Stopped, vars

LEMMA SoundNext ==
  ASSUME SoundInv, [Next]_vars
  PROVE  SoundInv'
  <1>1. CASE UNCHANGED vars
    BY <1>1 DEF vars, SoundInv, TypeOK, Sound, Kinds, FilesGood, OwnFiles, BmGood, BmKept, UseGood
  <1>2. ASSUME NEW d \in Drivers, OpenDriver(d) \/ Search(d) \/ Config(d) \/ Play(d)
                                    \/ CopyFrame(d) \/ CloseDriver(d)
        PROVE  proc' \in Processes /\ Sound(proc', stage')
    BY <1>2, OpenStep, SearchStep, ConfigStep, CloseStep DEF SoundInv
  <1>3. ASSUME AppOpen \/ \E f \in Fds : AppClose(f)
        PROVE  proc' \in Processes /\ Sound(proc', stage')
    BY <1>3, AppStep DEF SoundInv
  <1>4. CASE Next
    <2>1. stage' \in [Drivers -> {"closed", "open", "configured"}]
      BY <1>4, StageTyped DEF SoundInv
    <2>2. CASE Stopped
      BY <1>1, <2>2 DEF Stopped
    <2>3. CASE ~Stopped
      <3>1. proc' \in Processes /\ Sound(proc', stage')
        BY <1>2, <1>3, <1>4, <2>3 DEF Next
      <3>2. QED
        BY <2>1, <3>1 DEF SoundInv, TypeOK, Sound
    <2>4. QED
      BY <2>2, <2>3
  <1>5. QED
    BY <1>1, <1>4

\* The library's variables name descriptors that it opened for that purpose, a driver's
\* files are its own, and the descriptor for bus mastering is good while a driver that
\* closes it is open: for any drivers, systems and number of descriptors.
THEOREM Soundness == Spec => []SoundInv
  <1>1. Init => SoundInv
    BY SoundInit
  <1>2. SoundInv /\ [Next]_vars => SoundInv'
    BY SoundNext
  <1>3. QED
    BY <1>1, <1>2, PTL DEF Spec

\* libdha and the drivers never close a descriptor that the program opened: close in
\* unmap_phys_mem, disable_app_io, bm_close and the drivers acts on the library's own.
THEOREM OwnFilesOnly ==
  Spec => [][\A f \in Fds : proc.owner[f] = "app" /\ proc'.owner[f] # "app" => AppClose(f)]_vars
  <1>1. ASSUME SoundInv, Next, NEW f \in Fds, proc.owner[f] = "app", proc'.owner[f] # "app"
        PROVE  AppClose(f)
    <2>1. ASSUME NEW d \in Drivers, OpenDriver(d) \/ Search(d) \/ Config(d) \/ Play(d)
                                      \/ CopyFrame(d) \/ CloseDriver(d)
          PROVE  FALSE
      <3>1. Left(proc, proc', d)
        BY <1>1, <2>1, OpenStep, SearchStep, ConfigStep, CloseStep DEF SoundInv
      <3>2. AppFds(proc') = AppFds(proc)
        BY <3>1 DEF Left
      <3>3. QED
        BY <1>1, <3>2 DEF AppFds
    <2>2. CASE AppOpen
      <3>1. Min(FreeFds(proc)) \in FreeFds(proc)
        <4>1. FreeFds(proc) # {} /\ FreeFds(proc) \subseteq Nat
          BY <2>2, FdsAssumption DEF AppOpen, FreeFds
        <4>2. QED
          BY <4>1, MinIn
      <3>2. QED
        BY <1>1, <2>2, <3>1 DEF AppOpen, FreeFds, SoundInv, TypeOK, Processes
    <2>3. ASSUME NEW g \in Fds, AppClose(g), g # f
          PROVE  FALSE
      BY <1>1, <2>3 DEF AppClose, CloseFd, SoundInv, TypeOK, Processes
    <2>4. CASE Stopped
      BY <1>1, <2>4 DEF Stopped, vars
    <2>5. QED
      BY <1>1, <2>1, <2>2, <2>3, <2>4 DEF Next
  <1>2. SoundInv /\ [Next]_vars
          => [\A f \in Fds : proc.owner[f] = "app" /\ proc'.owner[f] # "app" => AppClose(f)]_vars
    BY <1>1
  <1>3. QED
    BY <1>2, Soundness, PTL DEF Spec

----------------------------------------------------------------------------
\* What the calls do to the driver that makes them.

\* Calls that touch nothing of the driver.
LEMMA QuietThen ==
  ASSUME NEW p, NEW q, NEW r, Quiet(p, q), Quiet(q, r)
  PROVE  Quiet(p, r)
  BY DEF Quiet

LEMMA PortsOpenDo ==
  ASSUME NEW p \in Processes, Kinds(p)
  PROVE  PortAccess(p) <=> PortsOpen(p)
  BY FdsAssumption DEF PortAccess, PortsOpen, Helper, Kinds, Processes, NoFd

LEMMA SilentFine ==
  ASSUME NEW p, NEW q, NEW d, NEW s, Silent(p, q), p.alive = "run",
         s[1] \notin {"map", "mapOr", "alloc", "allocOr", "enable", "enableOr"}
  PROVE  Fine(p, q, d, s)
  BY DEF Silent, Quiet, Fine, Steady, Obtains, PortsOpen

LEMMA SaysQuiet ==
  ASSUME NEW p \in Processes, NEW b
  PROVE  Silent(p, Says(p, b))
  BY DEF Says, Silent, Quiet, Processes

LEMMA DisabledQuiet ==
  ASSUME NEW p \in Processes
  PROVE  Quiet(p, Disabled(p))
  BY DEF Disabled, Quiet, Processes

LEMMA EnableQuiet ==
  ASSUME NEW p \in Processes, NEW q \in enable_app_io(p)
  PROVE  Quiet(p, q) /\ (q.ok => PortsOpen(q)) /\ (FALSE \notin Works[p.world]["iopl"] => q.ok)
  <1>1. CASE \E f \in Fds : q = Enabled(p, f)
    <2>1. PICK f \in Fds : q = Enabled(p, f)
      BY <1>1
    <2>2. f # NoFd
      BY FdsAssumption DEF NoFd
    <2>3. q.ioFd = f /\ q.ok = TRUE /\ Quiet(p, q)
      BY <2>1 DEF Enabled, Quiet, Processes
    <2>4. QED
      BY <2>2, <2>3 DEF PortsOpen
  <1>2. CASE \E b \in Works[p.world]["iopl"] : q = Refused(p, b)
    <2>1. PICK b \in Works[p.world]["iopl"] : q = Refused(p, b)
      BY <1>2
    <2>2. b \in BOOLEAN
      BY WorksBoolean DEF Calls
    <2>3. q.iopl = (b \/ p.iopl) /\ q.ok = b /\ Quiet(p, q)
      BY <2>1 DEF Refused, Quiet, Processes
    <2>4. QED
      BY <2>1, <2>2, <2>3 DEF PortsOpen
  <1>3. QED
    BY <1>1, <1>2, EnableDo

LEMMA ScanQuiet ==
  ASSUME NEW p \in Processes, Kinds(p), p.alive = "run", NEW q \in pci_scan(p)
  PROVE  Quiet(p, q)
  <1>1. CASE q = Says(p, TRUE)
    BY <1>1, SaysQuiet DEF Silent
  <1>2. CASE ScanFallback(p, q)
    <2>1. Says(p, FALSE) \in Processes /\ Quiet(p, Says(p, FALSE)) /\ Kinds(Says(p, FALSE))
      BY SaysQuiet, SaysLeft, LeftTyped DEF Silent
    <2>2. PICK e \in enable_app_io(Says(p, FALSE)) :
            IF e.ok THEN \E b \in Works[p.world]["bus"] : q = Disabled(Says(e, b)) ELSE q = e
      BY <1>2 DEF ScanFallback
    <2>3. Quiet(p, e) /\ e \in Processes /\ Kinds(e)
      BY <2>1, EnableQuiet, QuietThen, EnableLeft, LeftTyped
    <2>4. ASSUME NEW b \in Works[p.world]["bus"], q = Disabled(Says(e, b))
          PROVE  Quiet(p, q)
      <3>1. b \in BOOLEAN
        BY WorksBoolean DEF Calls
      <3>2. Says(e, b) \in Processes /\ Quiet(e, Says(e, b))
        BY <2>3, <3>1, SaysLeft, SaysQuiet, LeftTyped DEF Silent
      <3>3. QED
        BY <2>3, <2>4, <3>2, DisabledQuiet, QuietThen
    <2>5. QED
      BY <2>2, <2>3, <2>4
  <1>3. QED
    BY <1>1, <1>2, ScanDo

LEMMA QuietFine ==
  ASSUME NEW p, NEW q, NEW d, NEW s, Quiet(p, q), p.alive = "run",
         s[1] \in {"scan", "probePorts", "disable"}
  PROVE  Fine(p, q, d, s)
  BY DEF Quiet, Fine, Steady, Obtains

\* sis asks for the ports before it uses them.
LEMMA ProbePortsQuiet ==
  ASSUME NEW p \in Processes, Kinds(p), p.alive = "run", NEW q \in ProbePorts(p)
  PROVE  Quiet(p, q)
  <1>1. CASE q = p
    BY <1>1 DEF Quiet
  <1>2. CASE q # p
    <2>1. PICK e \in enable_app_io(p) :
            q = IF ~e.ok THEN e ELSE IF PortAccess(e) THEN Disabled(e) ELSE Faults(e)
      BY <1>2, ProbePortsDo
    <2>2. Quiet(p, e) /\ e \in Processes /\ Kinds(e) /\ (e.ok => PortsOpen(e))
      BY EnableQuiet, EnableLeft, LeftTyped
    <2>3. e.ok => PortAccess(e)
      BY <2>2, PortsOpenDo
    <2>4. q = e \/ q = Disabled(e)
      BY <2>1, <2>3
    <2>5. QED
      BY <2>2, <2>4, DisabledQuiet, QuietThen
  <1>3. QED
    BY <1>1, <1>2

\* map_phys_mem
LEMMA OpenMemSilent ==
  ASSUME NEW p \in Processes, p.alive = "run", NEW q \in OpenMem(p)
  PROVE  /\ q.alive = "run" => Silent(p, q)
         /\ q.alive # "run" =>
              /\ q.alive = "exit"
              /\ FreeFds(q) = {} \/ (/\ FALSE \in Works[p.world]["helper"]
                                     /\ FALSE \in Works[p.world]["devmem"])
  <1>1. CASE q = p
    BY <1>1 DEF Silent, Quiet
  <1>2. CASE \E f \in Fds : p.owner[f] = "none" /\ q = MemOpened(p, f)
    <2>1. Silent(p, q)
      BY <1>2 DEF MemOpened, Silent, Quiet, Processes
    <2>2. QED
      BY <2>1 DEF Silent, Quiet
  <1>3. CASE /\ FreeFds(p) = {} \/ (/\ FALSE \in Works[p.world]["helper"]
                                    /\ FALSE \in Works[p.world]["devmem"])
             /\ q = Exits(Says(p, FALSE))
    <2>1. q.alive = "exit" /\ q.owner = p.owner
      BY <1>3 DEF Exits, Says, Processes
    <2>2. FreeFds(q) = FreeFds(p)
      BY <2>1 DEF FreeFds
    <2>3. QED
      BY <1>3, <2>1, <2>2
  <1>4. QED
    BY <1>1, <1>2, <1>3, OpenMemDo

LEMMA MapFine ==
  ASSUME NEW p \in Processes, Kinds(p), p.alive = "run", NEW d \in Drivers,
         NEW s, s[1] \in {"map", "mapOr"}, s[2] \in Regions, Fits(d, s), Suits(p.world, d),
         NEW q \in map_phys_mem(p, d, s[2])
  PROVE  Fine(p, q, d, s)
  <1>1. PICK m \in OpenMem(p) :
          IF m.alive = "run" THEN \E b \in Works[p.world]["map"] : q = Mapped(m, d, s[2], b)
          ELSE q = m
    BY MapDo
  <1>2. CASE m.alive # "run"
    BY <1>1, <1>2, OpenMemSilent DEF Fine, Ended, Serves
  <1>3. CASE m.alive = "run"
    <2>1. PICK b \in Works[p.world]["map"] : q = Mapped(m, d, s[2], b)
      BY <1>1, <1>3
    <2>2. b \in BOOLEAN
      BY WorksBoolean DEF Calls
    <2>3. Silent(p, m) /\ m \in Processes
      BY <1>3, OpenMemSilent, OpenMemLeft, LeftTyped
    <2>4. s[2] \in Things
      BY DEF Things
    <2>5. /\ q.alive = "run" /\ q.ok = b /\ q.dma = m.dma /\ q.iopl = m.iopl /\ q.ioFd = m.ioFd
          /\ q.ptr = [m.ptr EXCEPT ![d][s[2]] = IF b THEN "held" ELSE "failed"]
      BY <1>3, <2>1, <2>3 DEF Mapped, Processes
    <2>6. /\ q.ptr[d][s[2]] = IF b THEN "held" ELSE "failed"
          /\ \A t \in Things \ {s[2]} : q.ptr[d][t] = m.ptr[d][t]
      BY <2>3, <2>4, <2>5 DEF Processes
    <2>7. ~b => ~Serves(p.world, d) /\ s[1] = "mapOr"
      BY <2>1, <2>2 DEF Serves, Suits, Fits
    <2>8. Obtains(s) = {s[2]}
      BY DEF Obtains
    <2>9. Steady(p, q, d, s)
      BY <2>2, <2>3, <2>5, <2>6, <2>7, <2>8 DEF Steady, Silent, Quiet, PortsOpen
    <2>10. QED
      BY <2>5, <2>9 DEF Fine
  <1>4. QED
    BY <1>2, <1>3

LEMMA UnmapFine ==
  ASSUME NEW p \in Processes, p.alive = "run", NEW d \in Drivers, NEW s, s[2] \in Regions,
         NEW x, p.ptr[d][s[2]] # "failed", x = "sized" => p.ptr[d][s[2]] = "held",
         s[1] \notin {"map", "mapOr", "alloc", "allocOr", "enable", "enableOr"},
         NEW q \in unmap_phys_mem(p, d, s[2], x)
  PROVE  Fine(p, q, d, s)
  <1>1. ~UnmapFails(p, d, s[2], x)
    BY DEF UnmapFails
  <1>2. q = Unmapped(p, d, s[2], x)
    BY <1>1, UnmapDo
  <1>3. Silent(p, q)
    <2>1. Silent(p, Counted(p, d, s[2], x))
      BY DEF Counted, Silent, Quiet, Processes
    <2> DEFINE c == Counted(p, d, s[2], x)
    <2>2. c.memFd = p.memFd
      BY DEF Counted, Processes
    <2>3. c = [c EXCEPT !.alive = c.alive]
      BY DEF Counted, Processes
    <2>4. Silent(c, [c EXCEPT !.owner[p.memFd] = "none", !.memFd = NoFd])
      BY DEF Counted, Silent, Quiet, Processes
    <2>5. QED
      BY <1>2, <2>1, <2>4 DEF Unmapped, Silent, Quiet
  <1>4. QED
    BY <1>3, SilentFine

LEMMA AllocFine ==
  ASSUME NEW p \in Processes, p.alive = "run", NEW d \in Drivers, NEW s,
         s[1] \in {"alloc", "allocOr"}, s[2] \in Blocks, Fits(d, s), Suits(p.world, d),
         NEW q \in alloc(p, d, s[2])
  PROVE  Fine(p, q, d, s)
  <1>1. PICK b \in Works[p.world]["alloc"] : b \in BOOLEAN /\ q = Alloced(p, d, s[2], b)
    BY AllocDo
  <1>2. b = TRUE
    <2>1. d \in Heapers /\ d \notin Checkers
      BY DEF Fits, Heapers, Checkers
    <2>2. QED
      BY <1>1, <2>1 DEF Suits, Serves
  <1>3. s[2] \in Things
    BY DEF Things
  <1>4. /\ q.alive = "run" /\ q.ok = TRUE /\ q.dma = p.dma /\ q.iopl = p.iopl /\ q.ioFd = p.ioFd
        /\ q.ptr = [p.ptr EXCEPT ![d][s[2]] = "held"]
    BY <1>1, <1>2 DEF Alloced, Processes
  <1>5. /\ q.ptr[d][s[2]] = "held"
        /\ \A t \in Things \ {s[2]} : q.ptr[d][t] = p.ptr[d][t]
    BY <1>3, <1>4 DEF Processes
  <1>6. QED
    BY <1>4, <1>5 DEF Fine, Steady, Obtains, PortsOpen

\* Every call that is plain.
LEMMA PlainFine ==
  ASSUME NEW p \in Processes, Kinds(p), p.alive = "run", NEW d \in Drivers, NEW s, IsPlain(s),
         Fits(d, s), Suits(p.world, d), Ready(p, d, s), NEW q \in Calling(d, s, p)
  PROVE  Fine(p, q, d, s)
  <1>1. CASE s[1] = "scan"
    BY <1>1, ScanQuiet, QuietFine DEF Calling
  <1>2. CASE s[1] \in {"card", "fits"}
    <2>1. PICK c \in Calls : q \in Try(p, c)
      BY <1>2 DEF Calling, Calls
    <2>2. \E b : q = Says(p, b)
      BY <2>1, TryDo DEF Says
    <2>3. QED
      BY <1>2, <2>2, SaysQuiet, SilentFine
  <1>3. CASE s[1] = "probePorts"
    <2>1. QED
      BY <1>3, ProbePortsQuiet, QuietFine DEF Calling
  <1>4. CASE s[1] = "ports"
    <2>1. q = p
      BY <1>4, PortsOpenDo DEF Calling, ports, Ready
    <2>2. Silent(p, q)
      BY <2>1 DEF Silent, Quiet
    <2>3. QED
      BY <1>4, <2>2, SilentFine
  <1>5. CASE s[1] \in {"enable", "enableOr"}
    <2>1. FALSE \notin Works[p.world]["iopl"]
      BY <1>5 DEF Fits, Suits, Serves, Enablers, Checkers
    <2>2. Quiet(p, q) /\ PortsOpen(q) /\ q.ok
      BY <1>5, <2>1, EnableQuiet DEF Calling
    <2>3. QED
      BY <1>5, <2>2 DEF Fine, Steady, Quiet, Obtains
  <1>6. CASE s[1] = "disable"
    <2>1. q = Disabled(p)
      BY <1>6, DisableDo DEF Calling
    <2>2. QED
      BY <1>6, <2>1, DisabledQuiet, QuietFine
  <1>7. CASE s[1] \in {"uninstall", "uninstallIf"}
    <2>1. q = p \/ q \in hwirq_uninstall(p, d)
      BY <1>7 DEF Calling
    <2>2. Silent(p, q)
      <3>1. CASE q = p
        BY <3>1 DEF Silent, Quiet
      <3>2. CASE q \in hwirq_uninstall(p, d)
        <4> DEFINE u == Uninstalled(p, d)
        <4>1. q = u \/ q = [u EXCEPT !.owner[p.irqFd] = "none", !.irqFd = NoFd]
          BY <3>2, UninstallDo
        <4>2. QED
          BY <4>1 DEF Uninstalled, Silent, Quiet, Processes
      <3>3. QED
        BY <2>1, <3>1, <3>2
    <2>3. QED
      BY <1>7, <2>2, SilentFine
  <1>8. CASE s[1] = "memory"
    <2>1. FALSE \notin Works[p.world]["memory"]
      BY <1>8 DEF Fits, Suits, Serves, Checkers
    <2>2. q = Says(p, TRUE)
      BY <1>8, <2>1, MemoryDo DEF Calling
    <2>3. QED
      BY <1>8, <2>2, SaysQuiet, SilentFine
  <1>9. CASE s[1] = "regs"
    <2>1. q = p
      BY <1>9 DEF Calling, regs, Ready
    <2>2. Silent(p, q)
      BY <2>1 DEF Silent, Quiet
    <2>3. QED
      BY <1>9, <2>2, SilentFine
  <1>10. CASE s[1] \in {"map", "mapOr"} /\ s[2] \in Regions
    BY <1>10, MapFine DEF Calling
  <1>11. CASE s[1] \in {"unmap", "unmapSized", "unmapIf"} /\ s[2] \in Regions
    <2>1. CASE q = p
      <3>1. Silent(p, q)
        BY <2>1 DEF Silent, Quiet
      <3>2. QED
        BY <1>11, <3>1, SilentFine
    <2>2. CASE q # p
      <3>1. PICK x : q \in unmap_phys_mem(p, d, s[2], x) /\ (x = "sized" => p.ptr[d][s[2]] = "held")
        <4>1. CASE s[1] = "unmap"
          BY <4>1 DEF Calling
        <4>2. CASE s[1] = "unmapSized"
          BY <4>2 DEF Calling, Ready
        <4>3. CASE s[1] = "unmapIf"
          <5>1. q \in unmap_phys_mem(p, d, s[2], s[3]) /\ p.ptr[d][s[2]] # "null"
            BY <2>2, <4>3 DEF Calling
          <5>2. p.ptr[d][s[2]] = "held"
            BY <1>11, <4>3, <5>1 DEF Ready, Processes, Things
          <5>3. QED
            BY <5>1, <5>2
        <4>4. QED
          BY <1>11, <4>1, <4>2, <4>3
      <3>2. p.ptr[d][s[2]] # "failed"
        BY <1>11 DEF Ready
      <3>3. QED
        BY <1>11, <3>1, <3>2, UnmapFine
    <2>3. QED
      BY <2>1, <2>2
  <1>12. CASE s[1] \in {"alloc", "allocOr"} /\ s[2] \in Blocks
    BY <1>12, AllocFine DEF Calling
  <1>13. CASE s[1] = "free" /\ s[2] \in Blocks
    <2>1. q = Freed(p, d, s[2])
      BY <1>13 DEF Calling, free, Freed
    <2>2. Silent(p, q)
      BY <2>1 DEF Freed, Silent, Quiet, Processes
    <2>3. QED
      BY <1>13, <2>2, SilentFine
  <1>14. QED
    BY <1>1, <1>2, <1>3, <1>4, <1>5, <1>6, <1>7, <1>8, <1>9, <1>10, <1>11, <1>12, <1>13
       DEF IsPlain

LEMMA ArmedThen ==
  ASSUME NEW p, NEW q, NEW r, NEW d, Armed(p, q, d), Armed(q, r, d)
  PROVE  Armed(p, r, d)
  BY DEF Armed

LEMMA BmOpenArmed ==
  ASSUME NEW p \in Processes, FALSE \notin Works[p.world]["version"], NEW d,
         NEW q \in bm_open(p)
  PROVE  Armed(p, q, d) /\ q.dma = p.dma /\ (q.ok => q.bmFd # NoFd)
  <1>1. CASE \E f \in Fds : p.owner[f] = "none" /\ q = BmOpened(p, f)
    <2>1. PICK f \in Fds : q = BmOpened(p, f)
      BY <1>1
    <2>2. f # NoFd
      BY FdsAssumption DEF NoFd
    <2>3. /\ q.alive = p.alive /\ q.iopl = p.iopl /\ q.ioFd = p.ioFd /\ q.ptr = p.ptr
          /\ q.dma = p.dma /\ q.bmFd = f
      BY <2>1 DEF BmOpened, Processes
    <2>4. QED
      BY <2>2, <2>3 DEF Armed
  <1>2. CASE q = BmRefused(p)
    <2>1. /\ q.alive = p.alive /\ q.iopl = p.iopl /\ q.ioFd = p.ioFd /\ q.ptr = p.ptr
          /\ q.dma = p.dma /\ q.ok = FALSE
      BY <1>2 DEF BmRefused, Processes
    <2>2. QED
      BY <2>1 DEF Armed
  <1>3. QED
    BY <1>1, <1>2, BmOpenDo

LEMMA MastersArmed ==
  ASSUME NEW n \in Processes, NEW d \in Drivers, NEW t \in Blocks, NEW b \in BOOLEAN,
         NEW q, q = Masters(Alloced(n, d, t, b), d, b)
  PROVE  Armed(n, q, d) /\ q.bmFd = n.bmFd
  <1> DEFINE a == Alloced(n, d, t, b)
  <1>0. t \in Things \ Regions
    BY DEF Things, Blocks, Regions
  <1>1. /\ a.alive = n.alive /\ a.iopl = n.iopl /\ a.ioFd = n.ioFd /\ a.bmFd = n.bmFd
        /\ a.ptr = [n.ptr EXCEPT ![d][t] = IF b THEN "held" ELSE "null"]
    BY DEF Alloced, Processes
  <1>2. /\ q.alive = a.alive /\ q.iopl = a.iopl /\ q.ioFd = a.ioFd /\ q.bmFd = a.bmFd
        /\ q.ptr = a.ptr
    BY DEF Masters, Alloced, Processes
  <1> HIDE DEF a
  <1>3. /\ \A r \in Regions : q.ptr[d][r] = n.ptr[d][r]
        /\ \A u \in Blocks : q.ptr[d][u] = n.ptr[d][u] \/ q.ptr[d][u] # "failed"
    BY <1>0, <1>1, <1>2 DEF Processes, Things
  <1>4. QED
    BY <1>1, <1>2, <1>3 DEF Armed

LEMMA BmTableArmed ==
  ASSUME NEW p \in Processes, Kinds(p), p.alive = "run", NEW d \in Drivers,
         FALSE \notin Works[p.world]["version"], NEW q \in BmTable(p, d)
  PROVE  Armed(p, q, d) /\ (~p.dma[d] /\ q.dma[d] => q.bmFd # NoFd)
  <1>1. \E n \in bm_open(p) :
          \/ ~n.ok /\ q = n
          \/ n.ok /\ \E b \in BOOLEAN : q = Masters(Alloced(n, d, "table", b), d, b)
    BY BmTableDo
  <1>2. PICK n \in bm_open(p) :
          \/ q = n
          \/ n.ok /\ \E b \in BOOLEAN : q = Masters(Alloced(n, d, "table", b), d, b)
    BY <1>1
  <1>3. Armed(p, n, d) /\ n.dma = p.dma /\ (n.ok => n.bmFd # NoFd) /\ n \in Processes
    BY BmOpenArmed, BmOpenLeft, LeftTyped
  <1>4. CASE q = n
    BY <1>3, <1>4
  <1>5. ASSUME n.ok, NEW b \in BOOLEAN, q = Masters(Alloced(n, d, "table", b), d, b)
        PROVE  Armed(p, q, d) /\ (~p.dma[d] /\ q.dma[d] => q.bmFd # NoFd)
    <2>1. "table" \in Blocks
      BY DEF Blocks
    <2>2. Armed(n, q, d) /\ q.bmFd = n.bmFd
      BY <1>3, <1>5, <2>1, MastersArmed
    <2>3. QED
      BY <1>3, <1>5, <2>2, ArmedThen
  <1>6. QED
    BY <1>2, <1>4, <1>5

LEMMA BmListsArmed ==
  ASSUME NEW p \in Processes, Kinds(p), p.alive = "run", NEW d \in Drivers,
         FALSE \notin Works[p.world]["version"], NEW q \in BmLists(p, d)
  PROVE  Armed(p, q, d) /\ (~p.dma[d] /\ q.dma[d] => q.bmFd # NoFd)
  <1>1. \E n \in BmTable(p, d) :
          \/ ~n.dma[d] /\ q = n
          \/ n.dma[d] /\ \E b \in BOOLEAN : q = Masters(Alloced(n, d, "block", b), d, b)
    <2>1. ListsMade(p, d, q)
      BY BmListsDo
    <2>2. QED
      BY <2>1 DEF ListsMade
  <1>2. PICK n \in BmTable(p, d) :
          \/ q = n
          \/ n.dma[d] /\ \E b \in BOOLEAN : q = Masters(Alloced(n, d, "block", b), d, b)
    BY <1>1
  <1>3. Armed(p, n, d) /\ (~p.dma[d] /\ n.dma[d] => n.bmFd # NoFd) /\ n \in Processes
    BY BmTableArmed, BmTableLeft, LeftTyped
  <1>4. CASE q = n
    BY <1>3, <1>4
  <1>5. ASSUME n.dma[d], NEW b \in BOOLEAN, q = Masters(Alloced(n, d, "block", b), d, b)
        PROVE  Armed(p, q, d) /\ (~p.dma[d] /\ q.dma[d] => q.bmFd # NoFd)
    <2>1. "block" \in Blocks
      BY DEF Blocks
    <2>2. Armed(n, q, d) /\ q.bmFd = n.bmFd
      BY <1>3, <1>5, <2>1, MastersArmed
    <2>3. QED
      BY <1>3, <1>5, <2>2, ArmedThen
  <1>6. QED
    BY <1>2, <1>4, <1>5

LEMMA InstallSilent ==
  ASSUME NEW p \in Processes, Kinds(p), NEW d \in Drivers, NEW q \in hwirq_install(p, d)
  PROVE  Silent(p, q) /\ q.bmFd = p.bmFd
  <1>1. ASSUME NEW n \in Processes, NEW b, q = Installed(n, d, b)
        PROVE  Silent(n, q) /\ q.bmFd = n.bmFd
    BY <1>1 DEF Installed, Silent, Quiet, Processes
  <1>2. ASSUME NEW f \in Fds, p.owner[f] = "none", p.irqFd = NoFd
        PROVE  /\ IrqOpened(p, f) \in Processes /\ Silent(p, IrqOpened(p, f))
               /\ IrqOpened(p, f).bmFd = p.bmFd
    <2>1. IrqOpened(p, f) \in Processes
      BY <1>2, IrqOpenedLeft, LeftTyped
    <2>2. Silent(p, IrqOpened(p, f)) /\ IrqOpened(p, f).bmFd = p.bmFd
      BY DEF IrqOpened, Silent, Quiet, Processes
    <2>3. QED
      BY <2>1, <2>2
  <1>3. \/ \E b \in BOOLEAN : q = Installed(p, d, b)
        \/ q = Installed(p, d, FALSE)
        \/ p.irqFd = NoFd /\ \E f \in Fds : /\ p.owner[f] = "none"
                                             /\ \E b \in BOOLEAN : q = Installed(IrqOpened(p, f), d, b)
    BY InstallDo
  <1>4. CASE q = Installed(p, d, FALSE) \/ \E b \in BOOLEAN : q = Installed(p, d, b)
    BY <1>1, <1>4
  <1>5. ASSUME p.irqFd = NoFd, NEW f \in Fds, p.owner[f] = "none",
               NEW b, q = Installed(IrqOpened(p, f), d, b)
        PROVE  Silent(p, q) /\ q.bmFd = p.bmFd
    <2>1. Silent(IrqOpened(p, f), q) /\ q.bmFd = IrqOpened(p, f).bmFd
      BY <1>1, <1>2, <1>5
    <2>2. QED
      BY <1>2, <1>5, <2>1 DEF Silent, Quiet
  <1>6. QED
    BY <1>3, <1>4, <1>5

LEMMA BmIrqArmed ==
  ASSUME NEW p \in Processes, Kinds(p), p.alive = "run", NEW d \in Drivers,
         FALSE \notin Works[p.world]["version"], p.ptr[d]["ctl"] = "held", NEW q \in BmIrq(p, d)
  PROVE  Armed(p, q, d) /\ (~p.dma[d] /\ q.dma[d] => q.bmFd # NoFd)
  <1>1. \E n \in bm_open(p) :
          \/ ~n.ok /\ q = n
          \/ n.ok /\ \E r \in hwirq_install(n, d) :
                       q = IF r.ptr[d]["ctl"] = "held" THEN Masters(r, d, TRUE) ELSE Faults(r)
    BY BmIrqDo
  <1>2. PICK n \in bm_open(p) :
          \/ q = n
          \/ n.ok /\ \E r \in hwirq_install(n, d) :
                       q = IF r.ptr[d]["ctl"] = "held" THEN Masters(r, d, TRUE) ELSE Faults(r)
    BY <1>1
  <1>3. /\ Armed(p, n, d) /\ n.dma = p.dma /\ (n.ok => n.bmFd # NoFd) /\ n \in Processes
        /\ Kinds(n)
    BY BmOpenArmed, BmOpenLeft, LeftTyped
  <1>4. CASE q = n
    BY <1>3, <1>4
  <1>5. ASSUME n.ok, NEW r \in hwirq_install(n, d),
               q = IF r.ptr[d]["ctl"] = "held" THEN Masters(r, d, TRUE) ELSE Faults(r)
        PROVE  Armed(p, q, d) /\ (~p.dma[d] /\ q.dma[d] => q.bmFd # NoFd)
    <2>1. Silent(n, r) /\ r.bmFd = n.bmFd /\ r \in Processes
      BY <1>3, <1>5, InstallSilent, InstallLeft, LeftTyped
    <2>2. Armed(n, r, d)
      BY <2>1 DEF Silent, Quiet, Armed
    <2>3. r.ptr[d]["ctl"] = "held"
      BY <1>3, <2>2 DEF Armed, Regions
    <2>4. q = Masters(r, d, TRUE)
      BY <1>5, <2>3
    <2>5. Armed(r, q, d) /\ q.bmFd = r.bmFd
      BY <2>1, <2>4 DEF Masters, Armed, Processes
    <2>6. QED
      BY <1>3, <1>5, <2>1, <2>2, <2>5, ArmedThen
  <1>6. QED
    BY <1>2, <1>4, <1>5

LEMMA BmArmed ==
  ASSUME NEW p \in Processes, Kinds(p), p.alive = "run", NEW d \in Drivers,
         FALSE \notin Works[p.world]["version"], NEW s, IsBm(s), Ready(p, d, s),
         NEW q \in Calling(d, s, p)
  PROVE  Armed(p, q, d) /\ (~p.dma[d] /\ q.dma[d] => q.bmFd # NoFd)
  <1>1. CASE s[1] = "bmIrq"
    BY <1>1, BmIrqArmed DEF Calling, Ready
  <1>2. CASE s[1] = "bmTable"
    BY <1>2, BmTableArmed DEF Calling
  <1>3. CASE s[1] = "bmLists"
    BY <1>3, BmListsArmed DEF Calling
  <1>4. QED
    BY <1>1, <1>2, <1>3 DEF IsBm

\* The calls that close or open a driver's descriptors.
LEMMA FileSilent ==
  ASSUME NEW p \in Processes, NEW d \in Drivers, NEW s,
         IsOpen(s) \/ IsClose(s) \/ s[1] = "bmClose", NEW q \in Calling(d, s, p)
  PROVE  Silent(p, q)
  <1>1. CASE s[1] = "bmClose"
    <2>1. q = CloseFd(p, p.bmFd)
      BY <1>1 DEF Calling, bm_close
    <2>2. QED
      BY <2>1 DEF CloseFd, Silent, Quiet, Processes
  <1>2. CASE IsClose(s)
    <2>1. q = p \/ \E n : q = FileClosed(p, n)
      BY <1>2, DeviceCloseDo DEF Calling, IsClose
    <2>2. QED
      BY <2>1 DEF FileClosed, Silent, Quiet, Processes
  <1>3. CASE s[1] = "openOr" /\ s[2] \in Files
    <2>1. \/ \E n \in Fds : q = FileOpened(p, d, s[2], n)
          \/ q = FileRefused(p, d, s[2])
      BY <1>3, DeviceOpenDo DEF Calling
    <2>2. QED
      BY <2>1 DEF FileOpened, FileRefused, Silent, Quiet, Processes
  <1>4. CASE s[1] = "screenOr" /\ s[2] \in Files
    <2>1. \/ q = Says(p, TRUE) \/ q = Says(p, FALSE)
          \/ q = FileClosed(Says(p, FALSE), p.file[d][s[2]])
      BY <1>4, ScreenDo, ZenonT(40) DEF Calling
    <2>2. QED
      BY <2>1 DEF FileClosed, Says, Silent, Quiet, Processes
  <1>5. QED
    BY <1>1, <1>2, <1>3, <1>4 DEF IsOpen

----------------------------------------------------------------------------
\* One call of a handler whose calls find what they need.
LEMMA AtPlain ==
  ASSUME NEW d \in Drivers, NEW script, Len(script) \in Nat, NEW c, c.things \subseteq Things,
         Orderly(d, script, c), Suits(c.world, d), NEW i \in 1 .. Len(script), NEW p \in At(d, script, c, i - 1),
         IsPlain(script[i]), NEW q \in Calling(d, script[i], p)
  PROVE  IF q.alive = "run" /\ (q.ok \/ script[i][1] \notin Stops)
         THEN q \in At(d, script, c, i) ELSE q \in Out(d, script, c)
  <1> DEFINE s == script[i]
  <1>1. /\ p \in Processes /\ Kinds(p) /\ p.world = c.world /\ p.alive = "run"
        /\ \A t \in Things : p.ptr[d][t] # "failed"
        /\ \A t \in c.things \cup Obtained(script, i - 1) : p.ptr[d][t] = "held"
        /\ p.dma[d] => d \in Openers /\ p.bmFd # NoFd
        /\ c.kept /\ Unclosed(script, i - 1) => BmKept(p)
        /\ (c.ports \/ Asked(script, i - 1)) /\ Undisturbed(script, i - 1) => PortsOpen(p)
        /\ c.fresh /\ Unarmed(script, i - 1) => ~p.dma[d]
    BY DEF At, Holds
  <1>2. Fits(d, s)
    BY DEF Orderly, Formed, Supplied, Ported, IsBm
  <1>3. Ready(p, d, s)
    <2>1. s[1] # "bmIrq"
      BY DEF IsPlain
    <2>2. s[1] \in {"regs", "unmapSized"} => s[2] \in c.things \cup Obtained(script, i - 1)
      BY DEF Orderly, Formed, Supplied, Ported, IsBm
    <2>3. s[1] = "ports" => PortsOpen(p)
      BY <1>1 DEF Orderly, Formed, Supplied, Ported, IsBm
    <2>4. s[1] \in {"unmap", "unmapIf"} => s[2] \in Things
      BY DEF IsPlain, Things
    <2>5. QED
      BY <1>1, <2>1, <2>2, <2>3, <2>4 DEF Ready
  <1>4. Left(p, q, d) /\ Plain(p, q) /\ Fine(p, q, d, s)
    BY <1>1, <1>2, <1>3, PlainCall, PlainFine
  <1>5. q \in Processes /\ Kinds(q) /\ q.world = c.world /\ q.bmFd = p.bmFd
    BY <1>1, <1>4, LeftTyped DEF Plain
  <1>6. CASE q.alive # "run"
    BY <1>1, <1>4, <1>5, <1>6 DEF Fine, Out
  <1>7. CASE q.alive = "run" /\ Obtains(s) # {} /\ ~q.ok
    <2>1. Steady(p, q, d, s) /\ s[1] \in {"map", "mapOr", "alloc", "allocOr"} /\ Obtains(s) = {s[2]}
      BY <1>4, <1>7 DEF Fine, Obtains
    <2>2. s[1] = "mapOr" /\ ~Serves(c.world, d) /\ q.ptr[d][s[2]] = "failed"
      BY <1>1, <1>7, <2>1 DEF Steady
    <2>3. Mapping(script)
      BY <2>2 DEF Mapping
    <2>4. q \in Out(d, script, c)
      BY <1>5, <1>7, <2>2, <2>3 DEF Out
    <2>5. QED
      BY <1>7, <2>2, <2>4 DEF Stops
  <1>8. CASE q.alive = "run" /\ (Obtains(s) = {} \/ q.ok)
    <2>1. Steady(p, q, d, s)
      BY <1>4, <1>8 DEF Fine
    <2>2. \A t \in Obtains(s) : q.ptr[d][t] = "held"
      BY <1>8, <2>1 DEF Steady
    <2>3. \A t \in Things \ Obtains(s) : q.ptr[d][t] = p.ptr[d][t]
      BY <2>1 DEF Steady
    <2>4. \A t \in Things : q.ptr[d][t] # "failed"
      BY <1>1, <2>2, <2>3
    <2>5. \A t \in c.things \cup Obtained(script, i) : q.ptr[d][t] = "held"
      <3>1. \A t \in Obtained(script, i) : t \in Things /\ (t \in Obtained(script, i - 1) \/ t \in Obtains(s))
        BY DEF Obtained
      <3>2. QED
        BY <1>1, <2>2, <2>3, <3>1
    <2>6. q.dma[d] => d \in Openers /\ q.bmFd # NoFd
      BY <1>1, <1>5, <2>1 DEF Steady
    <2>7. Holds(q, d, c.things \cup Obtained(script, i), c.world)
      BY <1>5, <1>8, <2>4, <2>5, <2>6 DEF Holds
    <2>8. c.kept /\ Unclosed(script, i) => BmKept(q)
      <3>1. Unclosed(script, i) => Unclosed(script, i - 1)
        BY DEF Unclosed
      <3>2. BmKept(p) => BmKept(q)
        BY <1>1, <1>4, <1>5, PlainKeeps
      <3>3. QED
        BY <1>1, <3>1, <3>2
    <2>9. (c.ports \/ Asked(script, i)) /\ Undisturbed(script, i) => PortsOpen(q)
      <3>1. Undisturbed(script, i) => Undisturbed(script, i - 1) /\ s[1] \notin {"scan", "probePorts", "disable"}
        BY DEF Undisturbed
      <3>2. Asked(script, i) => Asked(script, i - 1) \/ s[1] \in {"enable", "enableOr"}
        BY DEF Asked
      <3>3. QED
        BY <1>1, <2>1, <3>1, <3>2 DEF Steady
    <2>10. c.fresh /\ Unarmed(script, i) => ~q.dma[d]
      <3>1. Unarmed(script, i) => Unarmed(script, i - 1)
        BY DEF Unarmed
      <3>2. QED
        BY <1>1, <2>1, <3>1 DEF Steady
    <2>11. q \in At(d, script, c, i)
      BY <1>5, <2>7, <2>8, <2>9, <2>10 DEF At
    <2>12. CASE ~q.ok /\ s[1] \in Stops
      <3>1. s[1] \in {"scan", "card", "fits"}
        BY <1>8, <2>1, <2>12 DEF Stops, Obtains, Steady, IsPlain
      <3>2. Refusing(script)
        BY <3>1 DEF Refusing
      <3>3. Holds(q, d, c.things, c.world)
        BY <2>7 DEF Holds
      <3>4. c.ports /\ Undisturbed(script, Len(script)) => PortsOpen(q)
        <4>1. Undisturbed(script, Len(script)) => Undisturbed(script, i)
          BY DEF Undisturbed
        <4>2. QED
          BY <2>9, <4>1
      <3>5. q \in Out(d, script, c)
        BY <1>5, <1>8, <3>2, <3>3, <3>4 DEF Out
      <3>6. QED
        BY <2>12, <3>5
    <2>13. QED
      BY <1>8, <2>11, <2>12
  <1>9. QED
    BY <1>6, <1>7, <1>8

LEMMA AtBm ==
  ASSUME NEW d \in Drivers, NEW script, Len(script) \in Nat, NEW c, c.things \subseteq Things,
         Orderly(d, script, c), FALSE \notin Works[c.world]["version"],
         NEW i \in 1 .. Len(script), NEW p \in At(d, script, c, i - 1),
         IsBm(script[i]), NEW q \in Calling(d, script[i], p)
  PROVE  q.alive = "run" /\ script[i][1] \notin Stops /\ q \in At(d, script, c, i)
  <1> DEFINE s == script[i]
  <1>1. /\ p \in Processes /\ Kinds(p) /\ p.world = c.world /\ p.alive = "run"
        /\ \A t \in Things : p.ptr[d][t] # "failed"
        /\ \A t \in c.things \cup Obtained(script, i - 1) : p.ptr[d][t] = "held"
        /\ c.kept /\ Unclosed(script, i - 1) => BmKept(p)
        /\ (c.ports \/ Asked(script, i - 1)) /\ Undisturbed(script, i - 1) => PortsOpen(p)
        /\ c.fresh /\ Unarmed(script, i - 1) => ~p.dma[d]
    BY DEF At, Holds
  <1>2. /\ IsBm(s) /\ d \in Openers /\ c.fresh /\ Unarmed(script, i - 1)
        /\ c.things \cup Obtained(script, i - 1) \subseteq Regions
        /\ s[1] = "bmIrq" => "ctl" \in c.things \cup Obtained(script, i - 1)
    BY DEF Orderly, Formed, Supplied, Ported, IsBm
  <1>3. Ready(p, d, s)
    BY <1>1, <1>2 DEF Ready, IsBm
  <1>4. Left(p, q, d) /\ BmKept(q)
    BY <1>1, <1>2, BmCall
  <1>5. Armed(p, q, d) /\ (~p.dma[d] /\ q.dma[d] => q.bmFd # NoFd)
    BY <1>1, <1>2, <1>3, BmArmed
  <1>6. q \in Processes /\ Kinds(q) /\ q.world = c.world /\ q.alive = "run"
    BY <1>1, <1>4, <1>5, LeftTyped DEF Armed
  <1>7. /\ \A t \in Things : q.ptr[d][t] # "failed"
        /\ \A t \in c.things \cup Obtained(script, i) : q.ptr[d][t] = "held"
    <2>1. Obtained(script, i) = Obtained(script, i - 1)
      <3>1. Obtains(s) = {}
        BY <1>2 DEF IsBm, Obtains
      <3>2. QED
        BY <3>1 DEF Obtained
    <2>2. QED
      BY <1>1, <1>2, <1>5, <2>1 DEF Armed, Things
  <1>8. Holds(q, d, c.things \cup Obtained(script, i), c.world)
    BY <1>1, <1>2, <1>5, <1>6, <1>7 DEF Holds
  <1>9. (c.ports \/ Asked(script, i)) /\ Undisturbed(script, i) => PortsOpen(q)
    <2>1. Undisturbed(script, i) => Undisturbed(script, i - 1)
      BY DEF Undisturbed
    <2>2. Asked(script, i) => Asked(script, i - 1)
      BY <1>2 DEF Asked, IsBm
    <2>3. PortsOpen(p) => PortsOpen(q)
      BY <1>5 DEF Armed, PortsOpen
    <2>4. QED
      BY <1>1, <2>1, <2>2, <2>3
  <1>10. ~Unarmed(script, i)
    BY <1>2 DEF Unarmed
  <1>11. q \in At(d, script, c, i)
    BY <1>4, <1>6, <1>8, <1>9, <1>10 DEF At
  <1>12. QED
    BY <1>2, <1>6, <1>11 DEF IsBm, Stops

LEMMA AtBmClose ==
  ASSUME NEW d \in Drivers, NEW script, Len(script) \in Nat, NEW c, c.things \subseteq Things,
         Orderly(d, script, c), NEW i \in 1 .. Len(script), NEW p \in At(d, script, c, i - 1),
         script[i][1] = "bmClose", NEW q \in Calling(d, script[i], p)
  PROVE  q.alive = "run" /\ script[i][1] \notin Stops /\ q \in At(d, script, c, i)
  <1> DEFINE s == script[i]
  <1>1. /\ p \in Processes /\ Kinds(p) /\ p.world = c.world /\ p.alive = "run"
        /\ \A t \in Things : p.ptr[d][t] # "failed"
        /\ \A t \in c.things \cup Obtained(script, i - 1) : p.ptr[d][t] = "held"
        /\ p.dma[d] => d \in Openers /\ p.bmFd # NoFd
        /\ c.kept /\ Unclosed(script, i - 1) => BmKept(p)
        /\ (c.ports \/ Asked(script, i - 1)) /\ Undisturbed(script, i - 1) => PortsOpen(p)
        /\ c.fresh /\ Unarmed(script, i - 1) => ~p.dma[d]
    BY DEF At, Holds
  <1>2. c.kept /\ Unclosed(script, i - 1)
    BY DEF Orderly, Formed, Supplied, Ported, IsBm
  <1>3. q \in bm_close(p)
    BY DEF Calling
  <1>4. Left(p, q, d) /\ q.bmFd = p.bmFd
    BY <1>1, <1>2, <1>3, BmCloseDo
  <1>5. Silent(p, q)
    BY <1>1, FileSilent
  <1>6. q \in Processes /\ Kinds(q) /\ q.world = c.world /\ q.alive = "run"
    BY <1>1, <1>4, <1>5, LeftTyped DEF Silent, Quiet
  <1>7. Obtained(script, i) = Obtained(script, i - 1)
    <2>1. Obtains(s) = {}
      BY DEF Obtains
    <2>2. QED
      BY <2>1 DEF Obtained
  <1>8. Holds(q, d, c.things \cup Obtained(script, i), c.world)
    BY <1>1, <1>4, <1>5, <1>6, <1>7 DEF Holds, Silent, Quiet
  <1>9. (c.ports \/ Asked(script, i)) /\ Undisturbed(script, i) => PortsOpen(q)
    <2>1. Undisturbed(script, i) => Undisturbed(script, i - 1)
      BY DEF Undisturbed
    <2>2. Asked(script, i) => Asked(script, i - 1)
      BY DEF Asked
    <2>3. QED
      BY <1>1, <1>5, <2>1, <2>2 DEF Silent, PortsOpen
  <1>10. ~Unclosed(script, i)
    BY DEF Unclosed
  <1>11. c.fresh /\ Unarmed(script, i) => ~q.dma[d]
    <2>1. Unarmed(script, i) => Unarmed(script, i - 1)
      BY DEF Unarmed
    <2>2. QED
      BY <1>1, <1>5, <2>1 DEF Silent, Quiet
  <1>12. q \in At(d, script, c, i)
    BY <1>6, <1>8, <1>9, <1>10, <1>11 DEF At
  <1>13. QED
    BY <1>6, <1>12 DEF Stops

LEMMA AtStep ==
  ASSUME NEW d \in Drivers, NEW script, Len(script) \in Nat, NEW c, c.things \subseteq Things,
         Orderly(d, script, c), Suits(c.world, d),
         d \in Openers => FALSE \notin Works[c.world]["version"],
         NEW i \in 1 .. Len(script), NEW p \in At(d, script, c, i - 1),
         NEW q \in Calling(d, script[i], p)
  PROVE  IF q.alive = "run" /\ (q.ok \/ script[i][1] \notin Stops)
         THEN q \in At(d, script, c, i) ELSE q \in Out(d, script, c)
  <1>1. CASE IsPlain(script[i])
    BY <1>1, AtPlain
  <1>2. CASE IsBm(script[i])
    <2>1. FALSE \notin Works[c.world]["version"]
      BY <1>2 DEF Orderly, Formed, Supplied, Ported, IsBm
    <2>2. q.alive = "run" /\ script[i][1] \notin Stops /\ q \in At(d, script, c, i)
      BY <1>2, <2>1, AtBm
    <2>3. QED
      BY <2>2
  <1>3. CASE script[i][1] = "bmClose"
    <2>1. q.alive = "run" /\ script[i][1] \notin Stops /\ q \in At(d, script, c, i)
      BY <1>3, AtBmClose
    <2>2. QED
      BY <2>1
  <1>4. QED
    BY <1>1, <1>2, <1>3 DEF Orderly, Formed, Supplied, Ported, IsBm

LEMMA OrderlyRun ==
  ASSUME NEW d \in Drivers, NEW script, Len(script) \in Nat, NEW c, c.things \subseteq Things,
         Orderly(d, script, c), Suits(c.world, d),
         d \in Openers => FALSE \notin Works[c.world]["version"],
         NEW p \in At(d, script, c, 0), NEW r \in Run(d, script, p)
  PROVE  IF r.done THEN r.p \in At(d, script, c, Len(script)) ELSE r.p \in Out(d, script, c)
  <1> DEFINE N == Len(script)
             X == Out(d, script, c)
             S == [i \in 0 .. N |-> At(d, script, c, i)]
  <1>1. N \in Nat /\ p \in S[0]
    BY SMT
  <1>2. ASSUME NEW i \in 1 .. N, NEW q \in S[i - 1], q.alive = "run",
               NEW t \in Calling(d, script[i], q)
        PROVE  IF t.alive = "run" /\ (t.ok \/ script[i][1] \notin Stops)
               THEN t \in S[i] ELSE t \in X
    <2>1. q \in At(d, script, c, i - 1)
      BY <1>2
    <2>2. S[i] = At(d, script, c, i)
      BY <1>2
    <2>3. QED
      BY <1>2, <2>1, <2>2, AtStep
  <1>3. S[N] = At(d, script, c, N)
    BY <1>1
  <1>4. p.alive = "run"
    BY DEF At, Holds
  <1> HIDE DEF S, X
  <1>5. \A t \in Run(d, script, p) : Ends(p, t, S[Len(script)], X)
    <2>1. \A i \in 1 .. Len(script) : \A q \in S[i - 1] : q.alive = "run" =>
             \A t \in Calling(d, script[i], q) :
               IF t.alive = "run" /\ (t.ok \/ script[i][1] \notin Stops)
               THEN t \in S[i] ELSE t \in X
      BY <1>2
    <2>2. QED
      BY <1>1, <2>1, Unrolled
  <1>6. Ends(p, r, S[N], X)
    BY <1>5
  <1>7. QED
    BY <1>3, <1>4, <1>6 DEF Ends, X

\* What a driver holds after vixInit, and after vixConfigPlayback.
LEMMA InitObtains ==
  /\ All(InitOf["cyberblade"]) = {"mem"}
  /\ All(InitOf["ivtv"]) = {"table"}
  /\ All(InitOf["mach64"]) = {"ctl", "mem"}
  /\ All(InitOf["mga"]) = {"ctl", "mem"}
  /\ All(InitOf["nvidia"]) = {"block", "ctl", "mem"}
  /\ All(InitOf["pm2"]) = {"ctl", "mem"}
  /\ All(InitOf["pm3"]) = {"ctl", "mem"}
  /\ All(InitOf["radeon"]) = {"ctl", "mem"}
  /\ All(InitOf["radeonhd"]) = {"ctl", "mem"}
  /\ All(InitOf["s3"]) = {"block", "ctl"}
  /\ All(InitOf["savage"]) = {"block", "ctl"}
  /\ All(InitOf["sis"]) = {"mem"}
  /\ All(InitOf["unichrome"]) = {"mem", "ctl"}
  <1> USE DEF InitOf, All, Obtained, Obtains, Things, Regions, Blocks
  <1>1. All(InitOf["cyberblade"]) = {"mem"}
    BY DEF CyberbladeInit
  <1>2. All(InitOf["ivtv"]) = {"table"}
    BY DEF IvtvInit
  <1>3. All(InitOf["mach64"]) = {"ctl", "mem"}
    BY DEF Mach64Init
  <1>4. All(InitOf["mga"]) = {"ctl", "mem"}
    BY DEF MgaInit
  <1>5. All(InitOf["nvidia"]) = {"block", "ctl", "mem"}
    BY DEF NvidiaInit
  <1>6. All(InitOf["pm2"]) = {"ctl", "mem"}
    BY DEF Pm2Init
  <1>7. All(InitOf["pm3"]) = {"ctl", "mem"}
    BY DEF Pm3Init
  <1>8. All(InitOf["radeon"]) = {"ctl", "mem"}
    BY DEF RadeonInit
  <1>9. All(InitOf["radeonhd"]) = {"ctl", "mem"}
    BY DEF RadeonhdInit
  <1>10. All(InitOf["s3"]) = {"block", "ctl"}
    BY DEF S3Init
  <1>11. All(InitOf["savage"]) = {"block", "ctl"}
    BY DEF SavageInit
  <1>12. All(InitOf["sis"]) = {"mem"}
    BY DEF SisInit
  <1>13. All(InitOf["unichrome"]) = {"mem", "ctl"}
    BY DEF UnichromeInit
  <1> HIDE DEF InitOf, All, Obtained, Obtains, Things, Regions, Blocks
  <1>14. QED
    BY <1>1, <1>2, <1>3, <1>4, <1>5, <1>6, <1>7, <1>8, <1>9, <1>10, <1>11, <1>12, <1>13

LEMMA ConfigObtains ==
  /\ All(ConfigOf["cyberblade"]) = {}
  /\ All(ConfigOf["ivtv"]) = {"block"}
  /\ All(ConfigOf["mach64"]) = {}
  /\ All(ConfigOf["mga"]) = {}
  /\ All(ConfigOf["nvidia"]) = {}
  /\ All(ConfigOf["pm2"]) = {}
  /\ All(ConfigOf["pm3"]) = {}
  /\ All(ConfigOf["radeon"]) = {}
  /\ All(ConfigOf["radeonhd"]) = {}
  /\ All(ConfigOf["s3"]) = {"mem"}
  /\ All(ConfigOf["savage"]) = {"mem"}
  /\ All(ConfigOf["sis"]) = {}
  /\ All(ConfigOf["unichrome"]) = {}
  <1> USE DEF ConfigOf, All, Obtained, Obtains, Things, Regions, Blocks
  <1>1. All(ConfigOf["cyberblade"]) = {}
    BY DEF CyberbladeConfig
  <1>2. All(ConfigOf["ivtv"]) = {"block"}
    BY DEF IvtvConfig
  <1>3. All(ConfigOf["mach64"]) = {}
    BY DEF Mach64Config
  <1>4. All(ConfigOf["mga"]) = {}
    BY DEF MgaConfig
  <1>5. All(ConfigOf["nvidia"]) = {}
    BY DEF NvidiaConfig
  <1>6. All(ConfigOf["pm2"]) = {}
    BY DEF Pm2Config
  <1>7. All(ConfigOf["pm3"]) = {}
    BY DEF Pm3Config
  <1>8. All(ConfigOf["radeon"]) = {}
    BY DEF RadeonConfig
  <1>9. All(ConfigOf["radeonhd"]) = {}
    BY DEF RadeonhdConfig
  <1>10. All(ConfigOf["s3"]) = {"mem"}
    BY DEF S3Config
  <1>11. All(ConfigOf["savage"]) = {"mem"}
    BY DEF SavageConfig
  <1>12. All(ConfigOf["sis"]) = {}
    BY DEF SisConfig
  <1>13. All(ConfigOf["unichrome"]) = {}
    BY DEF UnichromeConfig
  <1> HIDE DEF ConfigOf, All, Obtained, Obtains, Things, Regions, Blocks
  <1>14. QED
    BY <1>1, <1>2, <1>3, <1>4, <1>5, <1>6, <1>7, <1>8, <1>9, <1>10, <1>11, <1>12, <1>13

\* The handlers of each driver, read from their scripts: none makes a call without
\* what the call needs.
LEMMA InitOrderly ==
  ASSUME NEW d \in DriverNames, NEW c, c.fresh, c.things = {}
  PROVE  /\ Orderly(d, InitOf[d], c) /\ Len(InitOf[d]) \in Nat /\ ~Refusing(InitOf[d])
         /\ Undisturbed(InitOf[d], Len(InitOf[d]))
         /\ d \in Porters => Asked(InitOf[d], Len(InitOf[d]))
  <1> USE DEF InitOf, Orderly, Formed, IsPlain, IsBm, Fits, Regions, Blocks, Openers, Checkers,
            Heapers, Enablers, Unarmed, Unclosed, Supplied, Obtains, Obtained, Things, Ported,
            Undisturbed, Asked, Refusing, Mapping, Porters
  <1>1. CASE d = "cyberblade"
    BY <1>1 DEF CyberbladeInit
  <1>2. CASE d = "ivtv"
    BY <1>2 DEF IvtvInit
  <1>3. CASE d = "mach64"
    BY <1>3 DEF Mach64Init
  <1>4. CASE d = "mga"
    BY <1>4 DEF MgaInit
  <1>5. CASE d = "nvidia"
    BY <1>5 DEF NvidiaInit
  <1>6. CASE d = "pm2"
    BY <1>6 DEF Pm2Init
  <1>7. CASE d = "pm3"
    BY <1>7 DEF Pm3Init
  <1>8. CASE d = "radeon"
    BY <1>8 DEF RadeonInit
  <1>9. CASE d = "radeonhd"
    BY <1>9 DEF RadeonhdInit
  <1>10. CASE d = "s3"
    BY <1>10 DEF S3Init
  <1>11. CASE d = "savage"
    BY <1>11 DEF SavageInit
  <1>12. CASE d = "sis"
    BY <1>12 DEF SisInit
  <1>13. CASE d = "unichrome"
    BY <1>13 DEF UnichromeInit
  <1> HIDE DEF InitOf, Orderly, Formed, IsPlain, IsBm, Fits, Regions, Blocks, Openers, Checkers,
             Heapers, Enablers, Unarmed, Unclosed, Supplied, Obtains, Obtained, Things, Ported,
             Undisturbed, Asked, Refusing, Mapping, Porters
  <1>14. QED
    BY <1>1, <1>2, <1>3, <1>4, <1>5, <1>6, <1>7, <1>8, <1>9, <1>10, <1>11, <1>12, <1>13 DEF
       DriverNames

LEMMA ConfigOrderly ==
  ASSUME NEW d \in DriverNames, NEW c, All(InitOf[d]) \subseteq c.things, d \in Porters => c.ports
  PROVE  /\ Orderly(d, ConfigOf[d], c) /\ Len(ConfigOf[d]) \in Nat
         /\ ~Mapping(ConfigOf[d]) /\ Undisturbed(ConfigOf[d], Len(ConfigOf[d]))
  <1> USE DEF ConfigOf, Orderly, Formed, IsPlain, IsBm, Fits, Regions, Blocks, Openers, Checkers,
            Heapers, Enablers, Unarmed, Unclosed, Supplied, Obtains, Obtained, Things, Ported,
            Undisturbed, Asked, Refusing, Mapping, Porters
  <1>1. CASE d = "cyberblade"
    BY <1>1, InitObtains DEF CyberbladeConfig
  <1>2. CASE d = "ivtv"
    BY <1>2, InitObtains DEF IvtvConfig
  <1>3. CASE d = "mach64"
    BY <1>3, InitObtains DEF Mach64Config
  <1>4. CASE d = "mga"
    BY <1>4, InitObtains DEF MgaConfig
  <1>5. CASE d = "nvidia"
    BY <1>5, InitObtains DEF NvidiaConfig
  <1>6. CASE d = "pm2"
    BY <1>6, InitObtains DEF Pm2Config
  <1>7. CASE d = "pm3"
    BY <1>7, InitObtains DEF Pm3Config
  <1>8. CASE d = "radeon"
    BY <1>8, InitObtains DEF RadeonConfig
  <1>9. CASE d = "radeonhd"
    BY <1>9, InitObtains DEF RadeonhdConfig
  <1>10. CASE d = "s3"
    BY <1>10, InitObtains DEF S3Config
  <1>11. CASE d = "savage"
    BY <1>11, InitObtains DEF SavageConfig
  <1>12. CASE d = "sis"
    BY <1>12, InitObtains DEF SisConfig
  <1>13. CASE d = "unichrome"
    BY <1>13, InitObtains DEF UnichromeConfig
  <1> HIDE DEF ConfigOf, Orderly, Formed, IsPlain, IsBm, Fits, Regions, Blocks, Openers, Checkers,
             Heapers, Enablers, Unarmed, Unclosed, Supplied, Obtains, Obtained, Things, Ported,
             Undisturbed, Asked, Refusing, Mapping, Porters
  <1>14. QED
    BY <1>1, <1>2, <1>3, <1>4, <1>5, <1>6, <1>7, <1>8, <1>9, <1>10, <1>11, <1>12, <1>13 DEF
       DriverNames

LEMMA PlayOrderly ==
  ASSUME NEW d \in DriverNames, NEW c, All(InitOf[d]) \cup All(ConfigOf[d]) \subseteq c.things,
         d \in Porters => c.ports
  PROVE  /\ Orderly(d, PlayOf[d], c) /\ Len(PlayOf[d]) \in Nat /\ ~Refusing(PlayOf[d]) /\ ~Mapping(PlayOf[d])
         /\ Undisturbed(PlayOf[d], Len(PlayOf[d]))
  <1> USE DEF PlayOf, Orderly, Formed, IsPlain, IsBm, Fits, Regions, Blocks, Openers, Checkers,
            Heapers, Enablers, Unarmed, Unclosed, Supplied, Obtains, Obtained, Things, Ported,
            Undisturbed, Asked, Refusing, Mapping, Porters
  <1>1. CASE d = "cyberblade"
    BY <1>1, InitObtains, ConfigObtains DEF CyberbladePlay
  <1>2. CASE d = "ivtv"
    BY <1>2, InitObtains, ConfigObtains DEF IvtvPlay
  <1>3. CASE d = "mach64"
    BY <1>3, InitObtains, ConfigObtains DEF Mach64Play
  <1>4. CASE d = "mga"
    BY <1>4, InitObtains, ConfigObtains DEF MgaPlay
  <1>5. CASE d = "nvidia"
    BY <1>5, InitObtains, ConfigObtains DEF NvidiaPlay
  <1>6. CASE d = "pm2"
    BY <1>6, InitObtains, ConfigObtains DEF Pm2Play
  <1>7. CASE d = "pm3"
    BY <1>7, InitObtains, ConfigObtains DEF Pm3Play
  <1>8. CASE d = "radeon"
    BY <1>8, InitObtains, ConfigObtains DEF RadeonPlay
  <1>9. CASE d = "radeonhd"
    BY <1>9, InitObtains, ConfigObtains DEF RadeonhdPlay
  <1>10. CASE d = "s3"
    BY <1>10, InitObtains, ConfigObtains DEF S3Play
  <1>11. CASE d = "savage"
    BY <1>11, InitObtains, ConfigObtains DEF SavagePlay
  <1>12. CASE d = "sis"
    BY <1>12, InitObtains, ConfigObtains DEF SisPlay
  <1>13. CASE d = "unichrome"
    BY <1>13, InitObtains, ConfigObtains DEF UnichromePlay
  <1> HIDE DEF PlayOf, Orderly, Formed, IsPlain, IsBm, Fits, Regions, Blocks, Openers, Checkers,
             Heapers, Enablers, Unarmed, Unclosed, Supplied, Obtains, Obtained, Things, Ported,
             Undisturbed, Asked, Refusing, Mapping, Porters
  <1>14. QED
    BY <1>1, <1>2, <1>3, <1>4, <1>5, <1>6, <1>7, <1>8, <1>9, <1>10, <1>11, <1>12, <1>13 DEF
       DriverNames

LEMMA DestroyOrderly ==
  ASSUME NEW d \in DriverNames, d # "ivtv", NEW c, All(InitOf[d]) \subseteq c.things,
         d \in Porters => c.ports, d \in Closers => c.kept
  PROVE  Orderly(d, DestroyOf[d], c) /\ Len(DestroyOf[d]) \in Nat /\ ~Refusing(DestroyOf[d]) /\ ~Mapping(DestroyOf[d])
  <1> USE DEF DestroyOf, Orderly, Formed, IsPlain, IsBm, Fits, Regions, Blocks, Openers, Checkers,
            Heapers, Enablers, Unarmed, Unclosed, Supplied, Obtains, Obtained, Things, Ported,
            Undisturbed, Asked, Refusing, Mapping, Porters, Closers
  <1>1. CASE d = "cyberblade"
    BY <1>1, InitObtains DEF CyberbladeDestroy
  <1>2. CASE d = "mach64"
    BY <1>2, InitObtains DEF Mach64Destroy
  <1>3. CASE d = "mga"
    BY <1>3, InitObtains DEF MgaDestroy
  <1>4. CASE d = "nvidia"
    BY <1>4, InitObtains DEF NvidiaDestroy
  <1>5. CASE d = "pm2"
    BY <1>5, InitObtains DEF Pm2Destroy
  <1>6. CASE d = "pm3"
    BY <1>6, InitObtains DEF Pm3Destroy
  <1>7. CASE d = "radeon"
    BY <1>7, InitObtains DEF RadeonDestroy
  <1>8. CASE d = "radeonhd"
    BY <1>8, InitObtains DEF RadeonhdDestroy
  <1>9. CASE d = "s3"
    BY <1>9, InitObtains DEF S3Destroy
  <1>10. CASE d = "savage"
    BY <1>10, InitObtains DEF SavageDestroy
  <1>11. CASE d = "sis"
    BY <1>11, InitObtains DEF SisDestroy
  <1>12. CASE d = "unichrome"
    BY <1>12, InitObtains DEF UnichromeDestroy
  <1> HIDE DEF DestroyOf, Orderly, Formed, IsPlain, IsBm, Fits, Regions, Blocks, Openers,
             Checkers, Heapers, Enablers, Unarmed, Unclosed, Supplied, Obtains, Obtained, Things,
             Ported, Undisturbed, Asked, Refusing, Mapping, Porters, Closers
  <1>13. QED
    BY <1>1, <1>2, <1>3, <1>4, <1>5, <1>6, <1>7, <1>8, <1>9, <1>10, <1>11, <1>12 DEF DriverNames

----------------------------------------------------------------------------
\* The handlers.

\* vixProbe touches nothing the driver holds.
LEMMA ProbeCallQuiet ==
  ASSUME NEW p \in Processes, Kinds(p), p.alive = "run", NEW d \in Drivers, NEW s,
         s[1] \in {"scan", "card", "probePorts"} \/ IsOpen(s), NEW q \in Calling(d, s, p)
  PROVE  Quiet(p, q)
  <1>1. CASE s[1] = "scan"
    BY <1>1, ScanQuiet DEF Calling
  <1>2. CASE s[1] = "card"
    <2>1. q \in Try(p, "card") /\ "card" \in Calls
      BY <1>2 DEF Calling, Calls
    <2>2. \E b \in Works[p.world]["card"] : q = [p EXCEPT !.ok = b]
      BY <2>1, TryDo
    <2>3. QED
      BY <2>2 DEF Quiet, Processes
  <1>3. CASE s[1] = "probePorts"
    BY <1>3, ProbePortsQuiet DEF Calling
  <1>4. CASE IsOpen(s)
    BY <1>4, FileSilent DEF Silent
  <1>5. QED
    BY <1>1, <1>2, <1>3, <1>4

LEMMA ProbeQuiet ==
  ASSUME NEW p \in Processes, Kinds(p), p.alive = "run", NEW d \in Drivers, OwnFiles(p, d),
         NEW r \in Run(d, ProbeOf(d), p)
  PROVE  Quiet(p, r.p)
  <1> DEFINE script == ProbeOf(d)
             N == Len(script)
             X == {q \in Processes : Left(p, q, d) /\ Quiet(p, q)}
             S == [i \in 0 .. N |-> {q \in X : OwnFiles(q, d)}]
  <1>1. /\ N \in Nat
        /\ \A i \in 1 .. N : /\ IsPlain(script[i]) \/ IsOpen(script[i])
                             /\ script[i][1] \in {"scan", "card", "probePorts"} \/ IsOpen(script[i])
    BY DEF ProbeOf, ProbeScript, SisProbe, IvtvProbe, IsPlain, IsOpen, Files
  <1>2. ASSUME NEW i \in 1 .. N, NEW q \in S[i - 1], q.alive = "run",
               NEW t \in Calling(d, script[i], q)
        PROVE  IF t.alive = "run" /\ (t.ok \/ script[i][1] \notin Stops)
               THEN t \in S[i] ELSE t \in X
    <2>1. S[i - 1] = {x \in X : OwnFiles(x, d)} /\ S[i] = {x \in X : OwnFiles(x, d)}
      BY <1>1
    <2>2. /\ IsPlain(script[i]) \/ IsOpen(script[i])
          /\ script[i][1] \in {"scan", "card", "probePorts"} \/ IsOpen(script[i])
      BY <1>1
    <2> HIDE DEF S, script, N
    <2>3. q \in Processes /\ Kinds(q) /\ Left(p, q, d) /\ Quiet(p, q) /\ OwnFiles(q, d)
      BY <2>1, LeftTyped
    <2>4. Left(q, t, d) /\ (t.ok \/ script[i][1] \notin Stops => OwnFiles(t, d))
      BY <1>2, <2>2, <2>3, IvtvProbeCall
    <2>5. Quiet(q, t)
      BY <1>2, <2>2, <2>3, ProbeCallQuiet
    <2>6. t \in X
      BY <2>3, <2>4, <2>5, LeftTyped, LeftThen, QuietThen
    <2>7. QED
      BY <2>1, <2>4, <2>6
  <1>3. p \in X
    BY HandSame DEF Hand, Quiet
  <1>4. S[0] = {q \in X : OwnFiles(q, d)} /\ S[N] \subseteq X
    BY <1>1
  <1>5. N \in Nat /\ p \in S[0]
    <2> HIDE DEF X
    <2> QED BY <1>1, <1>3, <1>4
  <1> HIDE DEF S, X, script
  <1>6. \A t \in Run(d, script, p) : Ends(p, t, S[N], X)
    BY <1>2, <1>5, Unrolled
  <1>7. r.p \in X
    BY <1>3, <1>4, <1>6 DEF script, Ends
  <1>8. QED
    BY <1>7 DEF X

\* vixDestroy of ivtv does not end the program.
LEMMA IvtvDestroyQuiet ==
  ASSUME NEW p \in Processes, Kinds(p), p.alive = "run", NEW d \in Drivers, d = "ivtv",
         OwnFiles(p, d), NEW r \in Run(d, DestroyOf[d], p)
  PROVE  r.p.alive = "run"
  <1> DEFINE script == DestroyOf[d]
             N == Len(script)
             X == {q \in Processes : Kinds(q) /\ FilesSafe(q, d) /\ q.alive = "run"}
             S == [i \in 0 .. N |-> X]
  <1>1. N = 4 /\ \A i \in 1 .. 4 :
                   IsClose(script[i]) \/ (script[i][1] = "free" /\ script[i][2] \in Blocks)
    BY DEF DestroyOf, IvtvDestroy, IsClose, Files, Blocks
  <1>2. ASSUME NEW i \in 1 .. N, NEW q \in S[i - 1], q.alive = "run",
               NEW t \in Calling(d, script[i], q)
        PROVE  IF t.alive = "run" /\ (t.ok \/ script[i][1] \notin Stops)
               THEN t \in S[i] ELSE t \in X
    <2>1. S[i - 1] = X /\ S[i] = X
      BY <1>1
    <2>2. IsClose(script[i]) \/ (script[i][1] = "free" /\ script[i][2] \in Blocks)
      BY <1>1
    <2> HIDE DEF S, script, N
    <2>3. q \in Processes /\ Kinds(q) /\ FilesSafe(q, d)
      BY <2>1
    <2>4. Left(q, t, d) /\ FilesSafe(t, d)
      BY <1>2, <2>2, <2>3, IvtvDestroyCall
    <2>5. t.alive = "run"
      <3>1. CASE IsClose(script[i])
        BY <1>2, <2>3, <3>1, FileSilent DEF Silent, Quiet
      <3>2. CASE script[i][1] = "free" /\ script[i][2] \in Blocks
        <4>1. t \in alloc(q, d, script[i][2]) \cup free(q, d, script[i][2])
          BY <1>2, <3>2 DEF Calling
        <4>2. QED
          BY <1>2, <2>3, <3>2, <4>1, AllocLeft
      <3>3. QED
        BY <2>2, <3>1, <3>2
    <2>6. t \in X
      BY <2>4, <2>5, LeftTyped
    <2>7. QED
      BY <2>1, <2>6
  <1>3. p \in X
    BY DEF OwnFiles, FilesSafe
  <1>4. S[0] = X /\ S[N] = X
    BY <1>1
  <1>5. N \in Nat /\ p \in S[0]
    <2> HIDE DEF X
    <2> QED BY <1>1, <1>3
  <1> HIDE DEF S, X, script
  <1>6. \A t \in Run(d, script, p) : Ends(p, t, S[N], X)
    BY <1>2, <1>5, Unrolled
  <1>7. r.p \in X
    BY <1>3, <1>4, <1>6 DEF script, Ends
  <1>8. QED
    BY <1>7 DEF X

\* vixInit that returns 0 leaves the driver what it needs.
LEMMA InitHas ==
  ASSUME NEW p \in Processes, Kinds(p), p.alive = "run", NEW d \in Drivers,
         \A t \in Things : p.ptr[d][t] # "failed", ~p.dma[d],
         Suitable(p.world, d), NEW r \in Run(d, InitOf[d], p)
  PROVE  /\ r.done => r.p.alive = "run" /\ Has(r.p, d, All(InitOf[d]))
         /\ ~r.done /\ r.p.alive = "run" => ~Serves(p.world, d)
         /\ Alive(p.world, d, r.p)
  <1> DEFINE c == [world |-> p.world, things |-> {}, ports |-> FALSE, kept |-> FALSE, fresh |-> TRUE]
             script == InitOf[d]
  <1>1. /\ c.world = p.world /\ c.things = {} /\ c.ports = FALSE /\ c.kept = FALSE
        /\ c.fresh = TRUE
    OBVIOUS
  <1> HIDE DEF c
  <1>2. /\ Orderly(d, script, c) /\ Len(script) \in Nat /\ ~Refusing(script)
        /\ Undisturbed(script, Len(script))
        /\ d \in Porters => Asked(script, Len(script))
    BY <1>1, DriversAssumption, InitOrderly
  <1>3. p \in At(d, script, c, 0)
    <2>1. Obtained(script, 0) = {} /\ ~Asked(script, 0)
      BY DEF Obtained, Asked
    <2>2. QED
      BY <1>1, <2>1 DEF At, Holds
  <1> HIDE DEF script
  <1>4. Suits(c.world, d) /\ (d \in Openers => FALSE \notin Works[c.world]["version"])
    BY <1>1 DEF Suitable
  <1>5. c.things \subseteq Things
    BY <1>1
  <1>6. IF r.done THEN r.p \in At(d, script, c, Len(script)) ELSE r.p \in Out(d, script, c)
    BY <1>2, <1>3, <1>4, <1>5, OrderlyRun DEF script
  <1>7. CASE r.done
    <2>1. /\ r.p.alive = "run" /\ \A t \in Things : r.p.ptr[d][t] # "failed"
          /\ \A t \in All(script) : r.p.ptr[d][t] = "held"
          /\ r.p.dma[d] => d \in Openers /\ r.p.bmFd # NoFd
          /\ Asked(script, Len(script)) /\ Undisturbed(script, Len(script)) => PortsOpen(r.p)
      BY <1>6, <1>7 DEF At, Holds, All
    <2>2. QED
      BY <1>2, <1>7, <2>1 DEF Has, script, Alive
  <1>8. CASE ~r.done
    BY <1>1, <1>2, <1>6, <1>8 DEF Out, Alive
  <1>9. QED
    BY <1>7, <1>8

\* A handler that does not map: vixConfigPlayback and the playback calls.
LEMMA LaterHas ==
  ASSUME NEW p \in Processes, Kinds(p), p.alive = "run", NEW d \in Drivers, NEW T,
         T \subseteq Things, Has(p, d, T), Suitable(p.world, d), NEW script,
         Len(script) \in Nat, ~Mapping(script), Undisturbed(script, Len(script)),
         \A c : c.things = T /\ (d \in Porters => c.ports) => Orderly(d, script, c),
         NEW r \in Run(d, script, p)
  PROVE  /\ r.p.alive = "run" => Has(r.p, d, T)
         /\ r.done => Has(r.p, d, T \cup All(script))
         /\ Alive(p.world, d, r.p)
  <1> DEFINE c == [world |-> p.world, things |-> T, ports |-> d \in Porters, kept |-> FALSE,
                   fresh |-> FALSE]
  <1>1. /\ c.world = p.world /\ c.things = T /\ (c.ports <=> d \in Porters) /\ c.kept = FALSE
        /\ c.fresh = FALSE
    OBVIOUS
  <1> HIDE DEF c
  <1>2. Orderly(d, script, c)
    BY <1>1
  <1>3. p \in At(d, script, c, 0)
    <2>1. Obtained(script, 0) = {} /\ ~Asked(script, 0)
      BY DEF Obtained, Asked
    <2>2. QED
      BY <1>1, <2>1 DEF At, Holds, Has
  <1>4. Suits(c.world, d) /\ (d \in Openers => FALSE \notin Works[c.world]["version"])
    BY <1>1 DEF Suitable
  <1>5. c.things \subseteq Things
    BY <1>1
  <1>6. IF r.done THEN r.p \in At(d, script, c, Len(script)) ELSE r.p \in Out(d, script, c)
    BY <1>2, <1>3, <1>4, <1>5, OrderlyRun
  <1>7. CASE r.done
    <2>1. /\ r.p.alive = "run" /\ \A t \in Things : r.p.ptr[d][t] # "failed"
          /\ \A t \in T \cup All(script) : r.p.ptr[d][t] = "held"
          /\ r.p.dma[d] => d \in Openers /\ r.p.bmFd # NoFd
          /\ d \in Porters /\ Undisturbed(script, Len(script)) => PortsOpen(r.p)
      BY <1>1, <1>6, <1>7 DEF At, Holds, All
    <2>2. QED
      BY <1>7, <2>1 DEF Has, Alive
  <1>8. CASE ~r.done
    <2>1. /\ r.p.alive # "run" /\ Serves(p.world, d) => Ended(r.p)
          /\ r.p.alive = "run" => Holds(r.p, d, T, p.world) /\ (d \in Porters => PortsOpen(r.p))
      BY <1>1, <1>6, <1>8 DEF Out
    <2>2. QED
      BY <1>8, <2>1 DEF Has, Holds, Alive
  <1>9. QED
    BY <1>7, <1>8

\* vixDestroy ends the program only for want of a descriptor.
LEMMA DestroyAlive ==
  ASSUME NEW p \in Processes, Kinds(p), p.alive = "run", NEW d \in Drivers, NEW T,
         T \subseteq Things, All(InitOf[d]) \subseteq T, Has(p, d, T), Suitable(p.world, d),
         d \in Closers => BmKept(p), d = "ivtv" => OwnFiles(p, d),
         NEW r \in Run(d, DestroyOf[d], p)
  PROVE  Alive(p.world, d, r.p)
  <1>1. CASE d = "ivtv"
    BY <1>1, IvtvDestroyQuiet DEF Alive
  <1>2. CASE d # "ivtv"
    <2> DEFINE c == [world |-> p.world, things |-> T, ports |-> d \in Porters,
                     kept |-> d \in Closers, fresh |-> FALSE]
               script == DestroyOf[d]
    <2>1. /\ c.world = p.world /\ c.things = T /\ (c.ports <=> d \in Porters)
          /\ (c.kept <=> d \in Closers) /\ c.fresh = FALSE
      OBVIOUS
    <2> HIDE DEF c
    <2>2. Orderly(d, script, c) /\ Len(script) \in Nat
      BY <1>2, <2>1, DriversAssumption, DestroyOrderly
    <2>3. p \in At(d, script, c, 0)
      <3>1. Obtained(script, 0) = {} /\ ~Asked(script, 0)
        BY DEF Obtained, Asked
      <3>2. QED
        BY <2>1, <3>1 DEF At, Holds, Has
    <2>4. Suits(c.world, d) /\ (d \in Openers => FALSE \notin Works[c.world]["version"])
      BY <2>1 DEF Suitable
    <2>5. c.things \subseteq Things
      BY <2>1
    <2> HIDE DEF script
    <2>6. IF r.done THEN r.p \in At(d, script, c, Len(script)) ELSE r.p \in Out(d, script, c)
      BY <2>2, <2>3, <2>4, <2>5, OrderlyRun DEF script
    <2>7. CASE r.done
      BY <2>6, <2>7 DEF At, Holds, Alive
    <2>8. CASE ~r.done
      BY <2>1, <2>6, <2>8 DEF Out, Alive
    <2>9. QED
      BY <2>7, <2>8
  <1>3. QED
    BY <1>1, <1>2

----------------------------------------------------------------------------
\* Who owns the descriptors of the library.

\* Calls that open no descriptor but the one of the mappings, and none for the ports.
LEMMA ApartThen ==
  ASSUME NEW p, NEW q, NEW r
  PROVE  /\ Tame(p, q) /\ Tame(q, r) => Tame(p, r)
         /\ Apart(p, q) /\ Apart(q, r) => Apart(p, r)
  BY DEF Apart, Tame, Off

LEMMA SameApart ==
  ASSUME NEW p, NEW q, q.owner = p.owner, q.memFd = p.memFd
  PROVE  /\ Tame(p, q)
         /\ q.ioFd = p.ioFd /\ q.ioCount = p.ioCount /\ q.iopl = p.iopl => Apart(p, q)
  BY DEF Apart, Tame, Off, Sole

LEMMA SaysApart ==
  ASSUME NEW p \in Processes, NEW b
  PROVE  Apart(p, Says(p, b)) /\ Apart(p, Exits(p)) /\ Apart(p, Faults(p))
  <1>1. \A q : q \in {Says(p, b), Exits(p), Faults(p)} =>
          /\ q.owner = p.owner /\ q.memFd = p.memFd
          /\ q.ioFd = p.ioFd /\ q.ioCount = p.ioCount /\ q.iopl = p.iopl
    BY DEF Says, Exits, Faults, Processes
  <1>2. QED
    BY <1>1, SameApart

\* A descriptor that is closed, of the mappings or of the interrupts.
LEMMA ClosedApart ==
  ASSUME NEW p \in Processes, NEW q, NEW f \in Fds, p.owner[f] \in {"mem", "irq"},
         q.owner = [p.owner EXCEPT ![f] = "none"],
         q.ioFd = p.ioFd, q.ioCount = p.ioCount, q.iopl = p.iopl,
         q.memFd = p.memFd \/ p.memFd = f
  PROVE  Apart(p, q)
  BY DEF Apart, Tame, Off, Sole, Processes

LEMMA MapApart ==
  ASSUME NEW p \in Processes, Kinds(p), p.alive = "run", NEW d \in Drivers, NEW r \in Regions,
         NEW q \in map_phys_mem(p, d, r)
  PROVE  Apart(p, q)
  <1>1. PICK m \in OpenMem(p) :
          IF m.alive = "run" THEN \E b \in Works[p.world]["map"] : q = Mapped(m, d, r, b)
          ELSE q = m
    BY MapDo
  <1>2. Apart(p, m) /\ m \in Processes
    <2>1. m \in Processes
      BY OpenMemLeft, LeftTyped
    <2>2. CASE m = p
      BY <2>2, SameApart
    <2>3. CASE p.memFd = NoFd /\ \E f \in Fds : p.owner[f] = "none" /\ m = MemOpened(p, f)
      <3>1. PICK f \in Fds : p.owner[f] = "none" /\ m = MemOpened(p, f)
        BY <2>3
      <3>2. /\ m.owner = [p.owner EXCEPT ![f] = "mem"] /\ m.memFd = f
            /\ m.ioFd = p.ioFd /\ m.ioCount = p.ioCount /\ m.iopl = p.iopl
        BY <3>1 DEF MemOpened, Processes
      <3>3. NoFd \notin Fds /\ p.owner \in [Fds -> Users]
        BY FdsAssumption DEF NoFd, Processes
      <3>4. QED
        <4>1. \A g \in Fds : m.owner[g] = IF g = f THEN "mem" ELSE p.owner[g]
          BY <3>2, <3>3
        <4>2. Off(p, m)
          BY <3>1, <3>2, <4>1 DEF Off
        <4>3. Tame(p, m)
          BY <2>3, <3>1, <3>2, <3>3, <4>1 DEF Tame, Sole
        <4>4. QED
          BY <2>1, <4>2, <4>3 DEF Apart
    <2>4. CASE m = Exits(Says(p, FALSE))
      <3>1. Says(p, FALSE) \in Processes
        BY SaysLeft, LeftTyped
      <3>2. QED
        BY <2>1, <2>4, <3>1, SaysApart, ApartThen
    <2>5. QED
      BY <2>1, <2>2, <2>3, <2>4, OpenMemDo
  <1>3. ASSUME NEW b, q = Mapped(m, d, r, b)
        PROVE  Apart(m, q)
    <2>1. /\ q.owner = m.owner /\ q.memFd = m.memFd /\ q.ioFd = m.ioFd
          /\ q.ioCount = m.ioCount /\ q.iopl = m.iopl
      BY <1>2, <1>3 DEF Mapped, Processes
    <2>2. QED
      BY <2>1, SameApart
  <1>4. QED
    BY <1>1, <1>2, <1>3, ApartThen

LEMMA UnmapApart ==
  ASSUME NEW p \in Processes, Kinds(p), NEW d \in Drivers, NEW r \in Regions, NEW x,
         NEW q \in unmap_phys_mem(p, d, r, x)
  PROVE  Apart(p, q)
  <1> DEFINE c == Counted(p, d, r, x)
  <1>1. CASE q = Exits(p)
    BY <1>1, SaysApart
  <1>2. CASE q = Unmapped(p, d, r, x)
    <2>1. c \in Processes
      BY CountedLeft, LeftTyped
    <2>2. /\ c.owner = p.owner /\ c.memFd = p.memFd /\ c.ioFd = p.ioFd
          /\ c.ioCount = p.ioCount /\ c.iopl = p.iopl
      BY DEF Counted, Processes
    <2> HIDE DEF c
    <2>3. CASE q = c
      BY <2>2, <2>3, SameApart
    <2>4. CASE p.memFd # NoFd /\ q = [c EXCEPT !.owner[p.memFd] = "none", !.memFd = NoFd]
      <3>1. p.memFd \in Fds /\ p.owner[p.memFd] = "mem"
        BY <2>4 DEF Kinds, Processes
      <3>2. /\ q.owner = [p.owner EXCEPT ![p.memFd] = "none"] /\ q.ioFd = p.ioFd
            /\ q.ioCount = p.ioCount /\ q.iopl = p.iopl
        BY <2>1, <2>2, <2>4 DEF Processes
      <3>3. QED
        BY <3>1, <3>2, ClosedApart
    <2>5. QED
      BY <1>2, <2>3, <2>4 DEF Unmapped, c
  <1>3. QED
    BY <1>1, <1>2, UnmapDo

LEMMA AllocApart ==
  ASSUME NEW p \in Processes, NEW d \in Drivers, NEW t \in Blocks,
         NEW q \in alloc(p, d, t) \cup free(p, d, t)
  PROVE  Apart(p, q)
  <1>1. (\E b : q = Alloced(p, d, t, b)) \/ q = Freed(p, d, t)
    BY AllocDo DEF free, Freed
  <1>2. /\ q.owner = p.owner /\ q.memFd = p.memFd /\ q.ioFd = p.ioFd
        /\ q.ioCount = p.ioCount /\ q.iopl = p.iopl
    BY <1>1 DEF Alloced, Freed, Processes
  <1>3. QED
    BY <1>2, SameApart

LEMMA UninstalledTyped ==
  ASSUME NEW p \in Processes, NEW d \in Drivers
  PROVE  Uninstalled(p, d) \in Processes
  <1>1. [p.irq EXCEPT ![d] = IF p.irqFd # NoFd THEN "no" ELSE @]
          \in [Drivers -> {"no", "tried", "yes"}]
    BY DEF Processes
  <1>2. QED
    BY <1>1 DEF Processes, Uninstalled

LEMMA UninstallApart ==
  ASSUME NEW p \in Processes, Kinds(p), NEW d \in Drivers, NEW q \in hwirq_uninstall(p, d)
  PROVE  Apart(p, q)
  <1> DEFINE u == Uninstalled(p, d)
  <1>1. /\ u.owner = p.owner /\ u.memFd = p.memFd /\ u.ioFd = p.ioFd
        /\ u.ioCount = p.ioCount /\ u.iopl = p.iopl /\ u.irqFd = p.irqFd
    BY DEF Uninstalled, Processes
  <1>2. u \in Processes
    BY UninstalledTyped
  <1> HIDE DEF u
  <1>3. CASE q = u
    BY <1>1, <1>3, SameApart
  <1>4. CASE p.irqFd # NoFd /\ q = [u EXCEPT !.owner[p.irqFd] = "none", !.irqFd = NoFd]
    <2>1. p.irqFd \in Fds /\ p.owner[p.irqFd] = "irq"
      BY <1>4 DEF Kinds, Processes
    <2>2. /\ q.owner = [p.owner EXCEPT ![p.irqFd] = "none"] /\ q.ioFd = p.ioFd
          /\ q.ioCount = p.ioCount /\ q.iopl = p.iopl /\ q.memFd = p.memFd
      BY <1>1, <1>2, <1>4 DEF Processes
    <2>3. QED
      BY <2>1, <2>2, ClosedApart
  <1>5. QED
    BY <1>3, <1>4, UninstallDo DEF u

\* Every plain call but those for the ports and for interrupts.
LEMMA TryApart ==
  ASSUME NEW p \in Processes, NEW c \in Calls, NEW q \in Try(p, c)
  PROVE  Apart(p, q)
  <1>1. \E b \in Works[p.world][c] : q = Says(p, b)
    BY TryDo DEF Says
  <1>2. QED
    BY <1>1, SaysApart

LEMMA MemoryApart ==
  ASSUME NEW p \in Processes, Kinds(p), NEW d \in Drivers, p.alive = "run", NEW q \in Memory(p, d)
  PROVE  Apart(p, q)
  <1>1. PICK b \in Works[p.world]["memory"] :
          /\ b \in BOOLEAN
          /\ IF b THEN q = Says(p, b) ELSE q \in unmap_phys_mem(Says(p, b), d, "mem", "sized")
    BY MemoryDo
  <1>2. Apart(p, Says(p, b)) /\ Says(p, b) \in Processes /\ Kinds(Says(p, b))
    BY <1>1, SaysApart, SaysLeft, LeftTyped
  <1>3. CASE b
    BY <1>1, <1>2, <1>3
  <1>4. CASE ~b
    <2>1. Apart(Says(p, b), q)
      BY <1>1, <1>2, <1>4, UnmapApart DEF Regions
    <2>2. QED
      BY <1>2, <2>1, ApartThen
  <1>5. QED
    BY <1>3, <1>4

LEMMA PlainApart ==
  ASSUME NEW p \in Processes, Kinds(p), p.alive = "run", NEW d \in Drivers, NEW s, IsPlain(s),
         Distant(s), NEW q \in Calling(d, s, p)
  PROVE  Apart(p, q)
  <1>1. CASE s[1] \in {"card", "fits"}
    <2>1. \E c \in Calls : q \in Try(p, c)
      BY <1>1 DEF Calling, Calls
    <2>2. QED
      BY <2>1, TryApart
  <1>2. CASE s[1] = "ports"
    <2>1. q \in ports(p)
      BY <1>2 DEF Calling
    <2>2. QED
      BY <2>1, SaysApart, SameApart DEF ports
  <1>3. CASE s[1] = "regs"
    <2>1. q \in regs(p, d, s[2])
      BY <1>3 DEF Calling
    <2>2. QED
      BY <2>1, SaysApart, SameApart DEF regs
  <1>4. CASE s[1] = "uninstall"
    BY <1>4, UninstallApart DEF Calling
  <1>5. CASE s[1] = "uninstallIf"
    <2>1. q = p \/ q \in hwirq_uninstall(p, d)
      BY <1>5 DEF Calling
    <2>2. QED
      BY <2>1, SameApart, UninstallApart
  <1>6. CASE s[1] = "memory"
    BY <1>6, MemoryApart DEF Calling
  <1>7. CASE s[1] \in {"map", "mapOr"} /\ s[2] \in Regions
    BY <1>7, MapApart DEF Calling
  <1>8. CASE s[1] \in {"unmap", "unmapSized", "unmapIf"} /\ s[2] \in Regions
    <2>1. q = p \/ \E x : q \in unmap_phys_mem(p, d, s[2], x)
      <3>1. CASE s[1] = "unmap"
        BY <3>1 DEF Calling
      <3>2. CASE s[1] = "unmapSized"
        BY <3>2 DEF Calling
      <3>3. CASE s[1] = "unmapIf"
        BY <3>3 DEF Calling
      <3>4. QED
        BY <1>8, <3>1, <3>2, <3>3
    <2>2. QED
      BY <1>8, <2>1, SameApart, UnmapApart
  <1>9. CASE s[1] \in {"alloc", "allocOr", "free"} /\ s[2] \in Blocks
    <2>1. q \in alloc(p, d, s[2]) \cup free(p, d, s[2])
      BY <1>9 DEF Calling
    <2>2. QED
      BY <1>9, <2>1, AllocApart
  <1>10. QED
    BY <1>1, <1>2, <1>3, <1>4, <1>5, <1>6, <1>7, <1>8, <1>9 DEF IsPlain, Distant

----------------------------------------------------------------------------
\* The ports.

LEMMA NeatOff ==
  ASSUME NEW p, NEW q, Off(p, q), q.world = p.world, NEW on, Neat(p, on)
  PROVE  Neat(q, on)
  BY DEF Off, Neat

\* The ports: a call that asks for them, gives them back, or does both.
LEMMA EnableNeat ==
  ASSUME NEW p \in Processes, Neat(p, FALSE), Roomy(p), Width >= 2, NEW q \in enable_app_io(p)
  PROVE  Neat(q, TRUE) /\ (~q.ok => Neat(q, FALSE)) /\ Tame(p, q)
  <1>1. CASE \E f \in Fds : /\ p.owner[f] = "none" /\ TRUE \in Works[p.world]["helper"]
                            /\ q = Enabled(p, f)
    <2>1. PICK f \in Fds : p.owner[f] = "none" /\ q = Enabled(p, f)
      BY <1>1
    <2>2. Paired(p.world)
      BY <1>1 DEF Roomy, FreeFds
    <2>3. Up(0) = 1
      BY WidthAssumption DEF Up
    <2>4. /\ q.world = p.world /\ q.owner = [p.owner EXCEPT ![f] = "io"] /\ q.ok = TRUE
          /\ q.ioFd = f /\ q.ioCount = Up(p.ioCount) /\ q.iopl = p.iopl /\ q.memFd = p.memFd
      BY <2>1 DEF Enabled, Processes
    <2>5. p.ioFd = NoFd /\ ~p.iopl /\ p.ioCount = 0 /\ \A g \in Fds : p.owner[g] # "io"
      BY <2>2, FdsAssumption DEF Neat, NoFd
    <2>6. f # NoFd /\ \A g \in Fds : q.owner[g] = IF g = f THEN "io" ELSE p.owner[g]
      BY <2>4, FdsAssumption DEF NoFd, Processes
    <2>7. Neat(q, TRUE)
      BY <2>2, <2>3, <2>4, <2>5, <2>6 DEF Neat
    <2>8. Tame(p, q)
      BY <2>1, <2>4, <2>6 DEF Tame, Sole
    <2>9. QED
      BY <2>4, <2>7, <2>8
  <1>2. CASE NoHelperFor(p) /\ \E b \in Works[p.world]["iopl"] : q = Refused(p, b)
    <2>1. PICK b \in Works[p.world]["iopl"] : q = Refused(p, b)
      BY <1>2
    <2>2. ~Paired(p.world)
      BY <1>2 DEF Roomy, Paired, NoHelperFor
    <2>3. /\ q.world = p.world /\ q.owner = p.owner /\ q.ok = b
          /\ q.ioFd = NoFd /\ q.iopl = (b \/ p.iopl) /\ q.memFd = p.memFd
      BY <2>1 DEF Refused, Processes
    <2>4. p.ioFd = NoFd /\ ~p.iopl /\ \A g \in Fds : p.owner[g] # "io"
      BY <2>2, FdsAssumption DEF Neat, NoFd
    <2>5. QED
      BY <2>2, <2>3, <2>4, SameApart DEF Neat
  <1>3. QED
    BY <1>1, <1>2, EnableDo

LEMMA DisableNeat ==
  ASSUME NEW p \in Processes, Kinds(p), Neat(p, TRUE), Width >= 2, NEW q, q = Disabled(p)
  PROVE  Neat(q, FALSE) /\ Tame(p, q)
  <1>1. CASE p.ioFd = NoFd
    <2>1. ~Paired(p.world)
      BY <1>1 DEF Neat
    <2>2. /\ q.world = p.world /\ q.owner = p.owner /\ q.memFd = p.memFd
          /\ q.ioFd = NoFd /\ q.iopl = FALSE
      BY <1>1 DEF Disabled, Processes
    <2>3. QED
      BY <1>1, <2>1, <2>2, SameApart DEF Neat
  <1>2. CASE p.ioFd # NoFd
    <2>1. Paired(p.world) /\ p.ioCount = 1 /\ ~p.iopl
      BY <1>2 DEF Neat
    <2>2. Down(1) = 0
      BY WidthAssumption DEF Down
    <2>3. p.ioFd \in Fds /\ p.owner[p.ioFd] = "io"
      BY <1>2 DEF Kinds, Processes
    <2>4. q = [p EXCEPT !.ioCount = 0, !.owner[p.ioFd] = "none", !.ioFd = NoFd]
      BY <1>2, <2>1, <2>2 DEF Disabled
    <2>5. /\ q.world = p.world /\ q.owner = [p.owner EXCEPT ![p.ioFd] = "none"]
          /\ q.ioFd = NoFd /\ q.ioCount = 0 /\ q.iopl = p.iopl /\ q.memFd = p.memFd
      BY <2>4 DEF Processes
    <2>6. \A g \in Fds : q.owner[g] = IF g = p.ioFd THEN "none" ELSE p.owner[g]
      BY <2>3, <2>5 DEF Processes
    <2>7. Neat(q, FALSE)
      BY <2>1, <2>5, <2>6 DEF Neat
    <2>8. Tame(p, q)
      BY <2>3, <2>5, <2>6 DEF Tame, Sole
    <2>9. QED
      BY <2>7, <2>8
  <1>3. QED
    BY <1>1, <1>2

LEMMA RoomySays ==
  ASSUME NEW p \in Processes, NEW b
  PROVE  /\ Roomy(p) => Roomy(Says(p, b))
         /\ \A on : Neat(p, on) => Neat(Says(p, b), on)
  <1>1. Says(p, b).owner = p.owner /\ Says(p, b).world = p.world
    BY DEF Says, Processes
  <1>2. Off(p, Says(p, b))
    BY SaysApart DEF Apart
  <1>3. QED
    BY <1>1, <1>2, NeatOff DEF Roomy, FreeFds

LEMMA ScanNeat ==
  ASSUME NEW p \in Processes, Kinds(p), p.alive = "run", Width >= 2, p.world \in Clean,
         NEW on, Neat(p, on), on => Paired(p.world), Paired(p.world) => FreeFds(p) # {},
         NEW q \in pci_scan(p)
  PROVE  Neat(q, on) /\ Tame(p, q)
  <1>1. CASE q = Says(p, TRUE)
    BY <1>1, RoomySays, SaysApart DEF Apart
  <1>2. CASE NoHelperFor(p) /\ ScanFallback(p, q)
    <2> DEFINE n == Says(p, FALSE)
    <2>1. ~Paired(p.world) /\ ~on
      BY <1>2 DEF NoHelperFor, Paired
    <2>2. Roomy(p)
      <3>1. FALSE \in Works[p.world]["helper"] => TRUE \notin Works[p.world]["helper"]
        <4>1. Works[p.world]["helper"] \in SUBSET BOOLEAN
          BY WorksBoolean DEF Calls
        <4>2. Works[p.world]["helper"] # BOOLEAN
          BY CleanAssumption
        <4>3. ASSUME NEW H \in SUBSET BOOLEAN, FALSE \in H, TRUE \in H
              PROVE  H = BOOLEAN
          BY <4>3
        <4>4. QED
          BY <4>1, <4>2, <4>3
      <3>2. QED
        BY <1>2, <2>1, <3>1 DEF Roomy, NoHelperFor
    <2>3. Neat(p, FALSE)
      BY <2>1 DEF Neat
    <2>4. n \in Processes /\ Neat(n, FALSE) /\ Roomy(n) /\ Kinds(n) /\ Tame(p, n)
      BY <2>2, <2>3, RoomySays, SaysLeft, SaysApart, LeftTyped DEF Apart
    <2> HIDE DEF n
    <2>5. PICK e \in enable_app_io(n) :
            IF e.ok THEN \E b \in Works[p.world]["bus"] : q = Disabled(Says(e, b)) ELSE q = e
      BY <1>2 DEF ScanFallback, n
    <2>6. /\ Neat(e, TRUE) /\ (~e.ok => Neat(e, FALSE)) /\ Tame(n, e)
          /\ e \in Processes /\ Kinds(e)
      BY <2>4, <2>5, EnableNeat, EnableLeft, LeftTyped
    <2>7. ASSUME NEW b \in Works[p.world]["bus"], q = Disabled(Says(e, b))
          PROVE  Neat(q, FALSE) /\ Tame(e, q)
      <3>1. b \in BOOLEAN
        BY WorksBoolean DEF Calls
      <3>2. Says(e, b) \in Processes /\ Kinds(Says(e, b)) /\ Neat(Says(e, b), TRUE) /\ Tame(e, Says(e, b))
        BY <2>6, <3>1, SaysLeft, SaysApart, RoomySays, LeftTyped DEF Apart
      <3>3. QED
        BY <2>7, <3>2, DisableNeat, ApartThen
    <2>8. QED
      BY <2>1, <2>4, <2>5, <2>6, <2>7, ApartThen DEF Neat
  <1>3. QED
    BY <1>1, <1>2, ScanDo

LEMMA ProbePortsNeat ==
  ASSUME NEW p \in Processes, Kinds(p), p.alive = "run", Width >= 2,
         Neat(p, FALSE), Roomy(p), NEW q \in ProbePorts(p)
  PROVE  Neat(q, FALSE) /\ Tame(p, q)
  <1>1. CASE q = p
    BY <1>1, SameApart
  <1>2. CASE q # p
    <2>1. PICK e \in enable_app_io(p) :
            q = IF ~e.ok THEN e ELSE IF PortAccess(e) THEN Disabled(e) ELSE Faults(e)
      BY <1>2, ProbePortsDo
    <2>2. /\ Neat(e, TRUE) /\ (~e.ok => Neat(e, FALSE)) /\ Tame(p, e)
          /\ e \in Processes /\ Kinds(e) /\ (e.ok => PortsOpen(e))
      BY <2>1, EnableNeat, EnableQuiet, EnableLeft, LeftTyped
    <2>3. e.ok => PortAccess(e)
      BY <2>2, PortsOpenDo
    <2>4. CASE ~e.ok
      BY <2>1, <2>2, <2>4
    <2>5. CASE e.ok
      BY <2>1, <2>2, <2>3, <2>5, DisableNeat, ApartThen
    <2>6. QED
      BY <2>4, <2>5
  <1>3. QED
    BY <1>1, <1>2

\* The drivers are finitely many.
LEMMA FourFinite ==
  ASSUME NEW a, NEW b, NEW c, NEW d
  PROVE  IsFiniteSet({a, b, c, d})
  <1>1. IsFiniteSet({a} \cup {b}) /\ IsFiniteSet({c} \cup {d})
    BY FS_Singleton, FS_Union
  <1>2. {a, b, c, d} = ({a} \cup {b}) \cup ({c} \cup {d})
    OBVIOUS
  <1>3. IsFiniteSet(({a} \cup {b}) \cup ({c} \cup {d}))
    BY <1>1, FS_Union
  <1>4. QED
    BY <1>2, <1>3

LEMMA NamesFinite == IsFiniteSet(DriverNames)
  <1> DEFINE A == {"cyberblade", "ivtv", "mach64", "mga"}
             B == {"nvidia", "pm2", "pm3", "radeon"}
             C == {"radeonhd", "s3", "savage", "sis"}
  <1>1. IsFiniteSet(A) /\ IsFiniteSet(B) /\ IsFiniteSet(C) /\ IsFiniteSet({"unichrome"})
    BY FourFinite, FS_Singleton
  <1>2. DriverNames = (A \cup B) \cup (C \cup {"unichrome"})
    BY DEF DriverNames
  <1> HIDE DEF A, B, C
  <1>3. IsFiniteSet(A \cup B) /\ IsFiniteSet(C \cup {"unichrome"})
    BY <1>1, FS_Union
  <1>4. QED
    BY <1>2, <1>3, FS_Union

LEMMA OneMore ==
  ASSUME NEW S, NEW x, IsFiniteSet(S)
  PROVE  /\ IsFiniteSet(S \cup {x}) /\ Cardinality(S \cup {x}) \in Nat
         /\ Cardinality(S \cup {x}) <= Cardinality(S) + 1
  <1>1. /\ IsFiniteSet(S \cup {x})
        /\ Cardinality(S \cup {x}) = IF x \in S THEN Cardinality(S) ELSE Cardinality(S) + 1
    BY FS_AddElement
  <1>2. Cardinality(S) \in Nat
    BY FS_CardinalityType
  <1>3. QED
    BY <1>1, <1>2

\* The counters have room for the drivers of such a system.
LEMMA UsesFinite ==
  ASSUME NEW w \in Clean
  PROVE  /\ w \in Worlds /\ IsFiniteSet(Uses[w]) /\ Cardinality(Uses[w]) \in Nat
         /\ Uses[w] # {} => Cardinality(Uses[w]) >= 1 /\ Width >= 3
  <1>1. w \in Worlds /\ Uses[w] \subseteq DriverNames
    BY WorldsAssumption, UsesAssumption, DriversAssumption
  <1>2. IsFiniteSet(Uses[w]) /\ Cardinality(Uses[w]) \in Nat
    BY <1>1, NamesFinite, FS_Subset, FS_CardinalityType
  <1>3. Uses[w] # {} => Cardinality(Uses[w]) # 0
    BY <1>2, FS_EmptySet
  <1>4. 2 * Cardinality(Uses[w]) < Width
    BY CleanAssumption
  <1>5. QED
    BY <1>1, <1>2, <1>3, <1>4, WidthAssumption

LEMMA PairedFacts ==
  ASSUME NEW w, Paired(w)
  PROVE  /\ Uses[w] \cap Openers = {} /\ Reserve >= 3
         /\ \A d, e \in Uses[w] \cap Porters : d = e
  <1>1. w \in Worlds /\ w \in Clean /\ FALSE \notin Works[w]["helper"]
    BY UsesFinite DEF Paired
  <1>2. Works[w]["helper"] \in (SUBSET BOOLEAN) \ {{}}
    <2>1. Works[w] \in [Calls -> (SUBSET BOOLEAN) \ {{}}]
      BY <1>1, WorksAssumption
    <2>2. "helper" \in Calls
      BY DEF Calls
    <2>3. QED
      BY <2>1, <2>2
  <1>3. TRUE \in Works[w]["helper"]
    BY <1>1, <1>2
  <1>4. QED
    BY <1>1, <1>3, CleanAssumption DEF Paired

\* Where the ports are shared a descriptor is free for the helper.
LEMMA Spare ==
  ASSUME NEW p \in Processes, NEW on, Neat(p, on), Sole(p), Slim(p), Counts(p),
         Paired(p.world)
  PROVE  FreeFds(p) # {}
  <1> SUFFICES ASSUME FreeFds(p) = {} PROVE FALSE
    OBVIOUS
  <1>1. \A f \in Fds : p.owner[f] \in {"app", "mem", "io"}
    BY DEF Slim, FreeFds, Processes, Users
  <1>2. \A f \in Fds : f \in (AppFds(p) \cup {p.memFd}) \cup {p.ioFd}
    BY <1>1 DEF AppFds, Neat, Sole
  <1>3. IsFiniteSet(Fds) /\ AppFds(p) \subseteq Fds
    BY FdsAssumption DEF AppFds
  <1>4. IsFiniteSet(AppFds(p)) /\ Cardinality(AppFds(p)) \in Nat /\ Cardinality(Fds) \in Nat
    BY <1>3, FS_Subset, FS_CardinalityType
  <1>5. /\ IsFiniteSet(AppFds(p) \cup {p.memFd})
        /\ Cardinality(AppFds(p) \cup {p.memFd}) \in Nat
        /\ Cardinality(AppFds(p) \cup {p.memFd}) <= Cardinality(AppFds(p)) + 1
    BY <1>4, OneMore
  <1>6. /\ IsFiniteSet((AppFds(p) \cup {p.memFd}) \cup {p.ioFd})
        /\ Cardinality((AppFds(p) \cup {p.memFd}) \cup {p.ioFd}) \in Nat
        /\ Cardinality((AppFds(p) \cup {p.memFd}) \cup {p.ioFd})
             <= Cardinality(AppFds(p) \cup {p.memFd}) + 1
    BY <1>5, OneMore
  <1>7. Cardinality(Fds) <= Cardinality((AppFds(p) \cup {p.memFd}) \cup {p.ioFd})
    <2>1. Fds \subseteq (AppFds(p) \cup {p.memFd}) \cup {p.ioFd}
      BY <1>2
    <2>2. QED
      BY <1>6, <2>1, FS_Subset
  <1>8. Reserve >= 3 /\ Reserve \in Int
    BY <1>4, PairedFacts, BoundsAssumption
  <1>9. QED
    BY <1>4, <1>5, <1>6, <1>7, <1>8 DEF Counts

----------------------------------------------------------------------------
\* The calls for bus mastering.

LEMMA AsideThen ==
  ASSUME NEW p, NEW q, NEW r, Aside(p, q), Aside(q, r)
  PROVE  Aside(p, r)
  BY DEF Aside, Off

LEMMA ApartAside ==
  ASSUME NEW p, NEW q, Apart(p, q)
  PROVE  Aside(p, q)
  BY DEF Aside, Apart, Tame

\* A descriptor that is opened for bus mastering or for interrupts.
LEMMA OpenedAside ==
  ASSUME NEW p \in Processes, NEW q, NEW f \in Fds, p.owner[f] = "none", NEW u \in {"bm", "irq"},
         q.owner = [p.owner EXCEPT ![f] = u], q.memFd = p.memFd,
         q.ioFd = p.ioFd, q.ioCount = p.ioCount, q.iopl = p.iopl
  PROVE  Aside(p, q)
  BY DEF Aside, Off, Sole, Processes

LEMMA InstallAside ==
  ASSUME NEW p \in Processes, Kinds(p), NEW d \in Drivers, NEW q \in hwirq_install(p, d)
  PROVE  Aside(p, q)
  <1>1. ASSUME NEW n \in Processes, NEW b, q = Installed(n, d, b)
        PROVE  Aside(n, q)
    <2>1. /\ q.owner = n.owner /\ q.memFd = n.memFd /\ q.ioFd = n.ioFd
          /\ q.ioCount = n.ioCount /\ q.iopl = n.iopl
      BY <1>1 DEF Installed, Processes
    <2>2. QED
      BY <2>1, SameApart, ApartAside
  <1>2. ASSUME NEW f \in Fds, p.owner[f] = "none", p.irqFd = NoFd
        PROVE  Aside(p, IrqOpened(p, f)) /\ IrqOpened(p, f) \in Processes
    <2> DEFINE n == IrqOpened(p, f)
    <2>1. /\ n.owner = [p.owner EXCEPT ![f] = "irq"] /\ n.memFd = p.memFd
          /\ n.ioFd = p.ioFd /\ n.ioCount = p.ioCount /\ n.iopl = p.iopl
      BY DEF IrqOpened, Processes
    <2> HIDE DEF n
    <2>2. QED
      BY <1>2, <2>1, OpenedAside, IrqOpenedLeft, LeftTyped DEF n
  <1>3. \/ p.irqFd # NoFd /\ \E b \in BOOLEAN : q = Installed(p, d, b)
        \/ p.irqFd = NoFd /\ q = Installed(p, d, FALSE)
        \/ p.irqFd = NoFd /\ \E f \in Fds : /\ p.owner[f] = "none"
                                            /\ \E b \in BOOLEAN : q = Installed(IrqOpened(p, f), d, b)
    BY InstallDo
  <1>4. ASSUME NEW f \in Fds, p.owner[f] = "none", p.irqFd = NoFd,
               NEW b \in BOOLEAN, q = Installed(IrqOpened(p, f), d, b)
        PROVE  Aside(p, q)
    <2>1. Aside(p, IrqOpened(p, f)) /\ Aside(IrqOpened(p, f), q)
      BY <1>1, <1>2, <1>4
    <2>2. QED
      BY <2>1, AsideThen
  <1>5. QED
    BY <1>1, <1>3, <1>4

LEMMA BmOpenAside ==
  ASSUME NEW p \in Processes, FALSE \notin Works[p.world]["version"], NEW q \in bm_open(p)
  PROVE  Aside(p, q)
  <1>1. CASE \E f \in Fds : p.owner[f] = "none" /\ q = BmOpened(p, f)
    <2>1. PICK f \in Fds : p.owner[f] = "none" /\ q = BmOpened(p, f)
      BY <1>1
    <2>2. /\ q.owner = [p.owner EXCEPT ![f] = "bm"] /\ q.memFd = p.memFd
          /\ q.ioFd = p.ioFd /\ q.ioCount = p.ioCount /\ q.iopl = p.iopl
      BY <2>1 DEF BmOpened, Processes
    <2>3. QED
      BY <2>1, <2>2, OpenedAside
  <1>2. CASE q = BmRefused(p)
    <2>1. /\ q.owner = p.owner /\ q.memFd = p.memFd
          /\ q.ioFd = p.ioFd /\ q.ioCount = p.ioCount /\ q.iopl = p.iopl
      BY <1>2 DEF BmRefused, Processes
    <2>2. QED
      BY <2>1, SameApart, ApartAside
  <1>3. QED
    BY <1>1, <1>2, BmOpenDo

LEMMA MastersAside ==
  ASSUME NEW n \in Processes, NEW d \in Drivers, NEW t \in Blocks, NEW b \in BOOLEAN,
         NEW q, q = Masters(n, d, b) \/ q = Masters(Alloced(n, d, t, b), d, b)
  PROVE  Aside(n, q)
  <1>1. /\ q.owner = n.owner /\ q.memFd = n.memFd
        /\ q.ioFd = n.ioFd /\ q.ioCount = n.ioCount /\ q.iopl = n.iopl
    BY DEF Masters, Alloced, Processes
  <1>2. QED
    BY <1>1, SameApart, ApartAside

LEMMA BmTableAside ==
  ASSUME NEW p \in Processes, Kinds(p), p.alive = "run", NEW d \in Drivers,
         FALSE \notin Works[p.world]["version"], NEW q \in BmTable(p, d)
  PROVE  Aside(p, q)
  <1>1. PICK n \in bm_open(p) :
           \/ ~n.ok /\ q = n
           \/ /\ n.ok
              /\ \E b \in BOOLEAN : q = Masters(Alloced(n, d, "table", b), d, b)
    BY BmTableDo
  <1>2. Aside(p, n) /\ n \in Processes
    BY BmOpenAside, BmOpenLeft, LeftTyped
  <1>3. q = n \/ Aside(n, q)
    BY <1>1, <1>2, MastersAside DEF Blocks
  <1>4. QED
    BY <1>2, <1>3, AsideThen

LEMMA BmAside ==
  ASSUME NEW p \in Processes, Kinds(p), p.alive = "run", NEW d \in Drivers,
         FALSE \notin Works[p.world]["version"], NEW s, IsBm(s), NEW q \in Calling(d, s, p)
  PROVE  Aside(p, q)
  <1>1. CASE s[1] = "bmTable"
    BY <1>1, BmTableAside DEF Calling
  <1>2. CASE s[1] = "bmLists"
    <2>1. q \in BmLists(p, d)
      BY <1>2 DEF Calling
    <2>2. PICK n \in BmTable(p, d) :
           \/ ~n.dma[d] /\ q = n
           \/ /\ n.dma[d]
              /\ \E b \in BOOLEAN : q = Masters(Alloced(n, d, "block", b), d, b)
      <3>1. ListsMade(p, d, q)
        BY <2>1, BmListsDo
      <3>2. QED
        BY <3>1 DEF ListsMade
    <2>3. Aside(p, n) /\ n \in Processes
      BY BmTableAside, BmTableLeft, LeftTyped
    <2>4. q = n \/ Aside(n, q)
      BY <2>2, <2>3, MastersAside DEF Blocks
    <2>5. QED
      BY <2>3, <2>4, AsideThen
  <1>3. CASE s[1] = "bmIrq"
    <2>1. q \in BmIrq(p, d)
      BY <1>3 DEF Calling
    <2>2. PICK n \in bm_open(p) :
           \/ ~n.ok /\ q = n
           \/ /\ n.ok
              /\ \E r \in hwirq_install(n, d) :
                   q = IF r.ptr[d]["ctl"] = "held" THEN Masters(r, d, TRUE) ELSE Faults(r)
      BY <2>1, BmIrqDo
    <2>3. Aside(p, n) /\ n \in Processes /\ Kinds(n)
      BY BmOpenAside, BmOpenLeft, LeftTyped
    <2>4. ASSUME NEW r \in hwirq_install(n, d),
                 q = IF r.ptr[d]["ctl"] = "held" THEN Masters(r, d, TRUE) ELSE Faults(r)
          PROVE  Aside(n, q)
      <3>1. Aside(n, r) /\ r \in Processes
        BY <2>3, InstallAside, InstallLeft, LeftTyped
      <3>2. Aside(r, q)
        BY <2>4, <3>1, MastersAside, SaysApart, ApartAside DEF Blocks
      <3>3. QED
        BY <3>1, <3>2, AsideThen
    <2>5. q = n \/ Aside(n, q)
      BY <2>2, <2>4
    <2>6. QED
      BY <2>3, <2>5, AsideThen
  <1>4. QED
    BY <1>1, <1>2, <1>3 DEF IsBm

LEMMA BmCloseApart ==
  ASSUME NEW p \in Processes, BmKept(p), NEW q \in bm_close(p)
  PROVE  Apart(p, q)
  <1>1. CASE p.bmFd = NoFd
    <2>1. q = p
      BY <1>1, FdsAssumption DEF bm_close, CloseFd, NoFd
    <2>2. QED
      BY <2>1, SameApart
  <1>2. CASE p.bmFd # NoFd
    <2>1. p.bmFd \in Fds /\ p.owner[p.bmFd] = "bm"
      BY <1>2 DEF BmKept, Processes
    <2>2. q = [p EXCEPT !.owner[p.bmFd] = "none"]
      BY <2>1 DEF bm_close, CloseFd
    <2>3. /\ q.owner = [p.owner EXCEPT ![p.bmFd] = "none"] /\ q.memFd = p.memFd
          /\ q.ioFd = p.ioFd /\ q.ioCount = p.ioCount /\ q.iopl = p.iopl
      BY <2>2 DEF Processes
    <2>4. \A g \in Fds : q.owner[g] = IF g = p.bmFd THEN "none" ELSE p.owner[g]
      BY <2>1, <2>3 DEF Processes
    <2>5. Off(p, q)
      BY <2>1, <2>3, <2>4 DEF Off
    <2>6. Tame(p, q)
      BY <2>1, <2>3, <2>4 DEF Tame, Sole
    <2>7. QED
      BY <2>5, <2>6 DEF Apart
  <1>3. QED
    BY <1>1, <1>2

----------------------------------------------------------------------------
\* The ports and the other descriptors, call by call.
LEMMA CalmLeft ==
  ASSUME NEW p \in Processes, NEW q, NEW d, NEW a, NEW b, Left(p, q, d), Calm(p, a),
         Neat(q, b), Sole(q), Paired(p.world) => Tame(p, q)
  PROVE  Calm(q, b)
  <1>1. q.world = p.world /\ AppFds(q) = AppFds(p)
    BY DEF Left
  <1>2. QED
    BY <1>1 DEF Calm, Slim, Counts, Tame

\* One call, and a handler of such calls.
LEMMA CallCalm ==
  ASSUME NEW p \in Processes, Kinds(p), p.alive = "run", NEW d \in Drivers, NEW s, Made(d, s),
         p.world \in Clean, d \in Uses[p.world], NEW a, NEW b, Turn(d, s, a, b), Calm(p, a),
         s[1] = "scan" /\ a => Paired(p.world), s[1] = "bmClose" => BmKept(p),
         NEW q \in Calling(d, s, p)
  PROVE  Left(p, q, d) /\ Calm(q, b) /\ (BmKept(p) /\ s[1] # "bmClose" => BmKept(q))
  <1>1. /\ Width >= 2 /\ p.world \in Worlds
        /\ d \in Openers => FALSE \notin Works[p.world]["version"] /\ ~Paired(p.world)
        /\ Paired(p.world) => FreeFds(p) # {}
    <2>1. Width >= 3 /\ p.world \in Worlds
      BY UsesFinite
    <2>2. Width >= 2
      BY <2>1, WidthAssumption
    <2>3. d \in Openers => FALSE \notin Works[p.world]["version"] /\ ~Paired(p.world)
      BY <2>1, VersionAssumption, PairedFacts
    <2>4. Paired(p.world) => FreeFds(p) # {}
      BY Spare DEF Calm
    <2>5. QED
      BY <2>1, <2>2, <2>3, <2>4
  <1>2. CASE IsBm(s)
    <2>1. d \in Openers /\ Distant(s) /\ s[1] # "bmClose"
      BY <1>2 DEF Made, IsBm, IsPlain, Distant
    <2>2. Left(p, q, d) /\ BmKept(q) /\ Aside(p, q)
      BY <1>1, <1>2, <2>1, BmCall, BmAside
    <2>3. Neat(q, b) /\ Sole(q)
      <3>1. q.world = p.world
        BY <2>2 DEF Left
      <3>2. Neat(q, a)
        BY <2>2, <3>1, NeatOff DEF Aside, Calm
      <3>3. QED
        BY <2>1, <2>2, <3>2 DEF Aside, Calm, Turn, Distant, Neat
    <2>4. QED
      BY <1>1, <2>1, <2>2, <2>3, CalmLeft
  <1>3. CASE s[1] = "bmClose"
    <2>1. q \in bm_close(p)
      BY <1>3 DEF Calling
    <2>2. Left(p, q, d) /\ Apart(p, q)
      BY <1>3, <2>1, BmCloseDo, BmCloseApart
    <2>3. Neat(q, b) /\ Sole(q)
      <3>1. q.world = p.world
        BY <2>2 DEF Left
      <3>2. Neat(q, a)
        BY <2>2, <3>1, NeatOff DEF Apart, Calm
      <3>3. QED
        BY <1>3, <2>2, <3>2 DEF Apart, Tame, Calm, Turn, Neat
    <2>4. QED
      BY <1>3, <2>2, <2>3, CalmLeft DEF Apart
  <1>4. CASE IsPlain(s)
    <2>1. Left(p, q, d) /\ Plain(p, q) /\ q \in Processes
      BY <1>4, PlainCall, LeftTyped
    <2>2. BmKept(p) => BmKept(q)
      BY <2>1, PlainKeeps
    <2>3. d \in Porters => Roomy(p)
      <3>1. ASSUME d \in Porters, ~Paired(p.world)
            PROVE  TRUE \notin Works[p.world]["helper"]
        BY <3>1, CleanAssumption DEF Paired
      <3>2. QED
        BY <1>1, <3>1 DEF Roomy
    <2>4. Neat(q, b) /\ Tame(p, q)
      <3>1. CASE Distant(s)
        <4>1. Apart(p, q)
          BY <1>4, <3>1, PlainApart
        <4>2. q.world = p.world
          BY <2>1 DEF Left
        <4>3. Neat(q, a)
          BY <4>1, <4>2, NeatOff DEF Apart, Calm
        <4>4. QED
          BY <3>1, <4>1, <4>3 DEF Apart, Turn, Distant, Neat
      <3>2. CASE s[1] = "scan"
        <4>1. q \in pci_scan(p)
          BY <3>2 DEF Calling
        <4>2. Neat(q, a) /\ Tame(p, q)
          BY <1>1, <3>2, <4>1, ScanNeat DEF Calm
        <4>3. QED
          BY <3>2, <4>2 DEF Turn, Neat
      <3>3. CASE s[1] = "probePorts"
        <4>1. q \in ProbePorts(p)
          BY <3>3 DEF Calling
        <4>2. Neat(p, FALSE)
          BY <3>3 DEF Turn, Calm, Neat
        <4>3. Neat(q, FALSE) /\ Tame(p, q)
          BY <1>1, <2>3, <3>3, <4>1, <4>2, ProbePortsNeat DEF Turn
        <4>4. QED
          BY <3>3, <4>3 DEF Turn, Neat
      <3>4. CASE s[1] \in {"enable", "enableOr"}
        <4>1. q \in enable_app_io(p)
          BY <3>4 DEF Calling
        <4>2. Neat(p, FALSE)
          BY <3>4 DEF Turn, Calm, Neat
        <4>3. Neat(q, TRUE) /\ Tame(p, q)
          BY <1>1, <2>3, <3>4, <4>1, <4>2, EnableNeat DEF Turn
        <4>4. QED
          BY <3>4, <4>3 DEF Turn, Neat
      <3>5. CASE s[1] = "disable"
        <4>1. q = Disabled(p)
          BY <3>5, DisableDo DEF Calling
        <4>2. Neat(p, TRUE)
          BY <3>5 DEF Turn, Calm, Neat
        <4>3. Neat(q, FALSE) /\ Tame(p, q)
          BY <1>1, <4>1, <4>2, DisableNeat
        <4>4. QED
          BY <3>5, <4>3 DEF Turn, Neat
      <3>6. QED
        BY <3>1, <3>2, <3>3, <3>4, <3>5 DEF Distant
    <2>5. QED
      BY <2>1, <2>2, <2>4, CalmLeft DEF Tame, Calm
  <1>5. QED
    BY <1>2, <1>3, <1>4 DEF Made

LEMMA CalmRun ==
  ASSUME NEW p \in Processes, Kinds(p), p.alive = "run", NEW d \in Drivers,
         p.world \in Clean, d \in Uses[p.world], NEW script, Len(script) \in Nat,
         Built(d, script), NEW O, Turns(d, script, O), Calm(p, O[0]),
         \A i \in 1 .. Len(script) : script[i][1] = "scan" /\ O[i - 1] => Paired(p.world),
         (\E i \in 1 .. Len(script) : script[i][1] = "bmClose") => BmKept(p),
         NEW r \in Run(d, script, p)
  PROVE  /\ Left(p, r.p, d)
         /\ r.done => Calm(r.p, O[Len(script)])
         /\ ~r.done /\ r.p.alive = "run" =>
              \E i \in 1 .. Len(script) : script[i][1] \in Stops /\ Calm(r.p, O[i])
  <1> DEFINE N == Len(script)
             X == {q \in Processes : Left(p, q, d) /\
                     (q.alive = "run" => \E i \in 1 .. N : script[i][1] \in Stops /\ Calm(q, O[i]))}
             S == [i \in 0 .. N |->
                    {q \in Processes : Left(p, q, d) /\ Calm(q, O[i]) /\
                       (BmKept(p) /\ Unclosed(script, i) => BmKept(q))}]
  <1>1. ASSUME NEW i \in 1 .. N, NEW q \in S[i - 1], q.alive = "run",
               NEW t \in Calling(d, script[i], q)
        PROVE  IF t.alive = "run" /\ (t.ok \/ script[i][1] \notin Stops)
               THEN t \in S[i] ELSE t \in X
    <2>1. /\ S[i - 1] = {x \in Processes : Left(p, x, d) /\ Calm(x, O[i - 1]) /\
                           (BmKept(p) /\ Unclosed(script, i - 1) => BmKept(x))}
          /\ S[i] = {x \in Processes : Left(p, x, d) /\ Calm(x, O[i]) /\
                           (BmKept(p) /\ Unclosed(script, i) => BmKept(x))}
      OBVIOUS
    <2> HIDE DEF S
    <2>2. /\ q \in Processes /\ Kinds(q) /\ q.world = p.world /\ Left(p, q, d) /\ Calm(q, O[i - 1])
          /\ BmKept(p) /\ Unclosed(script, i - 1) => BmKept(q)
      BY <2>1, LeftTyped
    <2>3. /\ Made(d, script[i]) /\ Turn(d, script[i], O[i - 1], O[i])
          /\ script[i][1] = "bmClose" => Unclosed(script, i - 1) /\ BmKept(p)
      BY DEF Built, Turns
    <2>4. /\ Left(q, t, d) /\ Calm(t, O[i])
          /\ BmKept(q) /\ script[i][1] # "bmClose" => BmKept(t)
      BY <1>1, <2>2, <2>3, CallCalm
    <2>5. t \in Processes /\ Left(p, t, d)
      BY <2>2, <2>4, LeftThen, LeftTyped
    <2>6. Unclosed(script, i) => script[i][1] # "bmClose" /\ Unclosed(script, i - 1)
      BY DEF Unclosed
    <2>7. BmKept(p) /\ Unclosed(script, i) => BmKept(t)
      BY <2>2, <2>4, <2>6
    <2>8. t \in S[i]
      BY <2>1, <2>4, <2>5, <2>7
    <2>9. t.alive # "run" \/ script[i][1] \in Stops => t \in X
      BY <2>4, <2>5
    <2>10. QED
      BY <2>8, <2>9
  <1>2. p \in S[0]
    <2>1. Left(p, p, d)
      BY LeftSame
    <2>2. 0 \in 0 .. N
      OBVIOUS
    <2>3. QED
      BY <2>1, <2>2
  <1>3. \A q \in S[N] : Left(p, q, d) /\ Calm(q, O[N])
    OBVIOUS
  <1>4. \A q \in X : /\ Left(p, q, d)
                     /\ q.alive = "run" => \E i \in 1 .. N : script[i][1] \in Stops /\ Calm(q, O[i])
    OBVIOUS
  <1>5. N \in Nat
    OBVIOUS
  <1> HIDE DEF S, X
  <1>6. \A t \in Run(d, script, p) : Ends(p, t, S[N], X)
    BY <1>1, <1>2, <1>5, Unrolled
  <1>7. IF r.done THEN r.p \in S[N] ELSE r.p \in X
    BY <1>6 DEF Ends
  <1>8. QED
    BY <1>3, <1>4, <1>7

----------------------------------------------------------------------------
\* The scripts of the drivers that give back what they obtain: the ports are asked
\* for once, by vixInit, and given back once, by vixDestroy.
LEMMA TidyInit ==
  ASSUME NEW d \in Tidy
  PROVE  /\ Built(d, InitOf[d]) /\ Len(InitOf[d]) \in Nat
         /\ \A i \in 1 .. Len(InitOf[d]) :
              /\ InitOf[d][i][1] \notin {"scan", "probePorts", "disable", "bmClose"}
              /\ InitOf[d][i][1] \in {"enable", "enableOr"}
                   => d \in Porters /\ ~Asked(InitOf[d], i - 1)
         /\ d \in Porters => Asked(InitOf[d], Len(InitOf[d]))
  <1> USE DEF InitOf, Built, Made, IsPlain, IsBm, Regions, Blocks, Openers, Closers, Unclosed,
            Porters, Undisturbed, Asked, Distant, Stops
  <1>1. CASE d = "cyberblade"
    BY <1>1 DEF CyberbladeInit
  <1>2. CASE d = "mach64"
    BY <1>2 DEF Mach64Init
  <1>3. CASE d = "nvidia"
    BY <1>3 DEF NvidiaInit
  <1>4. CASE d = "pm2"
    BY <1>4 DEF Pm2Init
  <1>5. CASE d = "pm3"
    BY <1>5 DEF Pm3Init
  <1>6. CASE d = "radeonhd"
    BY <1>6 DEF RadeonhdInit
  <1>7. CASE d = "sis"
    BY <1>7 DEF SisInit
  <1>8. CASE d = "unichrome"
    BY <1>8 DEF UnichromeInit
  <1> HIDE DEF InitOf, Built, Made, IsPlain, IsBm, Regions, Blocks, Openers, Closers, Unclosed,
             Porters, Undisturbed, Asked, Distant, Stops
  <1>9. QED
    BY <1>1, <1>2, <1>3, <1>4, <1>5, <1>6, <1>7, <1>8 DEF Tidy

LEMMA TidyLater ==
  ASSUME NEW d \in Tidy
  PROVE  /\ Built(d, ConfigOf[d]) /\ Len(ConfigOf[d]) \in Nat
         /\ Built(d, PlayOf[d]) /\ Len(PlayOf[d]) \in Nat
         /\ \A i \in 1 .. Len(ConfigOf[d]) : ConfigOf[d][i][1] \in {"ports", "regs", "fits"}
         /\ \A i \in 1 .. Len(PlayOf[d]) : PlayOf[d][i][1] \in {"ports", "regs"}
  <1> USE DEF ConfigOf, PlayOf, Built, Made, IsPlain, IsBm, Regions, Blocks, Openers, Closers,
            Unclosed, Porters, Undisturbed, Asked, Distant, Stops
  <1>1. CASE d = "cyberblade"
    BY <1>1 DEF CyberbladeConfig, CyberbladePlay
  <1>2. CASE d = "mach64"
    BY <1>2 DEF Mach64Config, Mach64Play
  <1>3. CASE d = "nvidia"
    BY <1>3 DEF NvidiaConfig, NvidiaPlay
  <1>4. CASE d = "pm2"
    BY <1>4 DEF Pm2Config, Pm2Play
  <1>5. CASE d = "pm3"
    BY <1>5 DEF Pm3Config, Pm3Play
  <1>6. CASE d = "radeonhd"
    BY <1>6 DEF RadeonhdConfig, RadeonhdPlay
  <1>7. CASE d = "sis"
    BY <1>7 DEF SisConfig, SisPlay
  <1>8. CASE d = "unichrome"
    BY <1>8 DEF UnichromeConfig, UnichromePlay
  <1> HIDE DEF ConfigOf, PlayOf, Built, Made, IsPlain, IsBm, Regions, Blocks, Openers, Closers,
             Unclosed, Porters, Undisturbed, Asked, Distant, Stops
  <1>9. QED
    BY <1>1, <1>2, <1>3, <1>4, <1>5, <1>6, <1>7, <1>8 DEF Tidy

LEMMA TidyDestroy ==
  ASSUME NEW d \in Tidy
  PROVE  /\ Built(d, DestroyOf[d]) /\ Len(DestroyOf[d]) \in Nat
         /\ \A i \in 1 .. Len(DestroyOf[d]) :
              /\ DestroyOf[d][i][1] \notin {"probePorts", "enable"} \cup Stops
              /\ DestroyOf[d][i][1] = "disable"
                   => d \in Porters /\ Undisturbed(DestroyOf[d], i - 1)
              /\ DestroyOf[d][i][1] = "bmClose" => d \in Closers
         /\ d \in Porters => ~Undisturbed(DestroyOf[d], Len(DestroyOf[d]))
  <1> USE DEF DestroyOf, Built, Made, IsPlain, IsBm, Regions, Blocks, Openers, Closers, Unclosed,
            Porters, Undisturbed, Asked, Distant, Stops
  <1>1. CASE d = "cyberblade"
    BY <1>1 DEF CyberbladeDestroy
  <1>2. CASE d = "mach64"
    BY <1>2 DEF Mach64Destroy
  <1>3. CASE d = "nvidia"
    BY <1>3 DEF NvidiaDestroy
  <1>4. CASE d = "pm2"
    BY <1>4 DEF Pm2Destroy
  <1>5. CASE d = "pm3"
    BY <1>5 DEF Pm3Destroy
  <1>6. CASE d = "radeonhd"
    BY <1>6 DEF RadeonhdDestroy
  <1>7. CASE d = "sis"
    BY <1>7 DEF SisDestroy
  <1>8. CASE d = "unichrome"
    BY <1>8 DEF UnichromeDestroy
  <1> HIDE DEF DestroyOf, Built, Made, IsPlain, IsBm, Regions, Blocks, Openers, Closers, Unclosed,
             Porters, Undisturbed, Asked, Distant, Stops
  <1>9. QED
    BY <1>1, <1>2, <1>3, <1>4, <1>5, <1>6, <1>7, <1>8 DEF Tidy

LEMMA TidyProbe ==
  ASSUME NEW d \in Tidy
  PROVE  /\ Built(d, ProbeOf(d)) /\ Len(ProbeOf(d)) \in Nat
         /\ \A i \in 1 .. Len(ProbeOf(d)) :
              /\ ProbeOf(d)[i][1] \in {"scan", "card", "probePorts"}
              /\ ProbeOf(d)[i][1] = "probePorts" => d \in Porters
  <1>1. CASE d = "sis"
    BY <1>1 DEF ProbeOf, SisProbe, Built, Made, IsPlain, Porters
  <1>2. CASE d # "sis"
    <2>1. ProbeOf(d) = ProbeScript
      BY <1>2 DEF ProbeOf, Tidy
    <2>2. QED
      BY <2>1 DEF ProbeScript, Built, Made, IsPlain
  <1>3. QED
    BY <1>1, <1>2

\* Where the driver itself, or one that shares the ports with it, has them.
LEMMA ProbeCalm ==
  ASSUME NEW p \in Processes, Kinds(p), p.alive = "run", NEW d \in Drivers,
         p.world \in Clean, d \in Uses[p.world], NEW on, Calm(p, on), on => Paired(p.world),
         d \in Porters => ~on, NEW r \in Run(d, ProbeOf(d), p)
  PROVE  Left(p, r.p, d) /\ (r.p.alive = "run" => Calm(r.p, on))
  <1> DEFINE script == ProbeOf(d)
             O == [i \in 0 .. Len(script) |-> on]
  <1>1. d \in Tidy
    BY CleanAssumption
  <1>2. /\ Built(d, script) /\ Len(script) \in Nat
        /\ \A i \in 1 .. Len(script) : /\ script[i][1] \in {"scan", "card", "probePorts"}
                                       /\ script[i][1] = "probePorts" => d \in Porters
    BY <1>1, TidyProbe
  <1> HIDE DEF script
  <1>3. \A i \in 0 .. Len(script) : O[i] = on
    OBVIOUS
  <1>4. \A i \in 1 .. Len(script) : O[i] = on /\ O[i - 1] = on
    BY <1>2, <1>3
  <1>5. O[0] = on /\ O[Len(script)] = on
    BY <1>2, <1>3
  <1> HIDE DEF O
  <1>6. Turns(d, script, O)
    BY <1>2, <1>4 DEF Turns, Turn
  <1>7. ~\E i \in 1 .. Len(script) : script[i][1] = "bmClose"
    BY <1>2
  <1>8. /\ Left(p, r.p, d)
        /\ r.done => Calm(r.p, O[Len(script)])
        /\ ~r.done /\ r.p.alive = "run" =>
             \E i \in 1 .. Len(script) : script[i][1] \in Stops /\ Calm(r.p, O[i])
    BY <1>2, <1>4, <1>5, <1>6, <1>7, CalmRun DEF script
  <1>9. QED
    BY <1>4, <1>5, <1>8

LEMMA InitCalm ==
  ASSUME NEW p \in Processes, Kinds(p), p.alive = "run", NEW d \in Drivers,
         p.world \in Clean, d \in Uses[p.world], NEW on, Calm(p, on),
         d \in Porters => ~on, NEW r \in Run(d, InitOf[d], p)
  PROVE  r.done => Calm(r.p, on \/ d \in Porters)
  <1> DEFINE script == InitOf[d]
             O == [i \in 0 .. Len(script) |-> on \/ (d \in Porters /\ Asked(script, i))]
  <1>1. d \in Tidy
    BY CleanAssumption
  <1>2. /\ Built(d, script) /\ Len(script) \in Nat
        /\ \A i \in 1 .. Len(script) :
              /\ script[i][1] \notin {"scan", "probePorts", "disable", "bmClose"}
              /\ script[i][1] \in {"enable", "enableOr"} => d \in Porters /\ ~Asked(script, i - 1)
        /\ d \in Porters => Asked(script, Len(script))
    BY <1>1, TidyInit
  <1> HIDE DEF script
  <1>3. \A i \in 0 .. Len(script) : O[i] = (on \/ (d \in Porters /\ Asked(script, i)))
    OBVIOUS
  <1>4. \A i \in 1 .. Len(script) : /\ O[i] = (on \/ (d \in Porters /\ Asked(script, i)))
                                    /\ O[i - 1] = (on \/ (d \in Porters /\ Asked(script, i - 1)))
    BY <1>2, <1>3
  <1>5. O[0] = (on \/ (d \in Porters /\ Asked(script, 0)))
    BY <1>2, <1>3
  <1>6. O[Len(script)] = (on \/ (d \in Porters /\ Asked(script, Len(script))))
    BY <1>2, <1>3
  <1> HIDE DEF O
  <1>7. \A i \in 1 .. Len(script) :
          Asked(script, i) <=> Asked(script, i - 1) \/ script[i][1] \in {"enable", "enableOr"}
    BY <1>2 DEF Asked
  <1>8. Turns(d, script, O)
    BY <1>2, <1>4, <1>7 DEF Turns, Turn
  <1>9. ~Asked(script, 0)
    BY DEF Asked
  <1>10. Calm(p, O[0])
    BY <1>5, <1>9 DEF Calm, Neat
  <1>11. \A i \in 1 .. Len(script) : script[i][1] # "bmClose" /\ script[i][1] # "scan"
    BY <1>2
  <1>12. r.done => Calm(r.p, O[Len(script)])
    BY <1>2, <1>8, <1>10, <1>11, CalmRun DEF script
  <1>13. QED
    BY <1>2, <1>6, <1>12 DEF Calm, Neat

LEMMA LaterCalm ==
  ASSUME NEW p \in Processes, Kinds(p), p.alive = "run", NEW d \in Drivers,
         p.world \in Clean, d \in Uses[p.world], NEW on, Calm(p, on),
         NEW script, script \in {ConfigOf[d], PlayOf[d]}, NEW r \in Run(d, script, p)
  PROVE  r.p.alive = "run" => Calm(r.p, on)
  <1> DEFINE O == [i \in 0 .. Len(script) |-> on]
  <1>1. d \in Tidy
    BY CleanAssumption
  <1>2. /\ Built(d, script) /\ Len(script) \in Nat
        /\ \A i \in 1 .. Len(script) : script[i][1] \in {"ports", "regs", "fits"}
    BY <1>1, TidyLater
  <1>3. \A i \in 0 .. Len(script) : O[i] = on
    OBVIOUS
  <1>4. \A i \in 1 .. Len(script) : O[i] = on /\ O[i - 1] = on
    BY <1>2, <1>3
  <1>5. O[0] = on /\ O[Len(script)] = on
    BY <1>2, <1>3
  <1> HIDE DEF O
  <1>6. Turns(d, script, O)
    BY <1>2, <1>4 DEF Turns, Turn
  <1>7. \A i \in 1 .. Len(script) : script[i][1] # "bmClose" /\ script[i][1] # "scan"
    BY <1>2
  <1>8. /\ r.done => Calm(r.p, O[Len(script)])
        /\ ~r.done /\ r.p.alive = "run" =>
             \E i \in 1 .. Len(script) : script[i][1] \in Stops /\ Calm(r.p, O[i])
    BY <1>2, <1>5, <1>6, <1>7, CalmRun
  <1>9. QED
    BY <1>4, <1>5, <1>8

LEMMA DestroyCalm ==
  ASSUME NEW p \in Processes, Kinds(p), p.alive = "run", NEW d \in Drivers,
         p.world \in Clean, d \in Uses[p.world], NEW on, Calm(p, on), d \in Porters => on,
         d \in Closers => BmKept(p), NEW r \in Run(d, DestroyOf[d], p)
  PROVE  r.p.alive = "run" => Calm(r.p, on /\ d \notin Porters)
  <1> DEFINE script == DestroyOf[d]
             O == [i \in 0 .. Len(script) |-> on /\ (d \in Porters => Undisturbed(script, i))]
  <1>1. d \in Tidy
    BY CleanAssumption
  <1>2. /\ Built(d, script) /\ Len(script) \in Nat
        /\ \A i \in 1 .. Len(script) :
              /\ script[i][1] \notin {"probePorts", "enable"} \cup Stops
              /\ script[i][1] = "disable" => d \in Porters /\ Undisturbed(script, i - 1)
              /\ script[i][1] = "bmClose" => d \in Closers
        /\ d \in Porters => ~Undisturbed(script, Len(script))
    BY <1>1, TidyDestroy
  <1> HIDE DEF script
  <1>3. \A i \in 0 .. Len(script) : O[i] = (on /\ (d \in Porters => Undisturbed(script, i)))
    OBVIOUS
  <1>4. \A i \in 1 .. Len(script) :
          /\ O[i] = (on /\ (d \in Porters => Undisturbed(script, i)))
          /\ O[i - 1] = (on /\ (d \in Porters => Undisturbed(script, i - 1)))
    BY <1>2, <1>3
  <1>5. O[0] = (on /\ (d \in Porters => Undisturbed(script, 0)))
    BY <1>2, <1>3
  <1>6. O[Len(script)] = (on /\ (d \in Porters => Undisturbed(script, Len(script))))
    BY <1>2, <1>3
  <1> HIDE DEF O
  <1>7. \A i \in 1 .. Len(script) :
          /\ script[i][1] \notin {"probePorts", "enable", "enableOr", "scan"}
          /\ Undisturbed(script, i) <=> Undisturbed(script, i - 1) /\ script[i][1] # "disable"
    <2>1. \A i \in 1 .. Len(script) :
            script[i][1] \notin {"probePorts", "enable", "enableOr", "scan"}
      BY <1>2 DEF Stops
    <2>2. QED
      BY <1>2, <2>1 DEF Undisturbed
  <1>8. Turns(d, script, O)
    BY <1>2, <1>4, <1>7 DEF Turns, Turn
  <1>9. Undisturbed(script, 0)
    BY DEF Undisturbed
  <1>10. Calm(p, O[0])
    BY <1>5, <1>9 DEF Calm, Neat
  <1>11. (\E i \in 1 .. Len(script) : script[i][1] = "bmClose") => BmKept(p)
    BY <1>2
  <1>12. /\ r.done => Calm(r.p, O[Len(script)])
         /\ ~r.done /\ r.p.alive = "run" =>
              \E i \in 1 .. Len(script) : script[i][1] \in Stops /\ Calm(r.p, O[i])
    BY <1>2, <1>7, <1>8, <1>10, <1>11, CalmRun DEF script
  <1>13. QED
    BY <1>2, <1>6, <1>12 DEF Calm, Neat

----------------------------------------------------------------------------
\* The mappings.

\* Calls that change no account.
LEMMA StillThen ==
  ASSUME NEW p, NEW q, NEW r, Still(p, q), Still(q, r)
  PROVE  Still(p, r)
  BY DEF Still

LEMMA SaysStill ==
  ASSUME NEW p \in Processes, NEW b
  PROVE  /\ Still(p, p) /\ Still(p, Says(p, b)) /\ Still(p, Exits(p)) /\ Still(p, Faults(p))
         /\ \A d : Still(p, Masters(p, d, b))
  BY DEF Still, Says, Exits, Faults, Masters, Processes

LEMMA EnableStill ==
  ASSUME NEW p \in Processes, NEW q \in enable_app_io(p)
  PROVE  Still(p, q)
  <1>1. ASSUME NEW f, q = Enabled(p, f)
        PROVE  Still(p, q)
    BY <1>1 DEF Enabled, Still, Processes
  <1>2. ASSUME NEW b, q = Refused(p, b)
        PROVE  Still(p, q)
    BY <1>2 DEF Refused, Still, Processes
  <1>3. QED
    BY <1>1, <1>2, EnableDo

LEMMA DisableStill ==
  ASSUME NEW p \in Processes
  PROVE  Still(p, Disabled(p))
  BY DEF Disabled, Still, Processes

LEMMA ScanStill ==
  ASSUME NEW p \in Processes, Kinds(p), p.alive = "run", NEW q \in pci_scan(p)
  PROVE  Still(p, q)
  <1>1. CASE q = Says(p, TRUE)
    BY <1>1, SaysStill
  <1>2. CASE ScanFallback(p, q)
    <2> DEFINE n == Says(p, FALSE)
    <2>1. n \in Processes /\ Still(p, n) /\ Kinds(n)
      BY SaysStill, SaysLeft, LeftTyped
    <2>2. PICK e \in enable_app_io(n) :
            IF e.ok THEN \E b \in Works[p.world]["bus"] : q = Disabled(Says(e, b)) ELSE q = e
      BY <1>2 DEF ScanFallback
    <2> HIDE DEF n
    <2>3. Still(n, e) /\ e \in Processes /\ Kinds(e)
      BY <2>1, <2>2, EnableStill, EnableLeft, LeftTyped
    <2>4. ASSUME NEW b \in Works[p.world]["bus"], q = Disabled(Says(e, b))
          PROVE  Still(e, q)
      <3>1. b \in BOOLEAN
        BY WorksBoolean DEF Calls
      <3>2. Says(e, b) \in Processes /\ Still(e, Says(e, b))
        BY <2>3, <3>1, SaysLeft, SaysStill, LeftTyped
      <3>3. QED
        BY <2>4, <3>2, DisableStill, StillThen
    <2>5. Still(e, q)
      BY <2>2, <2>3, <2>4, SaysStill
    <2>6. QED
      BY <2>1, <2>3, <2>5, StillThen
  <1>3. QED
    BY <1>1, <1>2, ScanDo

LEMMA ProbePortsStill ==
  ASSUME NEW p \in Processes, Kinds(p), p.alive = "run", NEW q \in ProbePorts(p)
  PROVE  Still(p, q)
  <1>1. CASE q = p
    BY <1>1, SaysStill
  <1>2. CASE q # p
    <2>1. PICK e \in enable_app_io(p) :
            q = IF ~e.ok THEN e ELSE IF PortAccess(e) THEN Disabled(e) ELSE Faults(e)
      BY <1>2, ProbePortsDo
    <2>2. Still(p, e) /\ e \in Processes
      BY EnableStill, EnableLeft, LeftTyped
    <2>3. Still(e, q)
      BY <2>1, <2>2, DisableStill, SaysStill
    <2>4. QED
      BY <2>2, <2>3, StillThen
  <1>3. QED
    BY <1>1, <1>2

LEMMA UninstallStill ==
  ASSUME NEW p \in Processes, Kinds(p), NEW d \in Drivers, NEW q \in hwirq_uninstall(p, d)
  PROVE  Still(p, q)
  <1> DEFINE u == Uninstalled(p, d)
  <1>1. u \in Processes /\ Still(p, u)
    BY UninstalledTyped, ZenonT(40) DEF Still, Uninstalled, Processes
  <1> HIDE DEF u
  <1>2. q = u \/ q = [u EXCEPT !.owner[p.irqFd] = "none", !.irqFd = NoFd]
    BY UninstallDo DEF u
  <1>3. Still(u, q)
    BY <1>1, <1>2 DEF Still, Processes
  <1>4. QED
    BY <1>1, <1>3, StillThen

LEMMA InstallStill ==
  ASSUME NEW p \in Processes, Kinds(p), NEW d \in Drivers, NEW q \in hwirq_install(p, d)
  PROVE  Still(p, q)
  <1>1. ASSUME NEW n \in Processes, NEW b, q = Installed(n, d, b)
        PROVE  Still(n, q)
    BY <1>1 DEF Still, Installed, Processes
  <1>2. ASSUME NEW f \in Fds, p.owner[f] = "none", p.irqFd = NoFd
        PROVE  Still(p, IrqOpened(p, f)) /\ IrqOpened(p, f) \in Processes
    <2>1. Still(p, IrqOpened(p, f))
      BY DEF Still, IrqOpened, Processes
    <2>2. QED
      BY <1>2, <2>1, IrqOpenedLeft, LeftTyped
  <1>3. \/ p.irqFd # NoFd /\ \E b \in BOOLEAN : q = Installed(p, d, b)
        \/ p.irqFd = NoFd /\ q = Installed(p, d, FALSE)
        \/ p.irqFd = NoFd /\ \E f \in Fds :
             /\ p.owner[f] = "none"
             /\ \E b \in BOOLEAN : q = Installed(IrqOpened(p, f), d, b)
    BY InstallDo
  <1>4. ASSUME NEW f \in Fds, p.owner[f] = "none", p.irqFd = NoFd,
               NEW b \in BOOLEAN, q = Installed(IrqOpened(p, f), d, b)
        PROVE  Still(p, q)
    <2>1. Still(p, IrqOpened(p, f)) /\ Still(IrqOpened(p, f), q)
      BY <1>1, <1>2, <1>4
    <2>2. QED
      BY <2>1, StillThen
  <1>5. QED
    BY <1>1, <1>3, <1>4

LEMMA BmOpenStill ==
  ASSUME NEW p \in Processes, FALSE \notin Works[p.world]["version"], NEW q \in bm_open(p)
  PROVE  Still(p, q)
  <1>1. ASSUME NEW f, q = BmOpened(p, f)
        PROVE  Still(p, q)
    BY <1>1 DEF BmOpened, Still, Processes
  <1>2. CASE q = BmRefused(p)
    BY <1>2 DEF BmRefused, Still, Processes
  <1>3. QED
    BY <1>1, <1>2, BmOpenDo

LEMMA BmCloseStill ==
  ASSUME NEW p \in Processes, NEW q \in bm_close(p)
  PROVE  Still(p, q)
  BY DEF bm_close, CloseFd, Still, Processes

LEMMA NeutralStill ==
  ASSUME NEW p \in Processes, Kinds(p), p.alive = "run", NEW d \in Drivers, NEW s, Neutral(s),
         NEW q \in Calling(d, s, p)
  PROVE  Still(p, q)
  <1>1. CASE s[1] \in {"card", "fits"}
    <2>1. PICK c \in Calls : q \in Try(p, c)
      BY <1>1 DEF Calling, Calls
    <2>2. \E b \in Works[p.world][c] : q = Says(p, b)
      BY <2>1, TryDo DEF Says
    <2>3. QED
      BY <2>2, SaysStill
  <1>2. CASE s[1] = "ports"
    <2>1. q \in ports(p)
      BY <1>2 DEF Calling
    <2>2. QED
      BY <2>1, SaysStill DEF ports
  <1>3. CASE s[1] = "regs"
    <2>1. q \in regs(p, d, s[2])
      BY <1>3 DEF Calling
    <2>2. QED
      BY <2>1, SaysStill DEF regs
  <1>4. CASE s[1] \in {"uninstall", "uninstallIf"}
    <2>1. q = p \/ q \in hwirq_uninstall(p, d)
      BY <1>4 DEF Calling
    <2>2. QED
      BY <2>1, SaysStill, UninstallStill
  <1>5. CASE s[1] = "scan"
    BY <1>5, ScanStill DEF Calling
  <1>6. CASE s[1] = "probePorts"
    BY <1>6, ProbePortsStill DEF Calling
  <1>7. CASE s[1] \in {"enable", "enableOr"}
    BY <1>7, EnableStill DEF Calling
  <1>8. CASE s[1] = "disable"
    <2>1. q = Disabled(p)
      BY <1>8, DisableDo DEF Calling
    <2>2. QED
      BY <2>1, DisableStill
  <1>9. CASE s[1] = "bmClose"
    BY <1>9, BmCloseStill DEF Calling
  <1>10. QED
    BY <1>1, <1>2, <1>3, <1>4, <1>5, <1>6, <1>7, <1>8, <1>9 DEF Neutral

LEMMA LocksRoom ==
  ASSUME NEW w \in Clean, NEW L, L \subseteq Uses[w] \X Regions
  PROVE  IsFiniteSet(L) /\ Cardinality(L) \in Nat /\ Cardinality(L) < Width
  <1>1. IsFiniteSet(Uses[w]) /\ Cardinality(Uses[w]) \in Nat
    BY UsesFinite
  <1>2. IsFiniteSet(Regions) /\ Cardinality(Regions) = 2
    <2>1. IsFiniteSet({"ctl"}) /\ Cardinality({"ctl"}) = 1 /\ "mem" \notin {"ctl"}
      BY FS_Singleton
    <2>2. Regions = {"ctl"} \cup {"mem"}
      BY DEF Regions
    <2>3. /\ IsFiniteSet({"ctl"} \cup {"mem"})
          /\ Cardinality({"ctl"} \cup {"mem"}) = Cardinality({"ctl"}) + 1
      BY <2>1, FS_AddElement
    <2>4. QED
      BY <2>1, <2>2, <2>3
  <1>3. /\ IsFiniteSet(Uses[w] \X Regions)
        /\ Cardinality(Uses[w] \X Regions) = Cardinality(Uses[w]) * 2
    BY <1>1, <1>2, FS_Product
  <1>4. 2 * Cardinality(Uses[w]) < Width
    BY CleanAssumption
  <1>5. IsFiniteSet(L) /\ Cardinality(L) <= Cardinality(Uses[w] \X Regions)
    BY <1>3, FS_Subset
  <1>6. Cardinality(L) \in Nat
    BY <1>5, FS_CardinalityType
  <1>7. QED
    BY <1>1, <1>3, <1>4, <1>5, <1>6, WidthAssumption

LEMMA StillAccount ==
  ASSUME NEW p, NEW q, Still(p, q), q.world = p.world, NEW d, NEW H, NEW G, NEW R,
         Account(p, d, H, G, R)
  PROVE  Account(q, d, H, G, R)
  BY DEF Still, Account, Booked, Locks

\* A change to what one driver has of one thing.
LEMMA LiveChange ==
  ASSUME NEW p \in Processes, NEW q \in Processes, NEW d \in Drivers, NEW t \in Things, NEW n, NEW v,
         Sets(p, q, d, t, n, v)
  PROVE  /\ \A e \in Drivers, u \in Things :
              q.live[e][u] = IF e = d /\ u = t THEN n ELSE p.live[e][u]
         /\ \A u \in Things : q.ptr[d][u] = IF u = t THEN v ELSE p.ptr[d][u]
         /\ t \in Blocks => Locks(q) = Locks(p)
         /\ t \in Regions => Locks(q) = IF n = 0 THEN Locks(p) \ {<<d, t>>}
                                        ELSE Locks(p) \cup {<<d, t>>}
  <1>1. /\ p.live \in [Drivers -> [Things -> Int]]
        /\ p.ptr \in [Drivers -> [Things -> {"null", "failed", "held"}]]
    BY DEF Processes
  <1>2. \A e \in Drivers, u \in Things :
          q.live[e][u] = IF e = d /\ u = t THEN n ELSE p.live[e][u]
    BY <1>1 DEF Sets
  <1>3. \A u \in Things : q.ptr[d][u] = IF u = t THEN v ELSE p.ptr[d][u]
    BY <1>1 DEF Sets
  <1>4. \A e \in Drivers, u \in Regions : u \in Things
    BY DEF Things
  <1>5. \A e \in Drivers, u \in Regions :
          <<e, u>> \in Locks(q) <=> IF e = d /\ u = t THEN n # 0 ELSE <<e, u>> \in Locks(p)
    BY <1>2, <1>4 DEF Locks
  <1>6. \A x \in Locks(q) \cup Locks(p) : \E e \in Drivers, u \in Regions : x = <<e, u>>
    BY DEF Locks
  <1>7. t \in Blocks => t \notin Regions
    BY DEF Blocks, Regions
  <1>8. t \in Blocks => Locks(q) = Locks(p)
    <2>1. ASSUME t \in Blocks
          PROVE  \A x : x \in Locks(q) <=> x \in Locks(p)
      BY <1>5, <1>6, <1>7, <2>1
    <2>2. QED
      BY <2>1
  <1>9. ASSUME t \in Regions
        PROVE  Locks(q) = IF n = 0 THEN Locks(p) \ {<<d, t>>} ELSE Locks(p) \cup {<<d, t>>}
    <2>1. CASE n = 0
      <3>1. \A x : x \in Locks(q) <=> x \in Locks(p) /\ x # <<d, t>>
        BY <1>5, <1>6, <2>1
      <3>2. QED
        BY <2>1, <3>1
    <2>2. CASE n # 0
      <3>1. \A x : x \in Locks(q) <=> x \in Locks(p) \/ x = <<d, t>>
        BY <1>5, <1>6, <1>9, <2>2
      <3>2. QED
        BY <2>2, <3>1
    <2>3. QED
      BY <2>1, <2>2
  <1>10. QED
    BY <1>2, <1>3, <1>8, <1>9

\* map_phys_mem, where mappings succeed.
LEMMA MapAccount ==
  ASSUME NEW p \in Processes, Kinds(p), p.alive = "run", p.world \in Clean, NEW d \in Drivers,
         d \in Uses[p.world], NEW r \in Regions, NEW H, H \subseteq Things, NEW G, NEW R,
         Account(p, d, H, G, R), r \notin G, r \notin R,
         NEW q \in map_phys_mem(p, d, r), q.alive = "run"
  PROVE  Account(q, d, H, G \cup {r}, R)
  <1>1. PICK m \in OpenMem(p) :
          IF m.alive = "run" THEN \E b \in Works[p.world]["map"] : q = Mapped(m, d, r, b)
          ELSE q = m
    BY MapDo
  <1>2. FALSE \notin Works[p.world]["map"] /\ Works[p.world]["map"] \in SUBSET BOOLEAN
    BY CleanAssumption, WorksBoolean DEF Calls
  <1>3. m.alive = "run" /\ q = Mapped(m, d, r, TRUE)
    BY <1>1, <1>2
  <1>4. /\ m \in Processes /\ m.world = p.world /\ m.ptr = p.ptr /\ m.live = p.live
        /\ m.memLocks = p.memLocks
    <2>1. m \in Processes /\ m.world = p.world
      BY OpenMemLeft DEF Left
    <2>2. CASE m = p
      BY <2>2
    <2>3. ASSUME NEW f, m = MemOpened(p, f)
          PROVE  m.ptr = p.ptr /\ m.live = p.live /\ m.memLocks = p.memLocks
      BY <2>3 DEF MemOpened, Processes
    <2>4. m # Exits(Says(p, FALSE))
      BY <1>3 DEF Exits, Says, Processes
    <2>5. QED
      BY <2>1, <2>2, <2>3, <2>4, OpenMemDo
  <1>5. q \in Processes /\ Kinds(q) /\ q.world = p.world
    BY MapLeft, LeftTyped
  <1>6. /\ q.ptr = [m.ptr EXCEPT ![d][r] = "held"]
        /\ q.live = [m.live EXCEPT ![d][r] = m.live[d][r] + 1]
        /\ q.memLocks = Up(m.memLocks)
    BY <1>3, <1>4 DEF Mapped, Processes
  <1>7. r \in Things /\ p.ptr[d][r] # "held" /\ p.live[d][r] = 0
    BY DEF Account, Things
  <1>8. /\ \A u \in Things : q.live[d][u] = IF u = r THEN 1 ELSE p.live[d][u]
        /\ \A u \in Things : q.ptr[d][u] = IF u = r THEN "held" ELSE p.ptr[d][u]
        /\ Locks(q) = Locks(m) \cup {<<d, r>>}
    <2>1. q.live = [m.live EXCEPT ![d][r] = 1]
      BY <1>4, <1>6, <1>7
    <2>2. /\ \A e \in Drivers, u \in Things :
               q.live[e][u] = IF e = d /\ u = r THEN 1 ELSE m.live[e][u]
          /\ \A u \in Things : q.ptr[d][u] = IF u = r THEN "held" ELSE m.ptr[d][u]
          /\ Locks(q) = Locks(m) \cup {<<d, r>>}
      <3>1. Sets(m, q, d, r, 1, "held")
        BY <1>4, <1>6, <2>1 DEF Sets
      <3>2. QED
        BY <1>4, <1>5, <1>7, <3>1, LiveChange
    <2>3. QED
      BY <1>4, <2>2
  <1>9. Locks(m) = Locks(p) /\ <<d, r>> \notin Locks(p)
    BY <1>4, <1>7 DEF Locks
  <1>10. /\ Locks(p) \subseteq Uses[p.world] \X Regions /\ Locks(q) \subseteq Uses[p.world] \X Regions
         /\ p.memLocks = Cardinality(Locks(p))
    BY <1>8, <1>9 DEF Account, Booked
  <1>11. Cardinality(Locks(q)) = Cardinality(Locks(p)) + 1
    <2>1. IsFiniteSet(Locks(p))
      BY <1>10, LocksRoom
    <2> DEFINE L == Locks(p)
               x == <<d, r>>
    <2>2. IsFiniteSet(L) /\ x \notin L /\ Locks(q) = L \cup {x}
      BY <1>8, <1>9, <2>1
    <2> HIDE DEF L, x
    <2>3. Cardinality(Locks(q)) = Cardinality(L) + 1
      BY <2>2, FS_AddElement
    <2>4. QED
      BY <2>3 DEF L
  <1>12. q.memLocks = Cardinality(Locks(q)) /\ q.memLocks # 0
    <2>1. Cardinality(Locks(q)) < Width /\ Cardinality(Locks(p)) \in Nat
      BY <1>10, LocksRoom
    <2>2. q.memLocks = (Cardinality(Locks(p)) + 1) % Width
      BY <1>4, <1>6, <1>10 DEF Up
    <2>3. (Cardinality(Locks(p)) + 1) % Width = Cardinality(Locks(p)) + 1
      BY <1>11, <2>1, WidthAssumption
    <2>4. QED
      BY <1>11, <2>1, <2>2, <2>3
  <1>13. Booked(q)
    BY <1>5, <1>10, <1>12 DEF Booked
  <1>14. QED
    BY <1>7, <1>8, <1>13 DEF Account

\* unmap_phys_mem of a mapping.
LEMMA UnmapAccount ==
  ASSUME NEW p \in Processes, Kinds(p), p.alive = "run", p.world \in Clean, NEW d \in Drivers,
         NEW r \in Regions, NEW H, NEW G, NEW R,
         Account(p, d, H, G, R), p.ptr[d][r] = "held", r \notin R,
         NEW x, x # "part", NEW q \in unmap_phys_mem(p, d, r, x)
  PROVE  Account(q, d, H, G, R \cup {r})
  <1>1. q = Unmapped(p, d, r, x)
    BY UnmapDo DEF UnmapFails
  <1>2. q \in Processes /\ Kinds(q) /\ q.world = p.world
    BY UnmapLeft, LeftTyped
  <1>3. r \in Things /\ p.live[d][r] = 1
    BY DEF Account, Things
  <1>4. /\ q.ptr = p.ptr /\ q.live = [p.live EXCEPT ![d][r] = 0]
        /\ q.memLocks = Down(p.memLocks) /\ (Down(p.memLocks) = 0 => q.memFd = NoFd)
    BY <1>1, <1>3 DEF Unmapped, Counted, Processes
  <1>5. q.ptr = [p.ptr EXCEPT ![d][r] = "held"]
    BY <1>3, <1>4 DEF Processes
  <1>6. /\ \A u \in Things : q.live[d][u] = IF u = r THEN 0 ELSE p.live[d][u]
        /\ Locks(q) = Locks(p) \ {<<d, r>>}
    <2>1. /\ \A e \in Drivers, u \in Things :
               q.live[e][u] = IF e = d /\ u = r THEN 0 ELSE p.live[e][u]
          /\ r \in Regions => Locks(q) = IF 0 = 0 THEN Locks(p) \ {<<d, r>>}
                                         ELSE Locks(p) \cup {<<d, r>>}
      <3>1. Sets(p, q, d, r, 0, "held")
        BY <1>4, <1>5 DEF Sets
      <3>2. QED
        BY <1>2, <1>3, <3>1, LiveChange
    <2>2. QED
      BY <2>1
  <1>7. <<d, r>> \in Locks(p)
    BY <1>3 DEF Locks
  <1>8. /\ Locks(p) \subseteq Uses[p.world] \X Regions /\ Locks(q) \subseteq Uses[p.world] \X Regions
        /\ p.memLocks = Cardinality(Locks(p))
    BY <1>6 DEF Account, Booked
  <1>9. Cardinality(Locks(q)) = Cardinality(Locks(p)) - 1
    <2>1. IsFiniteSet(Locks(p))
      BY <1>8, LocksRoom
    <2>2. QED
      BY <1>6, <1>7, <2>1, FS_RemoveElement
  <1>10. q.memLocks = Cardinality(Locks(q))
    <2>1. /\ Cardinality(Locks(q)) \in Nat /\ Cardinality(Locks(q)) < Width
          /\ Cardinality(Locks(p)) \in Nat
      BY <1>8, LocksRoom
    <2>2. q.memLocks = (Cardinality(Locks(p)) - 1) % Width
      BY <1>4, <1>8 DEF Down
    <2>3. Cardinality(Locks(q)) % Width = Cardinality(Locks(q))
      BY <2>1, WidthAssumption
    <2>4. QED
      BY <1>9, <2>2, <2>3
  <1>11. Booked(q)
    BY <1>2, <1>4, <1>8, <1>10 DEF Booked
  <1>12. QED
    BY <1>4, <1>6, <1>11 DEF Account

\* A block that is allocated, or freed.
LEMMA BlockAccount ==
  ASSUME NEW p \in Processes, Kinds(p), NEW d \in Drivers, NEW t \in Blocks, NEW H, H \subseteq Things,
         NEW G, NEW R, Account(p, d, H, G, R), t \notin R, NEW q
  PROVE  /\ t \notin G => \A b \in BOOLEAN : q = Alloced(p, d, t, b) => Account(q, d, H, G \cup {t}, R)
         /\ q = Freed(p, d, t) => Account(q, d, H, G, R \cup {t})
  <1>1. t \in Things
    BY DEF Things
  <1>2. ASSUME t \notin G, NEW b \in BOOLEAN, q = Alloced(p, d, t, b)
        PROVE  Account(q, d, H, G \cup {t}, R)
    <2>1. q \in Processes /\ q.world = p.world
      BY <1>2, AllocedLeft, LeftTyped
    <2>2. /\ q.ptr = [p.ptr EXCEPT ![d][t] = IF b THEN "held" ELSE "null"]
          /\ q.live = [p.live EXCEPT ![d][t] = IF b THEN p.live[d][t] + 1 ELSE p.live[d][t]]
          /\ q.memLocks = p.memLocks /\ q.memFd = p.memFd
      BY <1>2 DEF Alloced, Processes
    <2>3. p.ptr[d][t] # "held" /\ p.live[d][t] = 0
      BY <1>1, <1>2 DEF Account
    <2>4. /\ \A u \in Things : q.live[d][u] = IF u = t THEN IF b THEN 1 ELSE 0 ELSE p.live[d][u]
          /\ \A u \in Things : q.ptr[d][u] = IF u = t THEN IF b THEN "held" ELSE "null" ELSE p.ptr[d][u]
          /\ Locks(q) = Locks(p)
      <3> DEFINE n == IF b THEN 1 ELSE 0
                 v == IF b THEN "held" ELSE "null"
      <3>1. Sets(p, q, d, t, n, v)
        BY <2>2, <2>3 DEF Sets
      <3> HIDE DEF n, v
      <3>2. /\ \A e \in Drivers, u \in Things :
                 q.live[e][u] = IF e = d /\ u = t THEN n ELSE p.live[e][u]
            /\ \A u \in Things : q.ptr[d][u] = IF u = t THEN v ELSE p.ptr[d][u]
            /\ t \in Blocks => Locks(q) = Locks(p)
        BY <1>1, <2>1, <3>1, LiveChange
      <3>3. QED
        BY <3>2 DEF n, v
    <2>5. Booked(q)
      BY <2>1, <2>2, <2>4 DEF Account, Booked
    <2>6. QED
      BY <1>1, <1>2, <2>3, <2>4, <2>5 DEF Account
  <1>3. ASSUME q = Freed(p, d, t)
        PROVE  Account(q, d, H, G, R \cup {t})
    <2>1. q \in Processes /\ q.world = p.world
      BY <1>3, AllocedLeft, LeftTyped
    <2>2. p.live[d][t] = IF p.ptr[d][t] = "held" THEN 1 ELSE 0
      BY <1>1 DEF Account
    <2>3. /\ q.ptr = [p.ptr EXCEPT ![d][t] = p.ptr[d][t]]
          /\ q.live = [p.live EXCEPT ![d][t] = IF p.ptr[d][t] = "held" THEN p.live[d][t] - 1
                                               ELSE p.live[d][t]]
          /\ q.memLocks = p.memLocks /\ q.memFd = p.memFd
      BY <1>3 DEF Freed, Processes
    <2>4. /\ \A u \in Things : q.live[d][u] = IF u = t THEN 0 ELSE p.live[d][u]
          /\ \A u \in Things : q.ptr[d][u] = p.ptr[d][u]
          /\ Locks(q) = Locks(p)
      <3> DEFINE v == p.ptr[d][t]
      <3>1. Sets(p, q, d, t, 0, v)
        BY <2>2, <2>3 DEF Sets
      <3> HIDE DEF v
      <3>2. /\ \A e \in Drivers, u \in Things :
                 q.live[e][u] = IF e = d /\ u = t THEN 0 ELSE p.live[e][u]
            /\ \A u \in Things : q.ptr[d][u] = IF u = t THEN v ELSE p.ptr[d][u]
            /\ t \in Blocks => Locks(q) = Locks(p)
        BY <1>1, <2>1, <3>1, LiveChange
      <3>3. QED
        BY <3>2 DEF v
    <2>5. Booked(q)
      BY <2>1, <2>3, <2>4 DEF Account, Booked
    <2>6. QED
      BY <1>1, <2>4, <2>5 DEF Account
  <1>4. QED
    BY <1>2, <1>3

\* Bus mastering and the account.
LEMMA AccountMore ==
  ASSUME NEW p, NEW d, NEW H, NEW G, NEW R, Account(p, d, H, G, R), NEW M, G \subseteq M
  PROVE  Account(p, d, H, M, R)
  BY DEF Account

LEMMA MastersAccount ==
  ASSUME NEW n \in Processes, Kinds(n), NEW d \in Drivers, NEW t \in Blocks, NEW b \in BOOLEAN,
         NEW H, H \subseteq Things, NEW G, NEW R, Account(n, d, H, G, R), t \notin G, t \notin R,
         NEW q, q = Masters(Alloced(n, d, t, b), d, b)
  PROVE  Account(q, d, H, G \cup {t}, R)
  <1> DEFINE a == Alloced(n, d, t, b)
  <1>1. a \in Processes /\ Kinds(a) /\ a.world = n.world
    BY AllocedLeft, LeftTyped
  <1>2. Account(a, d, H, G \cup {t}, R)
    BY BlockAccount
  <1> HIDE DEF a
  <1>3. q = Masters(a, d, b)
    BY DEF a
  <1>4. Still(a, q) /\ q.world = a.world
    <2>1. Still(a, Masters(a, d, b))
      BY <1>1, SaysStill
    <2>2. q.world = a.world
      BY <1>1, <1>3 DEF Masters, Processes
    <2>3. QED
      BY <1>3, <2>1, <2>2
  <1>5. QED
    BY <1>2, <1>4, StillAccount

LEMMA BmTableAccount ==
  ASSUME NEW p \in Processes, Kinds(p), p.alive = "run", NEW d \in Drivers,
         FALSE \notin Works[p.world]["version"], NEW H, H \subseteq Things, NEW G, NEW R,
         Account(p, d, H, G, R), "table" \notin G, "table" \notin R, NEW q \in BmTable(p, d)
  PROVE  Account(q, d, H, G \cup {"table"}, R)
  <1>1. PICK n \in bm_open(p) :
           \/ ~n.ok /\ q = n
           \/ /\ n.ok
              /\ \E b \in BOOLEAN : q = Masters(Alloced(n, d, "table", b), d, b)
    BY BmTableDo
  <1>2. n \in Processes /\ Kinds(n) /\ n.world = p.world /\ Still(p, n)
    BY BmOpenStill, BmOpenLeft, LeftTyped
  <1>3. Account(n, d, H, G, R)
    BY <1>2, StillAccount
  <1>4. CASE q = n
    BY <1>3, <1>4, AccountMore
  <1>5. ASSUME NEW b \in BOOLEAN, q = Masters(Alloced(n, d, "table", b), d, b)
        PROVE  Account(q, d, H, G \cup {"table"}, R)
    <2>1. "table" \in Blocks
      BY DEF Blocks
    <2>2. QED
      BY <1>2, <1>3, <1>5, <2>1, MastersAccount
  <1>6. QED
    BY <1>1, <1>4, <1>5

LEMMA BmAccount ==
  ASSUME NEW p \in Processes, Kinds(p), p.alive = "run", NEW d \in Drivers,
         FALSE \notin Works[p.world]["version"], NEW H, H \subseteq Things, NEW G, NEW R,
         Account(p, d, H, G, R), NEW s, IsBm(s), Gain(s) \cap (G \cup R) = {},
         NEW q \in Calling(d, s, p)
  PROVE  Account(q, d, H, G \cup Gain(s), R)
  <1>1. s[1] \in {"bmTable", "bmLists"} => Blocks \subseteq Gain(s) /\ Blocks \cap (G \cup R) = {}
    BY DEF Gain
  <1>2. "table" \in Blocks /\ "block" \in Blocks /\ "table" # "block"
    BY DEF Blocks
  <1>3. CASE s[1] = "bmTable"
    <2>1. q \in BmTable(p, d)
      BY <1>3 DEF Calling
    <2>2. Account(q, d, H, G \cup {"table"}, R)
      BY <1>1, <1>2, <1>3, <2>1, BmTableAccount
    <2>3. G \cup {"table"} \subseteq G \cup Gain(s)
      BY <1>1, <1>2, <1>3
    <2>4. QED
      BY <2>2, <2>3, AccountMore
  <1>4. CASE s[1] = "bmLists"
    <2>1. q \in BmLists(p, d)
      BY <1>4 DEF Calling
    <2>2. PICK n \in BmTable(p, d) :
           \/ ~n.dma[d] /\ q = n
           \/ /\ n.dma[d]
              /\ \E b \in BOOLEAN : q = Masters(Alloced(n, d, "block", b), d, b)
      <3>1. ListsMade(p, d, q)
        BY <2>1, BmListsDo
      <3>2. QED
        BY <3>1 DEF ListsMade
    <2>3. n \in Processes /\ Kinds(n)
      BY BmTableLeft, LeftTyped
    <2>4. Account(n, d, H, G \cup {"table"}, R)
      BY <1>1, <1>2, <1>4, BmTableAccount
    <2>5. G \cup {"table"} \subseteq G \cup Gain(s) /\ (G \cup {"table"}) \cup {"block"} \subseteq G \cup Gain(s)
      BY <1>1, <1>2, <1>4
    <2>6. CASE q = n
      BY <2>4, <2>5, <2>6, AccountMore
    <2>7. ASSUME NEW b \in BOOLEAN, q = Masters(Alloced(n, d, "block", b), d, b)
          PROVE  Account(q, d, H, G \cup Gain(s), R)
      <3>1. "block" \notin G \cup {"table"} /\ "block" \notin R
        BY <1>1, <1>2, <1>4
      <3>2. Account(q, d, H, (G \cup {"table"}) \cup {"block"}, R)
        BY <1>2, <2>3, <2>4, <2>7, <3>1, MastersAccount
      <3>3. QED
        BY <2>5, <3>2, AccountMore
    <2>8. QED
      BY <2>2, <2>6, <2>7
  <1>5. CASE s[1] = "bmIrq"
    <2>1. q \in BmIrq(p, d)
      BY <1>5 DEF Calling
    <2>2. PICK n \in bm_open(p) :
           \/ ~n.ok /\ q = n
           \/ /\ n.ok
              /\ \E r \in hwirq_install(n, d) :
                   q = IF r.ptr[d]["ctl"] = "held" THEN Masters(r, d, TRUE) ELSE Faults(r)
      BY <2>1, BmIrqDo
    <2>3. n \in Processes /\ Kinds(n) /\ n.world = p.world /\ Still(p, n)
      BY BmOpenStill, BmOpenLeft, LeftTyped
    <2>4. ASSUME NEW r \in hwirq_install(n, d),
                 q = IF r.ptr[d]["ctl"] = "held" THEN Masters(r, d, TRUE) ELSE Faults(r)
          PROVE  Still(n, q) /\ q.world = n.world
      <3>1. Still(n, r) /\ r \in Processes /\ r.world = n.world
        BY <2>3, InstallStill, InstallLeft, LeftTyped
      <3>2. Still(r, q) /\ q.world = r.world
        BY <2>4, <3>1, SaysStill DEF Masters, Faults, Processes
      <3>3. QED
        BY <3>1, <3>2, StillThen
    <2>5. Still(p, q) /\ q.world = p.world
      <3>1. q = n \/ (Still(n, q) /\ q.world = n.world)
        BY <2>2, <2>4
      <3>2. QED
        BY <2>3, <3>1, StillThen
    <2>6. Account(q, d, H, G, R)
      BY <2>5, StillAccount
    <2>7. QED
      BY <2>6, AccountMore
  <1>6. QED
    BY <1>3, <1>4, <1>5 DEF IsBm

\* A call of a driver that gives back what it obtains.
LEMMA CallAccount ==
  ASSUME NEW p \in Processes, Kinds(p), p.alive = "run", p.world \in Clean, NEW d \in Drivers,
         d \in Uses[p.world], NEW s, Made(d, s), s[1] \notin {"unmapIf", "memory"},
         NEW H, H \subseteq Things, NEW G, NEW R, Account(p, d, H, G, R),
         Gain(s) \cap (G \cup R) = {}, Loss(s) \cap R = {},
         s[1] \in {"unmap", "unmapSized"} => s[2] \in H,
         NEW q \in Calling(d, s, p), q.alive = "run"
  PROVE  Account(q, d, H, G \cup Gain(s), R \cup Loss(s))
  <1>1. CASE IsBm(s)
    <2>1. d \in Openers /\ Loss(s) = {}
      BY <1>1 DEF Made, IsBm, IsPlain, Loss
    <2>2. FALSE \notin Works[p.world]["version"]
      BY <2>1, UsesFinite, VersionAssumption
    <2>3. Account(q, d, H, G \cup Gain(s), R)
      BY <1>1, <2>2, BmAccount
    <2>4. R \cup Loss(s) = R
      BY <2>1
    <2>5. QED
      BY <2>3, <2>4
  <1>2. CASE Neutral(s)
    <2>1. Gain(s) = {} /\ Loss(s) = {}
      BY <1>2 DEF Gain, Loss, Obtains, Neutral
    <2>2. Still(p, q)
      BY <1>2, NeutralStill
    <2>3. q.world = p.world
      <3>1. CASE s[1] = "bmClose"
        <4>1. q \in bm_close(p)
          BY <3>1 DEF Calling
        <4>2. QED
          BY <4>1 DEF bm_close, CloseFd, Processes
      <3>2. CASE IsPlain(s)
        BY <3>2, PlainCall DEF Left
      <3>3. QED
        BY <1>2, <3>1, <3>2 DEF Made, Neutral, IsBm
    <2>4. Account(q, d, H, G, R) /\ G \cup Gain(s) = G /\ R \cup Loss(s) = R
      BY <2>1, <2>2, <2>3, StillAccount
    <2>5. QED
      BY <2>4
  <1>3. CASE s[1] \in {"map", "mapOr"}
    <2>1. s[2] \in Regions /\ q \in map_phys_mem(p, d, s[2])
      BY <1>3 DEF Made, IsPlain, IsBm, Calling
    <2>2. Gain(s) = {s[2]} /\ Loss(s) = {}
      BY <1>3 DEF Gain, Loss, Obtains
    <2>3. s[2] \notin G /\ s[2] \notin R
      BY <2>2
    <2>4. Account(q, d, H, G \cup {s[2]}, R)
      BY <2>1, <2>3, MapAccount
    <2>5. R \cup Loss(s) = R
      BY <2>2
    <2>6. QED
      BY <2>2, <2>4, <2>5
  <1>4. CASE s[1] \in {"unmap", "unmapSized"}
    <2>1. s[2] \in Regions /\ s[2] \in H
      BY <1>4 DEF Made, IsPlain, IsBm
    <2>2. \E x \in {"all", "sized"} : q \in unmap_phys_mem(p, d, s[2], x)
      BY <1>4 DEF Calling
    <2>3. Gain(s) = {} /\ Loss(s) = {s[2]}
      BY <1>4 DEF Gain, Loss, Obtains
    <2>4. s[2] \notin R /\ p.ptr[d][s[2]] = "held"
      BY <2>1, <2>3 DEF Account
    <2>5. Account(q, d, H, G, R \cup {s[2]})
      BY <2>1, <2>2, <2>4, UnmapAccount
    <2>6. G \cup Gain(s) = G
      BY <2>3
    <2>7. QED
      BY <2>3, <2>5, <2>6
  <1>5. CASE s[1] \in {"alloc", "allocOr"}
    <2>1. s[2] \in Blocks /\ q \in alloc(p, d, s[2])
      BY <1>5 DEF Made, IsPlain, IsBm, Calling
    <2>2. PICK b \in BOOLEAN : q = Alloced(p, d, s[2], b)
      BY <2>1, AllocDo
    <2>3. Gain(s) = {s[2]} /\ Loss(s) = {}
      BY <1>5 DEF Gain, Loss, Obtains
    <2>4. s[2] \notin G /\ s[2] \notin R
      BY <2>3
    <2>5. Account(q, d, H, G \cup {s[2]}, R)
      BY <2>1, <2>2, <2>4, BlockAccount
    <2>6. R \cup Loss(s) = R
      BY <2>3
    <2>7. QED
      BY <2>3, <2>5, <2>6
  <1>6. CASE s[1] = "free"
    <2>1. s[2] \in Blocks /\ q = Freed(p, d, s[2])
      BY <1>6 DEF Made, IsPlain, IsBm, Calling, free, Freed
    <2>2. Gain(s) = {} /\ Loss(s) = {s[2]}
      BY <1>6 DEF Gain, Loss, Obtains
    <2>3. s[2] \notin R
      BY <2>2
    <2>4. Account(q, d, H, G, R \cup {s[2]})
      BY <2>1, <2>3, BlockAccount
    <2>5. G \cup Gain(s) = G
      BY <2>2
    <2>6. QED
      BY <2>2, <2>4, <2>5
  <1>7. QED
    BY <1>1, <1>2, <1>3, <1>4, <1>5, <1>6 DEF Made, IsPlain, Neutral

\* The first calls of a handler and the next one.
LEMMA Sums ==
  ASSUME NEW script, Len(script) \in Nat, NEW i \in 1 .. Len(script),
         Gain(script[i]) \cup Loss(script[i]) \subseteq Things
  PROVE  /\ Gained(script, i) = Gained(script, i - 1) \cup Gain(script[i])
         /\ Released(script, i) = Released(script, i - 1) \cup Loss(script[i])
  <1>1. 1 .. i = (1 .. i - 1) \cup {i}
    OBVIOUS
  <1>2. \A t : t \in Gained(script, i) <=> t \in Gained(script, i - 1) \cup Gain(script[i])
    BY <1>1 DEF Gained
  <1>3. \A t : t \in Released(script, i) <=> t \in Released(script, i - 1) \cup Loss(script[i])
    BY <1>1 DEF Released
  <1>4. QED
    BY <1>2, <1>3

\* What such a call leaves alone.
LEMMA MadeLeft ==
  ASSUME NEW p \in Processes, Kinds(p), p.alive = "run", NEW d \in Drivers, NEW s, Made(d, s),
         p.world \in Clean, d \in Uses[p.world], s[1] = "bmClose" => BmKept(p),
         NEW q \in Calling(d, s, p)
  PROVE  Left(p, q, d) /\ (BmKept(p) /\ s[1] # "bmClose" => BmKept(q))
  <1>1. CASE IsBm(s)
    <2>1. d \in Openers
      BY <1>1 DEF Made, IsBm, IsPlain
    <2>2. FALSE \notin Works[p.world]["version"]
      BY <2>1, UsesFinite, VersionAssumption
    <2>3. QED
      BY <1>1, <2>1, <2>2, BmCall
  <1>2. CASE s[1] = "bmClose"
    <2>1. q \in bm_close(p)
      BY <1>2 DEF Calling
    <2>2. QED
      BY <1>2, <2>1, BmCloseDo
  <1>3. CASE IsPlain(s)
    <2>1. Left(p, q, d) /\ Plain(p, q) /\ q \in Processes
      BY <1>3, PlainCall, LeftTyped
    <2>2. QED
      BY <2>1, PlainKeeps
  <1>4. QED
    BY <1>1, <1>2, <1>3 DEF Made

LEMMA AccountRun ==
  ASSUME NEW p \in Processes, Kinds(p), p.alive = "run", NEW d \in Drivers,
         p.world \in Clean, d \in Uses[p.world], NEW script, Len(script) \in Nat,
         Built(d, script), (\E i \in 1 .. Len(script) : script[i][1] = "bmClose") => BmKept(p),
         NEW H, H \subseteq Things, NEW G, Balanced(script, H, G), Account(p, d, H, G, {}),
         NEW r \in Run(d, script, p)
  PROVE  /\ r.done => Account(r.p, d, H, G \cup Gained(script, Len(script)),
                              Released(script, Len(script)))
         /\ ~r.done /\ r.p.alive = "run" => \E i \in 1 .. Len(script) : script[i][1] \in Stops
  <1> DEFINE N == Len(script)
             X == {q \in Processes : q.alive = "run" => \E i \in 1 .. N : script[i][1] \in Stops}
             S == [i \in 0 .. N |->
                    {q \in Processes :
                       /\ Left(p, q, d)
                       /\ BmKept(p) /\ Unclosed(script, i) => BmKept(q)
                       /\ Account(q, d, H, G \cup Gained(script, i), Released(script, i))}]
  <1>1. ASSUME NEW i \in 1 .. N, NEW q \in S[i - 1], q.alive = "run",
               NEW t \in Calling(d, script[i], q)
        PROVE  IF t.alive = "run" /\ (t.ok \/ script[i][1] \notin Stops)
               THEN t \in S[i] ELSE t \in X
    <2>1. /\ S[i - 1] = {x \in Processes :
                           /\ Left(p, x, d)
                           /\ BmKept(p) /\ Unclosed(script, i - 1) => BmKept(x)
                           /\ Account(x, d, H, G \cup Gained(script, i - 1), Released(script, i - 1))}
          /\ S[i] = {x \in Processes :
                       /\ Left(p, x, d)
                       /\ BmKept(p) /\ Unclosed(script, i) => BmKept(x)
                       /\ Account(x, d, H, G \cup Gained(script, i), Released(script, i))}
      OBVIOUS
    <2> HIDE DEF S
    <2>2. /\ q \in Processes /\ Kinds(q) /\ q.world = p.world /\ Left(p, q, d)
          /\ BmKept(p) /\ Unclosed(script, i - 1) => BmKept(q)
          /\ Account(q, d, H, G \cup Gained(script, i - 1), Released(script, i - 1))
      BY <2>1, LeftTyped
    <2>3. /\ Made(d, script[i])
          /\ script[i][1] = "bmClose" => Unclosed(script, i - 1) /\ BmKept(p)
      BY DEF Built
    <2>4. /\ Left(q, t, d)
          /\ BmKept(q) /\ script[i][1] # "bmClose" => BmKept(t)
      BY <1>1, <2>2, <2>3, MadeLeft
    <2>5. t \in Processes /\ Left(p, t, d)
      BY <2>2, <2>4, LeftThen, LeftTyped
    <2>6. Unclosed(script, i) => script[i][1] # "bmClose" /\ Unclosed(script, i - 1)
      BY DEF Unclosed
    <2>7. BmKept(p) /\ Unclosed(script, i) => BmKept(t)
      BY <2>2, <2>4, <2>6
    <2>8. t.alive = "run" =>
            Account(t, d, H, G \cup Gained(script, i), Released(script, i))
      <3> SUFFICES ASSUME t.alive = "run"
                   PROVE  Account(t, d, H, G \cup Gained(script, i), Released(script, i))
        OBVIOUS
      <3> DEFINE g == G \cup Gained(script, i - 1)
                 l == Released(script, i - 1)
      <3>1. /\ script[i][1] \notin {"unmapIf", "memory"}
            /\ Gain(script[i]) \cup Loss(script[i]) \subseteq Things
            /\ Gain(script[i]) \cap (g \cup l) = {}
            /\ Loss(script[i]) \cap l = {}
            /\ script[i][1] \in {"unmap", "unmapSized"} => script[i][2] \in H
        BY DEF Balanced
      <3>2. /\ G \cup Gained(script, i) = g \cup Gain(script[i])
            /\ Released(script, i) = l \cup Loss(script[i])
        BY <3>1, Sums
      <3>3. Account(q, d, H, g, l)
        BY <2>2
      <3> HIDE DEF g, l
      <3>4. Account(t, d, H, g \cup Gain(script[i]), l \cup Loss(script[i]))
        BY <1>1, <2>2, <2>3, <3>1, <3>3, CallAccount
      <3>5. QED
        BY <3>2, <3>4
    <2>9. t.alive = "run" => t \in S[i]
      BY <2>1, <2>4, <2>5, <2>7, <2>8
    <2>10. t.alive # "run" \/ script[i][1] \in Stops => t \in X
      BY <2>5
    <2>11. QED
      BY <2>9, <2>10
  <1>2. p \in S[0]
    <2>1. Left(p, p, d)
      BY LeftSame
    <2>2. G \cup Gained(script, 0) = G /\ Released(script, 0) = {}
      BY DEF Gained, Released
    <2>3. 0 \in 0 .. N
      OBVIOUS
    <2>4. Account(p, d, H, G \cup Gained(script, 0), Released(script, 0))
      BY <2>2
    <2>5. QED
      BY <2>1, <2>3, <2>4
  <1>3. \A q \in S[N] : Account(q, d, H, G \cup Gained(script, N), Released(script, N))
    OBVIOUS
  <1>4. \A q \in X : q.alive = "run" => \E i \in 1 .. N : script[i][1] \in Stops
    OBVIOUS
  <1>5. N \in Nat
    OBVIOUS
  <1> HIDE DEF S, X
  <1>6. \A t \in Run(d, script, p) : Ends(p, t, S[N], X)
    BY <1>1, <1>2, <1>5, Unrolled
  <1>7. IF r.done THEN r.p \in S[N] ELSE r.p \in X
    BY <1>6 DEF Ends
  <1>8. QED
    BY <1>3, <1>4, <1>7

\* A handler that obtains nothing and gives nothing back.
LEMMA StillRun ==
  ASSUME NEW p \in Processes, Kinds(p), p.alive = "run", NEW d \in Drivers,
         NEW script, Len(script) \in Nat,
         \A i \in 1 .. Len(script) : Neutral(script[i]) /\ IsPlain(script[i]),
         NEW r \in Run(d, script, p)
  PROVE  Still(p, r.p)
  <1> DEFINE N == Len(script)
             X == {q \in Processes : Left(p, q, d) /\ Still(p, q)}
             S == [i \in 0 .. N |-> X]
  <1>1. ASSUME NEW i \in 1 .. N, NEW q \in S[i - 1], q.alive = "run",
               NEW t \in Calling(d, script[i], q)
        PROVE  IF t.alive = "run" /\ (t.ok \/ script[i][1] \notin Stops)
               THEN t \in S[i] ELSE t \in X
    <2>1. S[i - 1] = X /\ S[i] = X
      OBVIOUS
    <2> HIDE DEF S
    <2>2. q \in Processes /\ Kinds(q) /\ Left(p, q, d) /\ Still(p, q)
      BY <2>1, LeftTyped
    <2>3. Neutral(script[i]) /\ IsPlain(script[i])
      OBVIOUS
    <2>4. Left(q, t, d)
      BY <1>1, <2>2, <2>3, PlainCall
    <2>5. Still(q, t)
      BY <1>1, <2>2, <2>3, NeutralStill
    <2>6. t \in X
      BY <2>2, <2>4, <2>5, LeftTyped, LeftThen, StillThen
    <2>7. QED
      BY <2>1, <2>6
  <1>2. p \in X
    BY LeftSame DEF Still
  <1>3. S[0] = X /\ S[N] = X
    OBVIOUS
  <1>4. p \in S[0] /\ N \in Nat
    <2> HIDE DEF X
    <2> QED BY <1>2, <1>3
  <1> HIDE DEF S, X
  <1>5. \A t \in Run(d, script, p) : Ends(p, t, S[N], X)
    BY <1>1, <1>4, Unrolled
  <1>6. r.p \in X
    BY <1>2, <1>3, <1>5 DEF Ends
  <1>7. QED
    BY <1>6 DEF X

\* The things, and that they differ.
LEMMA Thing ==
  /\ Things = {"ctl", "mem", "block", "table"} /\ "ctl" # "mem" /\ "ctl" # "block"
  /\ "ctl" # "table" /\ "mem" # "block" /\ "mem" # "table" /\ "block" # "table"
  BY DEF Things, Regions, Blocks

\* vixDestroy gives back what vixInit may have obtained, each thing once.
LEMMA TidyBalanced ==
  ASSUME NEW d \in Tidy
  PROVE  /\ Balanced(InitOf[d], {}, {})
         /\ Balanced(DestroyOf[d], All(InitOf[d]), Gained(InitOf[d], Len(InitOf[d])))
         /\ Released(InitOf[d], Len(InitOf[d])) = {}
         /\ Gained(DestroyOf[d], Len(DestroyOf[d])) = {}
         /\ Gained(InitOf[d], Len(InitOf[d])) \subseteq Released(DestroyOf[d], Len(DestroyOf[d]))
  <1>1. CASE d = "cyberblade"
    <2> DEFINE I == InitOf[d]
               D == DestroyOf[d]
    <2>1. /\ Len(I) = 3
          /\ Gain(I[1]) = {"mem"} /\ Loss(I[1]) = {}
          /\ Gain(I[2]) = {} /\ Loss(I[2]) = {}
          /\ Gain(I[3]) = {} /\ Loss(I[3]) = {}
          /\ \A i \in 1 .. 3 : I[i][1] \notin {"unmapIf", "memory", "unmap", "unmapSized"}
      BY <1>1 DEF InitOf, CyberbladeInit, Gain, Loss, Obtains, Blocks
    <2>2. /\ Len(D) = 3
          /\ Gain(D[1]) = {} /\ Loss(D[1]) = {}
          /\ D[1][1] = "ports"
          /\ Gain(D[2]) = {} /\ Loss(D[2]) = {}
          /\ D[2][1] = "disable"
          /\ Gain(D[3]) = {} /\ Loss(D[3]) = {"mem"}
          /\ D[3][1] = "unmap" /\ D[3][2] = "mem"
      BY <1>1 DEF DestroyOf, CyberbladeDestroy, Gain, Loss, Obtains, Blocks
    <2>3. All(I) = {"mem"}
      BY <1>1, Thing DEF InitOf, CyberbladeInit, All, Obtained, Obtains
    <2> HIDE DEF I, D
    <2>4. Gained(I, 3) = {"mem"} /\ Released(I, 3) = {}
      BY <2>1, Thing DEF Gained, Released
    <2>5. Gained(D, 3) = {} /\ Released(D, 3) = {"mem"}
      BY <2>2, Thing DEF Gained, Released
    <2>6. Balanced(I, {}, {})
      BY <2>1, Thing DEF Balanced, Gained, Released
    <2>7. Balanced(D, All(I), Gained(I, Len(I)))
      BY <2>1, <2>2, <2>3, <2>4, Thing DEF Balanced, Gained, Released
    <2>8. QED
      BY <2>1, <2>2, <2>4, <2>5, <2>6, <2>7 DEF I, D
  <1>2. CASE d = "mach64"
    <2> DEFINE I == InitOf[d]
               D == DestroyOf[d]
    <2>1. /\ Len(I) = 5
          /\ Gain(I[1]) = {"ctl"} /\ Loss(I[1]) = {}
          /\ Gain(I[2]) = {} /\ Loss(I[2]) = {}
          /\ Gain(I[3]) = {"mem"} /\ Loss(I[3]) = {}
          /\ Gain(I[4]) = {} /\ Loss(I[4]) = {}
          /\ Gain(I[5]) = {"block", "table"} /\ Loss(I[5]) = {}
          /\ \A i \in 1 .. 5 : I[i][1] \notin {"unmapIf", "memory", "unmap", "unmapSized"}
      BY <1>2 DEF InitOf, Mach64Init, Gain, Loss, Obtains, Blocks
    <2>2. /\ Len(D) = 7
          /\ Gain(D[1]) = {} /\ Loss(D[1]) = {}
          /\ D[1][1] = "regs" /\ D[1][2] = "ctl"
          /\ Gain(D[2]) = {} /\ Loss(D[2]) = {"mem"}
          /\ D[2][1] = "unmapSized" /\ D[2][2] = "mem"
          /\ Gain(D[3]) = {} /\ Loss(D[3]) = {"ctl"}
          /\ D[3][1] = "unmap" /\ D[3][2] = "ctl"
          /\ Gain(D[4]) = {} /\ Loss(D[4]) = {}
          /\ D[4][1] = "bmClose"
          /\ Gain(D[5]) = {} /\ Loss(D[5]) = {}
          /\ D[5][1] = "uninstallIf"
          /\ Gain(D[6]) = {} /\ Loss(D[6]) = {"table"}
          /\ D[6][1] = "free" /\ D[6][2] = "table"
          /\ Gain(D[7]) = {} /\ Loss(D[7]) = {"block"}
          /\ D[7][1] = "free" /\ D[7][2] = "block"
      BY <1>2 DEF DestroyOf, Mach64Destroy, Gain, Loss, Obtains, Blocks
    <2>3. All(I) = {"ctl", "mem"}
      BY <1>2, Thing DEF InitOf, Mach64Init, All, Obtained, Obtains
    <2> HIDE DEF I, D
    <2>4. Gained(I, 5) = {"block", "ctl", "mem", "table"} /\ Released(I, 5) = {}
      BY <2>1, Thing DEF Gained, Released
    <2>5. Gained(D, 7) = {} /\ Released(D, 7) = {"block", "ctl", "mem", "table"}
      BY <2>2, Thing DEF Gained, Released
    <2>6. Balanced(I, {}, {})
      BY <2>1, Thing DEF Balanced, Gained, Released
    <2>7. Balanced(D, All(I), Gained(I, Len(I)))
      BY <2>1, <2>2, <2>3, <2>4, Thing DEF Balanced, Gained, Released
    <2>8. QED
      BY <2>1, <2>2, <2>4, <2>5, <2>6, <2>7 DEF I, D
  <1>3. CASE d = "nvidia"
    <2> DEFINE I == InitOf[d]
               D == DestroyOf[d]
    <2>1. /\ Len(I) = 6
          /\ Gain(I[1]) = {"block"} /\ Loss(I[1]) = {}
          /\ Gain(I[2]) = {} /\ Loss(I[2]) = {}
          /\ Gain(I[3]) = {"ctl"} /\ Loss(I[3]) = {}
          /\ Gain(I[4]) = {} /\ Loss(I[4]) = {}
          /\ Gain(I[5]) = {"mem"} /\ Loss(I[5]) = {}
          /\ Gain(I[6]) = {} /\ Loss(I[6]) = {}
          /\ \A i \in 1 .. 6 : I[i][1] \notin {"unmapIf", "memory", "unmap", "unmapSized"}
      BY <1>3 DEF InitOf, NvidiaInit, Gain, Loss, Obtains, Blocks
    <2>2. /\ Len(D) = 3
          /\ Gain(D[1]) = {} /\ Loss(D[1]) = {"ctl"}
          /\ D[1][1] = "unmap" /\ D[1][2] = "ctl"
          /\ Gain(D[2]) = {} /\ Loss(D[2]) = {"mem"}
          /\ D[2][1] = "unmap" /\ D[2][2] = "mem"
          /\ Gain(D[3]) = {} /\ Loss(D[3]) = {"block"}
          /\ D[3][1] = "free" /\ D[3][2] = "block"
      BY <1>3 DEF DestroyOf, NvidiaDestroy, Gain, Loss, Obtains, Blocks
    <2>3. All(I) = {"block", "ctl", "mem"}
      BY <1>3, Thing DEF InitOf, NvidiaInit, All, Obtained, Obtains
    <2> HIDE DEF I, D
    <2>4. Gained(I, 6) = {"block", "ctl", "mem"} /\ Released(I, 6) = {}
      BY <2>1, Thing DEF Gained, Released
    <2>5. Gained(D, 3) = {} /\ Released(D, 3) = {"block", "ctl", "mem"}
      BY <2>2, Thing DEF Gained, Released
    <2>6. Balanced(I, {}, {})
      BY <2>1, Thing DEF Balanced, Gained, Released
    <2>7. Balanced(D, All(I), Gained(I, Len(I)))
      BY <2>1, <2>2, <2>3, <2>4, Thing DEF Balanced, Gained, Released
    <2>8. QED
      BY <2>1, <2>2, <2>4, <2>5, <2>6, <2>7 DEF I, D
  <1>4. CASE d = "pm2"
    <2> DEFINE I == InitOf[d]
               D == DestroyOf[d]
    <2>1. /\ Len(I) = 2
          /\ Gain(I[1]) = {"ctl"} /\ Loss(I[1]) = {}
          /\ Gain(I[2]) = {"mem"} /\ Loss(I[2]) = {}
          /\ \A i \in 1 .. 2 : I[i][1] \notin {"unmapIf", "memory", "unmap", "unmapSized"}
      BY <1>4 DEF InitOf, Pm2Init, Gain, Loss, Obtains, Blocks
    <2>2. /\ Len(D) = 2
          /\ Gain(D[1]) = {} /\ Loss(D[1]) = {"ctl"}
          /\ D[1][1] = "unmap" /\ D[1][2] = "ctl"
          /\ Gain(D[2]) = {} /\ Loss(D[2]) = {"mem"}
          /\ D[2][1] = "unmap" /\ D[2][2] = "mem"
      BY <1>4 DEF DestroyOf, Pm2Destroy, Gain, Loss, Obtains, Blocks
    <2>3. All(I) = {"ctl", "mem"}
      BY <1>4, Thing DEF InitOf, Pm2Init, All, Obtained, Obtains
    <2> HIDE DEF I, D
    <2>4. Gained(I, 2) = {"ctl", "mem"} /\ Released(I, 2) = {}
      BY <2>1, Thing DEF Gained, Released
    <2>5. Gained(D, 2) = {} /\ Released(D, 2) = {"ctl", "mem"}
      BY <2>2, Thing DEF Gained, Released
    <2>6. Balanced(I, {}, {})
      BY <2>1, Thing DEF Balanced, Gained, Released
    <2>7. Balanced(D, All(I), Gained(I, Len(I)))
      BY <2>1, <2>2, <2>3, <2>4, Thing DEF Balanced, Gained, Released
    <2>8. QED
      BY <2>1, <2>2, <2>4, <2>5, <2>6, <2>7 DEF I, D
  <1>5. CASE d = "pm3"
    <2> DEFINE I == InitOf[d]
               D == DestroyOf[d]
    <2>1. /\ Len(I) = 4
          /\ Gain(I[1]) = {"ctl"} /\ Loss(I[1]) = {}
          /\ Gain(I[2]) = {"mem"} /\ Loss(I[2]) = {}
          /\ Gain(I[3]) = {} /\ Loss(I[3]) = {}
          /\ Gain(I[4]) = {} /\ Loss(I[4]) = {}
          /\ \A i \in 1 .. 4 : I[i][1] \notin {"unmapIf", "memory", "unmap", "unmapSized"}
      BY <1>5 DEF InitOf, Pm3Init, Gain, Loss, Obtains, Blocks
    <2>2. /\ Len(D) = 5
          /\ Gain(D[1]) = {} /\ Loss(D[1]) = {}
          /\ D[1][1] = "regs" /\ D[1][2] = "ctl"
          /\ Gain(D[2]) = {} /\ Loss(D[2]) = {"ctl"}
          /\ D[2][1] = "unmap" /\ D[2][2] = "ctl"
          /\ Gain(D[3]) = {} /\ Loss(D[3]) = {"mem"}
          /\ D[3][1] = "unmap" /\ D[3][2] = "mem"
          /\ Gain(D[4]) = {} /\ Loss(D[4]) = {}
          /\ D[4][1] = "uninstall"
          /\ Gain(D[5]) = {} /\ Loss(D[5]) = {}
          /\ D[5][1] = "bmClose"
      BY <1>5 DEF DestroyOf, Pm3Destroy, Gain, Loss, Obtains, Blocks
    <2>3. All(I) = {"ctl", "mem"}
      BY <1>5, Thing DEF InitOf, Pm3Init, All, Obtained, Obtains
    <2> HIDE DEF I, D
    <2>4. Gained(I, 4) = {"ctl", "mem"} /\ Released(I, 4) = {}
      BY <2>1, Thing DEF Gained, Released
    <2>5. Gained(D, 5) = {} /\ Released(D, 5) = {"ctl", "mem"}
      BY <2>2, Thing DEF Gained, Released
    <2>6. Balanced(I, {}, {})
      BY <2>1, Thing DEF Balanced, Gained, Released
    <2>7. Balanced(D, All(I), Gained(I, Len(I)))
      BY <2>1, <2>2, <2>3, <2>4, Thing DEF Balanced, Gained, Released
    <2>8. QED
      BY <2>1, <2>2, <2>4, <2>5, <2>6, <2>7 DEF I, D
  <1>6. CASE d = "radeonhd"
    <2> DEFINE I == InitOf[d]
               D == DestroyOf[d]
    <2>1. /\ Len(I) = 4
          /\ Gain(I[1]) = {"ctl"} /\ Loss(I[1]) = {}
          /\ Gain(I[2]) = {} /\ Loss(I[2]) = {}
          /\ Gain(I[3]) = {"mem"} /\ Loss(I[3]) = {}
          /\ Gain(I[4]) = {} /\ Loss(I[4]) = {}
          /\ \A i \in 1 .. 4 : I[i][1] \notin {"unmapIf", "memory", "unmap", "unmapSized"}
      BY <1>6 DEF InitOf, RadeonhdInit, Gain, Loss, Obtains, Blocks
    <2>2. /\ Len(D) = 3
          /\ Gain(D[1]) = {} /\ Loss(D[1]) = {"mem"}
          /\ D[1][1] = "unmapSized" /\ D[1][2] = "mem"
          /\ Gain(D[2]) = {} /\ Loss(D[2]) = {"ctl"}
          /\ D[2][1] = "unmap" /\ D[2][2] = "ctl"
          /\ Gain(D[3]) = {} /\ Loss(D[3]) = {}
          /\ D[3][1] = "bmClose"
      BY <1>6 DEF DestroyOf, RadeonhdDestroy, Gain, Loss, Obtains, Blocks
    <2>3. All(I) = {"ctl", "mem"}
      BY <1>6, Thing DEF InitOf, RadeonhdInit, All, Obtained, Obtains
    <2> HIDE DEF I, D
    <2>4. Gained(I, 4) = {"ctl", "mem"} /\ Released(I, 4) = {}
      BY <2>1, Thing DEF Gained, Released
    <2>5. Gained(D, 3) = {} /\ Released(D, 3) = {"ctl", "mem"}
      BY <2>2, Thing DEF Gained, Released
    <2>6. Balanced(I, {}, {})
      BY <2>1, Thing DEF Balanced, Gained, Released
    <2>7. Balanced(D, All(I), Gained(I, Len(I)))
      BY <2>1, <2>2, <2>3, <2>4, Thing DEF Balanced, Gained, Released
    <2>8. QED
      BY <2>1, <2>2, <2>4, <2>5, <2>6, <2>7 DEF I, D
  <1>7. CASE d = "sis"
    <2> DEFINE I == InitOf[d]
               D == DestroyOf[d]
    <2>1. /\ Len(I) = 3
          /\ Gain(I[1]) = {} /\ Loss(I[1]) = {}
          /\ Gain(I[2]) = {"mem"} /\ Loss(I[2]) = {}
          /\ Gain(I[3]) = {} /\ Loss(I[3]) = {}
          /\ \A i \in 1 .. 3 : I[i][1] \notin {"unmapIf", "memory", "unmap", "unmapSized"}
      BY <1>7 DEF InitOf, SisInit, Gain, Loss, Obtains, Blocks
    <2>2. /\ Len(D) = 2
          /\ Gain(D[1]) = {} /\ Loss(D[1]) = {"mem"}
          /\ D[1][1] = "unmap" /\ D[1][2] = "mem"
          /\ Gain(D[2]) = {} /\ Loss(D[2]) = {}
          /\ D[2][1] = "disable"
      BY <1>7 DEF DestroyOf, SisDestroy, Gain, Loss, Obtains, Blocks
    <2>3. All(I) = {"mem"}
      BY <1>7, Thing DEF InitOf, SisInit, All, Obtained, Obtains
    <2> HIDE DEF I, D
    <2>4. Gained(I, 3) = {"mem"} /\ Released(I, 3) = {}
      BY <2>1, Thing DEF Gained, Released
    <2>5. Gained(D, 2) = {} /\ Released(D, 2) = {"mem"}
      BY <2>2, Thing DEF Gained, Released
    <2>6. Balanced(I, {}, {})
      BY <2>1, Thing DEF Balanced, Gained, Released
    <2>7. Balanced(D, All(I), Gained(I, Len(I)))
      BY <2>1, <2>2, <2>3, <2>4, Thing DEF Balanced, Gained, Released
    <2>8. QED
      BY <2>1, <2>2, <2>4, <2>5, <2>6, <2>7 DEF I, D
  <1>8. CASE d = "unichrome"
    <2> DEFINE I == InitOf[d]
               D == DestroyOf[d]
    <2>1. /\ Len(I) = 5
          /\ Gain(I[1]) = {"mem"} /\ Loss(I[1]) = {}
          /\ Gain(I[2]) = {} /\ Loss(I[2]) = {}
          /\ Gain(I[3]) = {} /\ Loss(I[3]) = {}
          /\ Gain(I[4]) = {"ctl"} /\ Loss(I[4]) = {}
          /\ Gain(I[5]) = {} /\ Loss(I[5]) = {}
          /\ \A i \in 1 .. 5 : I[i][1] \notin {"unmapIf", "memory", "unmap", "unmapSized"}
      BY <1>8 DEF InitOf, UnichromeInit, Gain, Loss, Obtains, Blocks
    <2>2. /\ Len(D) = 4
          /\ Gain(D[1]) = {} /\ Loss(D[1]) = {}
          /\ D[1][1] = "ports"
          /\ Gain(D[2]) = {} /\ Loss(D[2]) = {}
          /\ D[2][1] = "disable"
          /\ Gain(D[3]) = {} /\ Loss(D[3]) = {"mem"}
          /\ D[3][1] = "unmap" /\ D[3][2] = "mem"
          /\ Gain(D[4]) = {} /\ Loss(D[4]) = {"ctl"}
          /\ D[4][1] = "unmap" /\ D[4][2] = "ctl"
      BY <1>8 DEF DestroyOf, UnichromeDestroy, Gain, Loss, Obtains, Blocks
    <2>3. All(I) = {"mem", "ctl"}
      BY <1>8, Thing DEF InitOf, UnichromeInit, All, Obtained, Obtains
    <2> HIDE DEF I, D
    <2>4. Gained(I, 5) = {"ctl", "mem"} /\ Released(I, 5) = {}
      BY <2>1, Thing DEF Gained, Released
    <2>5. Gained(D, 4) = {} /\ Released(D, 4) = {"ctl", "mem"}
      BY <2>2, Thing DEF Gained, Released
    <2>6. Balanced(I, {}, {})
      BY <2>1, Thing DEF Balanced, Gained, Released
    <2>7. Balanced(D, All(I), Gained(I, Len(I)))
      BY <2>1, <2>2, <2>3, <2>4, Thing DEF Balanced, Gained, Released
    <2>8. QED
      BY <2>1, <2>2, <2>4, <2>5, <2>6, <2>7 DEF I, D
  <1>9. QED
    BY <1>1, <1>2, <1>3, <1>4, <1>5, <1>6, <1>7, <1>8 DEF Tidy

\* vixInit and vixDestroy, and what they leave of the account.
LEMMA InitAccount ==
  ASSUME NEW p \in Processes, Kinds(p), p.alive = "run", NEW d \in Drivers,
         p.world \in Clean, d \in Uses[p.world], Rid(p, d),
         \A t \in Things : p.ptr[d][t] = "null", NEW r \in Run(d, InitOf[d], p)
  PROVE  r.done => Keeps(r.p, d)
  <1>1. d \in Tidy
    BY CleanAssumption
  <1>2. /\ Built(d, InitOf[d]) /\ Len(InitOf[d]) \in Nat
        /\ \A i \in 1 .. Len(InitOf[d]) : InitOf[d][i][1] # "bmClose"
    BY <1>1, TidyInit
  <1>3. Balanced(InitOf[d], {}, {}) /\ Released(InitOf[d], Len(InitOf[d])) = {}
    BY <1>1, TidyBalanced
  <1>4. Account(p, d, {}, {}, {})
    BY DEF Account, Rid
  <1>5. ~\E i \in 1 .. Len(InitOf[d]) : InitOf[d][i][1] = "bmClose"
    BY <1>2
  <1>6. r.done => Account(r.p, d, {}, {} \cup Gained(InitOf[d], Len(InitOf[d])),
                          Released(InitOf[d], Len(InitOf[d])))
    BY <1>2, <1>3, <1>4, <1>5, AccountRun
  <1>7. {} \cup Gained(InitOf[d], Len(InitOf[d])) = Owed(d)
    BY DEF Owed
  <1>8. QED
    BY <1>3, <1>6, <1>7 DEF Keeps

LEMMA DestroyAccount ==
  ASSUME NEW p \in Processes, Kinds(p), p.alive = "run", NEW d \in Drivers,
         p.world \in Clean, d \in Uses[p.world], Keeps(p, d),
         \A t \in All(InitOf[d]) : p.ptr[d][t] = "held",
         d \in Closers => BmKept(p), NEW r \in Run(d, DestroyOf[d], p)
  PROVE  r.p.alive = "run" => Rid(r.p, d)
  <1> DEFINE H == All(InitOf[d])
             D == DestroyOf[d]
  <1>1. d \in Tidy
    BY CleanAssumption
  <1>2. /\ Built(d, D) /\ Len(D) \in Nat
        /\ \A i \in 1 .. Len(D) : /\ D[i][1] \notin Stops
                                  /\ D[i][1] = "bmClose" => d \in Closers
    BY <1>1, TidyDestroy
  <1>3. /\ Balanced(D, H, Owed(d)) /\ Gained(D, Len(D)) = {}
        /\ Owed(d) \subseteq Released(D, Len(D))
    BY <1>1, TidyBalanced DEF Owed
  <1>4. H \subseteq Things /\ Account(p, d, H, Owed(d), {})
    BY DEF Account, Keeps, All, Obtained
  <1>5. (\E i \in 1 .. Len(D) : D[i][1] = "bmClose") => BmKept(p)
    BY <1>2
  <1> HIDE DEF H, D
  <1>6. r \in Run(d, D, p)
    BY DEF D
  <1>7. /\ r.done => Account(r.p, d, H, Owed(d) \cup Gained(D, Len(D)), Released(D, Len(D)))
        /\ ~r.done /\ r.p.alive = "run" => \E i \in 1 .. Len(D) : D[i][1] \in Stops
    BY <1>2, <1>3, <1>4, <1>5, <1>6, AccountRun
  <1>8. Owed(d) \cup Gained(D, Len(D)) = Owed(d)
    BY <1>3
  <1>9. r.p.alive = "run" => Account(r.p, d, H, Owed(d), Released(D, Len(D)))
    BY <1>2, <1>7, <1>8
  <1>10. QED
    BY <1>3, <1>9 DEF Account, Rid

\* The other handlers.
LEMMA RestStill ==
  ASSUME NEW p \in Processes, Kinds(p), p.alive = "run", NEW d \in Tidy \cap Drivers,
         NEW script, script \in {ProbeOf(d), ConfigOf[d], PlayOf[d]},
         NEW r \in Run(d, script, p)
  PROVE  Still(p, r.p)
  <1>1. /\ Len(script) \in Nat
        /\ \A i \in 1 .. Len(script) :
             script[i][1] \in {"scan", "card", "probePorts", "ports", "regs", "fits"}
    BY TidyProbe, TidyLater
  <1>2. \A i \in 1 .. Len(script) : Neutral(script[i]) /\ IsPlain(script[i])
    BY <1>1 DEF Neutral, IsPlain
  <1>3. QED
    BY <1>1, <1>2, StillRun

----------------------------------------------------------------------------
\* What holds between the calls of the program.

\* The ports are shared where they can be.
LEMMA SharedPorts ==
  ASSUME NEW w \in Worlds, w \in Several, NEW e \in Porters, e \in Uses[w]
  PROVE  w \in Clean /\ Paired(w) /\ \A d \in Uses[w] \cap Porters : d = e
  <1>1. w \in Clean
    BY BesideAssumption
  <1>2. Paired(w)
    BY <1>1, CleanAssumption DEF Paired
  <1>3. QED
    BY <1>1, <1>2, PairedFacts

\* When driver d is opened, tried or closed.
LEMMA OnFacts ==
  ASSUME NEW p \in Processes, NEW st, UseGood(p, st), NEW d \in Drivers, d \in Uses[p.world],
         (\E e \in Drivers \ {d} : st[e] # "closed") => p.world \in Several
  PROVE  /\ st[d] = "closed" /\ PortsOn(st) => Paired(p.world) /\ d \notin Porters
         /\ \A su : su[d] = "closed" /\ (\A e \in Drivers \ {d} : su[e] = st[e]) =>
              (PortsOn(su) <=> PortsOn(st) /\ d \notin Porters)
         /\ \A su : su[d] # "closed" /\ (\A e \in Drivers \ {d} : su[e] = st[e]) =>
              (PortsOn(su) <=> PortsOn(st) \/ d \in Porters)
  <1>0. p.world \in Worlds
    BY DEF Processes
  <1>1. ASSUME NEW e \in Drivers \cap Porters, st[e] # "closed", e # d
        PROVE  Paired(p.world) /\ d \notin Porters
    <2>1. p.world \in Several /\ e \in Uses[p.world]
      BY <1>1 DEF UseGood
    <2>2. QED
      BY <1>0, <1>1, <2>1, SharedPorts
  <1>2. st[d] = "closed" /\ PortsOn(st) => Paired(p.world) /\ d \notin Porters
    BY <1>1 DEF PortsOn
  <1>3. ASSUME NEW su, su[d] = "closed", \A e \in Drivers \ {d} : su[e] = st[e]
        PROVE  PortsOn(su) <=> PortsOn(st) /\ d \notin Porters
    <2>1. PortsOn(su) => PortsOn(st) /\ d \notin Porters
      BY <1>1, <1>3 DEF PortsOn
    <2>2. PortsOn(st) /\ d \notin Porters => PortsOn(su)
      BY <1>3 DEF PortsOn
    <2>3. QED
      BY <2>1, <2>2
  <1>4. ASSUME NEW su, su[d] # "closed", \A e \in Drivers \ {d} : su[e] = st[e]
        PROVE  PortsOn(su) <=> PortsOn(st) \/ d \in Porters
    <2>1. PortsOn(su) => PortsOn(st) \/ d \in Porters
      BY <1>4 DEF PortsOn
    <2>2. PortsOn(st) \/ d \in Porters => PortsOn(su)
      BY <1>4 DEF PortsOn
    <2>3. QED
      BY <2>1, <2>2
  <1>5. QED
    BY <1>2, <1>3, <1>4

\* What a step of driver d leaves the other drivers.
LEMMA LifeStep ==
  ASSUME NEW p \in Processes, NEW st, UseGood(p, st), Life(p, st), p.alive = "run",
         NEW d \in Drivers, d \in Uses[p.world], NEW q, Left(p, q, d), q.alive = "run",
         NEW su, \A e \in Drivers \ {d} : su[e] = st[e],
         (\E e \in Drivers \ {d} : st[e] # "closed") =>
           p.world \in Several /\ (d \notin Closers => q.bmFd = p.bmFd),
         OwnHeld(q, su, d),
         p.world \in Clean => Calm(q, PortsOn(su)) /\ Booked(q) /\ OwnTidy(q, su, d)
  PROVE  Life(q, su)
  <1>1. q \in Processes /\ q.world = p.world /\ p.world \in Worlds
    BY LeftTyped DEF Processes
  <1>2. p.world \in Clean => Tidied(q, su)
    <2> SUFFICES ASSUME p.world \in Clean, NEW e \in Drivers, e # d
                 PROVE  OwnTidy(q, su, e)
      BY DEF Tidied
    <2>1. OwnTidy(p, st, e) /\ Booked(q)
      BY DEF Life, Tidied
    <2>2. q.ptr[e] = p.ptr[e] /\ q.live[e] = p.live[e] /\ su[e] = st[e]
      BY DEF Left
    <2>3. QED
      BY <2>1, <2>2 DEF OwnTidy, Keeps, Account
  <1>3. ASSUME NEW e \in Drivers, e # d
        PROVE  OwnHeld(q, su, e)
    <2>1. /\ q.ptr[e] = p.ptr[e] /\ q.dma[e] = p.dma[e] /\ su[e] = st[e]
          /\ OwnHeld(p, st, e)
      BY <1>3 DEF Left, Life
    <2>2. CASE st[e] = "closed"
      BY <2>1, <2>2 DEF OwnHeld
    <2>3. CASE st[e] # "closed"
      <3>1. Has(p, e, Holding(st, e)) /\ Holding(su, e) = Holding(st, e)
        BY <2>1, <2>3 DEF OwnHeld, Holding
      <3>2. p.world \in Several /\ e \in Uses[p.world] /\ (d \notin Closers => q.bmFd = p.bmFd)
        BY <1>3, <2>3 DEF UseGood
      <3>3. q.dma[e] => e \in Openers /\ q.bmFd # NoFd
        <4> SUFFICES ASSUME q.dma[e]
                     PROVE  e \in Openers /\ q.bmFd # NoFd
          OBVIOUS
        <4>1. e \in Openers /\ p.bmFd # NoFd
          BY <2>1, <3>1 DEF Has
        <4>2. d \notin Closers
          <5>1. e \in Closers
            BY <4>1 DEF Closers
          <5>2. QED
            BY <1>3, <3>2, <5>1, MasterAssumption
        <4>3. QED
          BY <3>2, <4>1, <4>2
      <3>4. e \in Porters => PortsOpen(q)
        <4> SUFFICES ASSUME e \in Porters
                     PROVE  PortsOpen(q)
          OBVIOUS
        <4>1. p.world \in Clean /\ Paired(p.world)
          BY <1>1, <3>2, SharedPorts
        <4>2. PortsOn(su)
          BY <2>1, <2>3 DEF PortsOn
        <4>3. Neat(q, PortsOn(su))
          BY <4>1 DEF Calm
        <4>4. QED
          BY <1>1, <4>1, <4>2, <4>3 DEF Neat, PortsOpen
      <3>5. Has(q, e, Holding(su, e))
        BY <2>1, <3>1, <3>3, <3>4 DEF Has
      <3>6. QED
        BY <2>1, <2>3, <3>5 DEF OwnHeld
    <2>4. QED
      BY <2>2, <2>3
  <1>4. QED
    BY <1>1, <1>2, <1>3 DEF Life

\* dlclose of a driver that has given back what it obtained.
LEMMA UnloadClean ==
  ASSUME NEW p \in Processes, Kinds(p), p.world \in Clean, NEW d \in Drivers, NEW on,
         Calm(p, on), Rid(p, d),
         Used \subseteq {d} => ~on /\ \A e \in Drivers, t \in Things : p.live[e][t] = 0,
         NEW q, q = Unload(d, p)
  PROVE  Calm(q, on) /\ Rid(q, d)
  <1>1. /\ q.world = p.world /\ q.owner = p.owner /\ q.iopl = p.iopl /\ q.live = p.live
        /\ IF Used \subseteq {d}
           THEN q.memFd = NoFd /\ q.memLocks = 0 /\ q.ioFd = NoFd /\ q.ioCount = 0
           ELSE /\ q.memFd = p.memFd /\ q.memLocks = p.memLocks /\ q.ioFd = p.ioFd
                /\ q.ioCount = p.ioCount
    BY DEF Unload, Loaded, Processes
  <1>2. Locks(q) = Locks(p) /\ AppFds(q) = AppFds(p)
    BY <1>1 DEF Locks, AppFds
  <1>3. CASE ~(Used \subseteq {d})
    <2>1. Calm(q, on)
      BY <1>1, <1>2, <1>3 DEF Calm, Neat, Sole, Slim, Counts
    <2>2. Rid(q, d)
      BY <1>1, <1>2, <1>3 DEF Rid, Booked
    <2>3. QED
      BY <2>1, <2>2
  <1>4. CASE Used \subseteq {d}
    <2>1. Locks(p) = {}
      <3>1. \A e \in Drivers, t \in Regions : p.live[e][t] = 0
        BY <1>4 DEF Things
      <3>2. QED
        BY <3>1 DEF Locks
    <2>2. p.memLocks = 0 /\ p.memFd = NoFd
      BY <2>1, FS_EmptySet DEF Rid, Booked
    <2>3. \A f \in Fds : p.owner[f] # "mem"
      <3>1. NoFd \notin Fds
        BY FdsAssumption DEF NoFd
      <3>2. \A f \in Fds : p.owner[f] = "mem" => f = p.memFd
        BY DEF Calm, Sole
      <3>3. QED
        BY <2>2, <3>1, <3>2
    <2>4. p.ioFd = NoFd /\ (Paired(p.world) => p.ioCount = 0)
      BY <1>4 DEF Calm, Neat
    <2>5. Calm(q, on)
      BY <1>1, <1>2, <1>4, <2>3, <2>4 DEF Calm, Neat, Sole, Slim, Counts
    <2>6. Rid(q, d)
      BY <1>1, <1>2, <1>4, <2>1, FS_EmptySet DEF Rid, Booked
    <2>7. QED
      BY <2>5, <2>6
  <1>5. QED
    BY <1>3, <1>4

\* A driver that is unloaded.
LEMMA UnloadOwn ==
  ASSUME NEW p \in Processes, NEW d \in Drivers, NEW q, q = Unload(d, p)
  PROVE  /\ \A t \in Things : q.ptr[d][t] = "null"
         /\ ~q.dma[d] /\ q.alive = p.alive /\ q.owner = p.owner
         /\ ~(Used \subseteq {d}) => q.bmFd = p.bmFd
  BY DEF Unload, Loaded, Processes

LEMMA SuitsUses ==
  ASSUME NEW p \in Processes, NEW d \in Drivers, d \in Uses[p.world]
  PROVE  /\ Suitable(p.world, d)
         /\ ~Serves(p.world, d) => FALSE \in Works[p.world]["map"]
         /\ p.world \in Clean => d \in Tidy /\ FALSE \notin Works[p.world]["map"]
         /\ \A q : q.world = p.world /\ q.alive # "run" /\ Alive(p.world, d, q) => Alone(q)
  <1>1. p.world \in Worlds
    BY DEF Processes
  <1>2. Suits(p.world, d)
    BY <1>1, ServesAssumption DEF Suits
  <1>3. d \in Openers => FALSE \notin Works[p.world]["version"]
    BY <1>1, VersionAssumption
  <1>4. ~Serves(p.world, d) => FALSE \in Works[p.world]["map"]
    BY <1>2 DEF Suits
  <1>5. QED
    BY <1>2, <1>3, <1>4, CleanAssumption DEF Suitable, Alive, Alone

\* The probe of a driver and, where nothing else was called, its unloading.
LEMMA ProbeLife ==
  ASSUME TypeOK, Sound(proc, stage), Life(proc, stage), proc.alive = "run", NEW d \in Drivers,
         MayOpen(d), NEW r \in Run(d, ProbeOf(d), proc)
  PROVE  /\ Quiet(proc, r.p) /\ Hand(proc, r.p, d) /\ BmLeft(proc, r.p)
         /\ proc.world \in Clean => /\ Calm(r.p, PortsOn(stage)) /\ Rid(r.p, d)
                                    /\ r.p.live = proc.live
  <1>1. /\ proc \in Processes /\ d \in Uses[proc.world] /\ stage[d] = "closed"
        /\ proc.world \in Several \/ Used = {}
        /\ Kinds(proc)
        /\ FilesGood(proc, stage) /\ UseGood(proc, stage)
    BY DEF MayOpen, TypeOK, Sound
  <1>2. OwnFiles(proc, d)
    BY <1>1 DEF FilesGood, OwnFiles
  <1>3. Quiet(proc, r.p)
    BY <1>1, <1>2, ProbeQuiet
  <1>4. Hand(proc, r.p, d) /\ BmLeft(proc, r.p)
    BY <1>1, <1>2, ProbeRun
  <1>5. ASSUME proc.world \in Clean
        PROVE  /\ Calm(r.p, PortsOn(stage)) /\ Rid(r.p, d)
               /\ r.p.live = proc.live
    <2>1. d \in Tidy /\ Tidied(proc, stage)
      BY <1>1, <1>5, SuitsUses DEF Life
    <2>2. (\E e \in Drivers \ {d} : stage[e] # "closed") => proc.world \in Several
      BY <1>1 DEF Used
    <2>3. PortsOn(stage) => Paired(proc.world) /\ d \notin Porters
      BY <1>1, <2>2, OnFacts
    <2>4. Calm(proc, PortsOn(stage))
      BY <2>1 DEF Tidied
    <2>5. r.p.alive = "run" => Calm(r.p, PortsOn(stage))
      <3> DEFINE on == PortsOn(stage)
      <3>1. Calm(proc, on) /\ (on => Paired(proc.world)) /\ (d \in Porters => ~on)
        BY <2>3, <2>4
      <3> HIDE DEF on
      <3>2. r.p.alive = "run" => Calm(r.p, on)
        BY <1>1, <1>5, <3>1, ProbeCalm
      <3>3. QED
        BY <3>2 DEF on
    <2>6. r.p.alive = "run"
      BY <1>3 DEF Quiet
    <2>7. Still(proc, r.p)
      BY <1>1, <2>1, RestStill
    <2>8. r.p.world = proc.world
      BY <1>4 DEF Hand, Left
    <2>9. Rid(proc, d)
      BY <1>1, <2>1 DEF Tidied, OwnTidy, Rid
    <2>10. Rid(r.p, d)
      BY <2>7, <2>8, <2>9 DEF Still, Rid, Booked, Locks
    <2>11. QED
      BY <2>5, <2>6, <2>7, <2>10 DEF Still
  <1>6. QED
    BY <1>3, <1>4, <1>5

\* A driver that is unloaded and what it leaves the others.
LEMMA UnloadLife ==
  ASSUME TypeOK, Sound(proc, stage), Life(proc, stage), proc.alive = "run", NEW d \in Drivers,
         d \in Uses[proc.world], proc.world \in Several \/ Used \subseteq {d},
         NEW p, Left(proc, p, d), d \notin Closers => p.bmFd = proc.bmFd,
         NEW su, su[d] = "closed", \A e \in Drivers \ {d} : su[e] = stage[e],
         p.alive # "run" => Alone(p),
         p.alive = "run" /\ proc.world \in Clean => Calm(p, PortsOn(su)) /\ Rid(p, d),
         NEW q, q = Unload(d, p), Left(proc, q, d)
  PROVE  Life(q, su)
  <1>1. /\ proc \in Processes /\ p \in Processes /\ Kinds(p) /\ p.world = proc.world
        /\ q.world = proc.world /\ UseGood(proc, stage)
    BY LeftTyped DEF TypeOK, Sound
  <1>2. /\ \A t \in Things : q.ptr[d][t] = "null"
        /\ ~q.dma[d] /\ q.alive = p.alive /\ q.owner = p.owner
        /\ ~(Used \subseteq {d}) => q.bmFd = p.bmFd
    BY <1>1, UnloadOwn
  <1>3. CASE q.alive # "run"
    BY <1>1, <1>2, <1>3 DEF Life, Alone, Ended, FreeFds
  <1>4. CASE q.alive = "run"
    <2>1. OwnHeld(q, su, d)
      BY <1>2 DEF OwnHeld
    <2>2. (\E e \in Drivers \ {d} : stage[e] # "closed") =>
            proc.world \in Several /\ (d \notin Closers => q.bmFd = proc.bmFd)
      BY <1>2 DEF Used
    <2>3. ASSUME proc.world \in Clean
          PROVE  Calm(q, PortsOn(su)) /\ Booked(q) /\ OwnTidy(q, su, d)
      <3>1. Calm(p, PortsOn(su)) /\ Rid(p, d)
        BY <1>2, <1>4, <2>3
      <3>2. ASSUME Used \subseteq {d}
            PROVE  ~PortsOn(su) /\ \A e \in Drivers, t \in Things : p.live[e][t] = 0
        <4>1. \A e \in Drivers \ {d} : stage[e] = "closed" /\ su[e] = "closed"
          BY <3>2 DEF Used
        <4>2. ~PortsOn(su)
          BY <4>1 DEF PortsOn
        <4>3. ASSUME NEW e \in Drivers, NEW t \in Things
              PROVE  p.live[e][t] = 0
          <5>1. CASE e = d
            BY <3>1, <5>1 DEF Rid
          <5>2. CASE e # d
            <6>1. OwnTidy(proc, stage, e)
              BY <2>3 DEF Life, Tidied
            <6>2. p.live[e] = proc.live[e]
              BY <5>2 DEF Left
            <6>3. QED
              BY <4>1, <5>2, <6>1, <6>2 DEF OwnTidy
          <5>3. QED
            BY <5>1, <5>2
        <4>4. QED
          BY <4>2, <4>3
      <3> DEFINE on == PortsOn(su)
      <3>3. /\ Calm(p, on) /\ p.world \in Clean
            /\ Used \subseteq {d} => ~on /\ \A e \in Drivers, t \in Things : p.live[e][t] = 0
        BY <1>1, <2>3, <3>1, <3>2
      <3> HIDE DEF on
      <3>4. Calm(q, on) /\ Rid(q, d)
        BY <1>1, <3>1, <3>3, UnloadClean
      <3>5. QED
        BY <3>4 DEF on, Rid, OwnTidy
    <2>4. QED
      BY <1>1, <1>4, <2>1, <2>2, <2>3, LifeStep
  <1>5. QED
    BY <1>3, <1>4

\* The search of vdlOpen.
LEMMA SearchLife ==
  ASSUME TypeOK, Sound(proc, stage), Life(proc, stage), NEW d \in Drivers, Search(d)
  PROVE  Life(proc', stage')
  <1>1. /\ proc.alive = "run" /\ MayOpen(d) /\ d \in Uses[proc.world] /\ stage[d] = "closed"
        /\ proc.world \in Several \/ Used \subseteq {d}
        /\ stage' = stage
    BY DEF Search, MayOpen, Runs
  <1>2. PICK r \in Run(d, ProbeOf(d), proc) : proc' = Unload(d, r.p)
    BY DEF Search
  <1>3. /\ Quiet(proc, r.p) /\ Hand(proc, r.p, d) /\ BmLeft(proc, r.p)
        /\ proc.world \in Clean => Calm(r.p, PortsOn(stage)) /\ Rid(r.p, d)
    BY <1>1, ProbeLife
  <1>4. r.p.alive = "run" /\ Left(proc, r.p, d) /\ r.p.bmFd = proc.bmFd
    BY <1>1, <1>3 DEF Quiet, Hand, BmLeft
  <1>5. Left(proc, proc', d)
    BY SearchStep
  <1>6. QED
    BY <1>1, <1>2, <1>3, <1>4, <1>5, UnloadLife

\* vdlOpen of a driver whose probe succeeded.
LEMMA OpenLife ==
  ASSUME TypeOK, Sound(proc, stage), Life(proc, stage), NEW d \in Drivers, OpenDriver(d)
  PROVE  Life(proc', stage')
  <1>1. /\ proc.alive = "run" /\ MayOpen(d) /\ d \in Uses[proc.world] /\ stage[d] = "closed"
        /\ proc.world \in Several \/ Used \subseteq {d}
        /\ proc \in Processes
        /\ UseGood(proc, stage)
    BY DEF OpenDriver, MayOpen, Runs, TypeOK, Sound
  <1>2. PICK r \in Run(d, ProbeOf(d), proc) :
          IF ~r.done THEN proc' = Unload(d, r.p) /\ UNCHANGED stage
          ELSE \E i \in Run(d, InitOf[d], r.p) :
            IF i.done THEN proc' = i.p /\ stage' = [stage EXCEPT ![d] = "open"]
            ELSE /\ \E x \in Run(d, DestroyOf[d], i.p) : proc' = Unload(d, x.p)
                 /\ UNCHANGED stage
    BY DEF OpenDriver
  <1>3. /\ Quiet(proc, r.p) /\ Hand(proc, r.p, d) /\ BmLeft(proc, r.p)
        /\ proc.world \in Clean => Calm(r.p, PortsOn(stage)) /\ Rid(r.p, d)
    BY <1>1, ProbeLife
  <1>4. /\ r.p.alive = "run" /\ Left(proc, r.p, d) /\ r.p.bmFd = proc.bmFd
        /\ r.p \in Processes /\ Kinds(r.p) /\ r.p.world = proc.world
        /\ r.p.ptr = proc.ptr /\ r.p.dma = proc.dma
    BY <1>1, <1>3, LeftTyped DEF Quiet, Hand, BmLeft
  <1>5. Left(proc, proc', d)
    BY OpenStep
  <1>6. (\A t \in Things : r.p.ptr[d][t] = "null") /\ ~r.p.dma[d]
    BY <1>1, <1>4 DEF Life, OwnHeld
  <1>7. CASE ~r.done
    <2>1. proc' = Unload(d, r.p) /\ stage' = stage
      BY <1>2, <1>7
    <2>2. QED
      BY <1>1, <1>3, <1>4, <1>5, <2>1, UnloadLife
  <1>8. CASE r.done
    <2>1. PICK i \in Run(d, InitOf[d], r.p) :
            IF i.done THEN proc' = i.p /\ stage' = [stage EXCEPT ![d] = "open"]
            ELSE /\ \E x \in Run(d, DestroyOf[d], i.p) : proc' = Unload(d, x.p)
                 /\ UNCHANGED stage
      BY <1>2, <1>8
    <2>2. /\ Suitable(proc.world, d)
          /\ ~Serves(proc.world, d) => FALSE \in Works[proc.world]["map"]
          /\ proc.world \in Clean => d \in Tidy /\ FALSE \notin Works[proc.world]["map"]
          /\ \A q : q.world = proc.world /\ q.alive # "run" /\ Alive(proc.world, d, q) => Alone(q)
      BY <1>1, SuitsUses
    <2>3. /\ i.done => i.p.alive = "run" /\ Has(i.p, d, All(InitOf[d]))
          /\ ~i.done /\ i.p.alive = "run" => ~Serves(proc.world, d)
          /\ Alive(proc.world, d, i.p)
      BY <1>4, <1>6, <2>2, InitHas
    <2>4. d = "ivtv" => OwnFiles(r.p, d)
      <3>1. d = "ivtv" => OwnFiles(proc, d)
        BY <1>1 DEF Sound, FilesGood, OwnFiles
      <3>2. Kinds(proc)
        BY <1>1 DEF Sound
      <3>3. QED
        BY <1>1, <1>8, <3>1, <3>2, ProbeRun
    <2>5. /\ Hand(r.p, i.p, d) /\ (d = "ivtv" => OwnFiles(i.p, d))
          /\ d \notin Openers => BmLeft(r.p, i.p)
      BY <1>4, <2>2, <2>4, InitRun DEF Suitable
    <2>6. /\ i.p \in Processes /\ Kinds(i.p) /\ i.p.world = proc.world /\ Left(proc, i.p, d)
          /\ d \notin Closers => i.p.bmFd = proc.bmFd
      BY <1>4, <2>5, LeftTyped, LeftThen DEF Hand, BmLeft, Closers
    <2>7. CASE i.done
      <3>1. /\ proc' = i.p /\ stage' = [stage EXCEPT ![d] = "open"] /\ i.p.alive = "run"
            /\ stage'[d] = "open" /\ \A e \in Drivers \ {d} : stage'[e] = stage[e]
        BY <2>1, <2>3, <2>7 DEF TypeOK
      <3>2. OwnHeld(i.p, stage', d)
        <4>1. Holding(stage', d) = All(InitOf[d])
          BY <3>1 DEF Holding
        <4>2. QED
          BY <2>3, <2>7, <3>1, <4>1 DEF OwnHeld
      <3>3. (\E e \in Drivers \ {d} : stage[e] # "closed") => proc.world \in Several
        BY <1>1 DEF Used
      <3>4. ASSUME proc.world \in Clean
            PROVE  Calm(i.p, PortsOn(stage')) /\ Booked(i.p) /\ OwnTidy(i.p, stage', d)
        <4>1. /\ PortsOn(stage) => d \notin Porters
              /\ PortsOn(stage') <=> PortsOn(stage) \/ d \in Porters
          BY <1>1, <3>1, <3>3, OnFacts
        <4> DEFINE on == PortsOn(stage)
        <4>2. Calm(r.p, on) /\ Rid(r.p, d) /\ (d \in Porters => ~on)
          BY <1>3, <3>4, <4>1
        <4> HIDE DEF on
        <4>3. Calm(i.p, on \/ d \in Porters)
          BY <1>1, <1>4, <2>7, <3>4, <4>2, InitCalm
        <4>4. Calm(i.p, PortsOn(stage'))
          BY <4>1, <4>3 DEF on, Calm, Neat
        <4>5. Keeps(i.p, d)
          BY <1>1, <1>4, <1>6, <2>7, <3>4, <4>2, InitAccount
        <4>6. QED
          BY <3>1, <4>4, <4>5 DEF OwnTidy, Keeps, Account
      <3>5. Life(i.p, stage')
        <4>1. (\E e \in Drivers \ {d} : stage[e] # "closed") =>
                proc.world \in Several /\ (d \notin Closers => i.p.bmFd = proc.bmFd)
          BY <2>6, <3>3
        <4>2. /\ i.p.alive = "run" /\ Left(proc, i.p, d)
              /\ \A e \in Drivers \ {d} : stage'[e] = stage[e]
          BY <2>6, <3>1
        <4>3. proc.world \in Clean =>
                Calm(i.p, PortsOn(stage')) /\ Booked(i.p) /\ OwnTidy(i.p, stage', d)
          BY <3>4
        <4> DEFINE q == i.p
                   su == stage'
        <4>4. /\ (\E e \in Drivers \ {d} : stage[e] # "closed") =>
                   proc.world \in Several /\ (d \notin Closers => q.bmFd = proc.bmFd)
              /\ q.alive = "run" /\ Left(proc, q, d)
              /\ \A e \in Drivers \ {d} : su[e] = stage[e]
              /\ proc.world \in Clean =>
                   Calm(q, PortsOn(su)) /\ Booked(q) /\ OwnTidy(q, su, d)
              /\ OwnHeld(q, su, d)
          BY <3>2, <4>1, <4>2, <4>3
        <4> HIDE DEF q, su
        <4>5. Life(q, su)
          BY <1>1, <4>4, LifeStep
        <4>6. QED
          BY <4>5 DEF q, su
      <3>6. QED
        BY <3>1, <3>5
    <2>8. CASE ~i.done
      <3>1. PICK x \in Run(d, DestroyOf[d], i.p) : proc' = Unload(d, x.p) /\ stage' = stage
        BY <2>1, <2>8
      <3>2. CASE i.p.alive # "run"
        <4>1. Len(DestroyOf[d]) \in Nat
          BY DriversAssumption, DestroysPlain
        <4>2. x.p = i.p
          BY <3>2, <4>1, DeadRun
        <4>3. Alone(i.p)
          BY <2>2, <2>3, <2>6, <3>2
        <4>4. QED
          BY <1>1, <1>5, <2>6, <3>1, <3>2, <4>2, <4>3, UnloadLife
      <3>3. CASE i.p.alive = "run"
        <4>1. FALSE \in Works[proc.world]["map"] /\ proc.world \notin Clean
          BY <2>2, <2>3, <2>8, <3>3
        <4>2. CASE proc'.alive # "run"
          <5>1. proc'.world = proc.world
            BY <1>5 DEF Left
          <5>2. QED
            BY <4>1, <4>2, <5>1 DEF Life, Alone
        <4>3. CASE proc'.alive = "run"
          <5>1. d \in Closers => BmKept(i.p) \/ x.p.alive # "run"
            <6>1. CASE d \in Openers
              <7>1. Doomed(i.p, d) /\ (d = "pm3" => i.p.alive # "run")
                BY <1>4, <2>2, <2>4, <2>8, <6>1, InitRun DEF Suitable
              <7>2. d # "pm3"
                BY <3>3, <7>1
              <7>3. x.p.alive # "run"
                BY <2>6, <6>1, <7>1, <7>2, DoomedRun DEF Openers
              <7>4. QED
                BY <7>3
            <6>2. CASE d \notin Openers
              <7>1. d \in Closers => BmKept(proc)
                BY <1>1, <6>2, ClosersStart DEF Sound, MayOpen
              <7>2. proc.world = proc.world /\ BmLeft(proc, i.p)
                BY <1>3, <2>5, <6>2, BmLeftThen
              <7>3. QED
                BY <1>1, <7>1, <7>2, BmLeftKeeps
            <6>3. QED
              BY <6>1, <6>2
          <5>2. CASE x.p.alive # "run"
            <6>1. x.p \in Processes
              <7>1. CASE d \in Openers
                <8>1. Doomed(i.p, d) /\ (d = "pm3" => i.p.alive # "run")
                  BY <1>4, <2>2, <2>4, <2>8, <7>1, InitRun DEF Suitable
                <8>2. d # "pm3"
                  BY <3>3, <8>1
                <8>3. Left(i.p, x.p, d)
                  BY <2>6, <7>1, <8>1, <8>2, DoomedRun DEF Openers
                <8>4. QED
                  BY <8>3, LeftTyped
              <7>2. CASE d \notin Openers
                <8>1. d \in Closers => BmKept(proc)
                  BY <1>1, <7>2, ClosersStart DEF Sound, MayOpen
                <8>2. BmLeft(proc, i.p)
                  BY <1>3, <2>5, <7>2, BmLeftThen
                <8>3. d \in Closers => BmKept(i.p)
                  BY <1>1, <8>1, <8>2, BmLeftKeeps
                <8>4. Hand(i.p, x.p, d)
                  BY <2>5, <2>6, <8>3, DestroyRun
                <8>5. QED
                  BY <8>4, LeftTyped DEF Hand
              <7>3. QED
                BY <7>1, <7>2
            <6>2. proc'.alive = x.p.alive
              BY <3>1, <6>1, UnloadOwn
            <6>3. QED
              BY <4>3, <5>2, <6>2
          <5>3. CASE d \in Closers => BmKept(i.p)
            <6>1. /\ Hand(i.p, x.p, d) /\ x.p.bmFd = i.p.bmFd
              BY <2>5, <2>6, <5>3, DestroyRun
            <6>2. Left(proc, x.p, d) /\ (d \notin Closers => x.p.bmFd = proc.bmFd)
              BY <2>6, <6>1, LeftThen DEF Hand
            <6>3. x.p \in Processes
              BY <6>2, LeftTyped
            <6>4. x.p.alive = "run"
              BY <3>1, <4>3, <6>3, UnloadOwn
            <6>5. QED
              BY <1>1, <1>5, <3>1, <4>1, <6>2, <6>4, UnloadLife
          <5>4. QED
            BY <5>1, <5>2, <5>3
        <4>4. QED
          BY <4>2, <4>3
      <3>4. QED
        BY <3>2, <3>3
    <2>9. QED
      BY <2>7, <2>8
  <1>9. QED
    BY <1>7, <1>8

\* A driver that is open stays open and keeps what it has.
LEMMA StayLife ==
  ASSUME TypeOK, Sound(proc, stage), Life(proc, stage), proc.alive = "run", NEW d \in Drivers,
         stage[d] # "closed", NEW q, Left(proc, q, d), q.bmFd = proc.bmFd,
         NEW su, su[d] # "closed", \A e \in Drivers \ {d} : su[e] = stage[e],
         q.alive = "run" => OwnHeld(q, su, d),
         q.alive = "run" /\ proc.world \in Clean => Still(proc, q) /\ Calm(q, PortsOn(stage)),
         q.alive # "run" => Alone(q)
  PROVE  Life(q, su)
  <1>1. /\ proc \in Processes /\ d \in Uses[proc.world] /\ UseGood(proc, stage)
        /\ q.world = proc.world
        /\ (\E e \in Drivers \ {d} : stage[e] # "closed") => proc.world \in Several
    BY LeftTyped DEF TypeOK, Sound, UseGood
  <1>2. CASE q.alive # "run"
    BY <1>2 DEF Life
  <1>3. CASE q.alive = "run"
    <2>1. ASSUME proc.world \in Clean
          PROVE  Calm(q, PortsOn(su)) /\ Booked(q) /\ OwnTidy(q, su, d)
      <3>1. PortsOn(su) <=> PortsOn(stage)
        <4>1. \A e \in Drivers : su[e] # "closed" <=> stage[e] # "closed"
          OBVIOUS
        <4>2. QED
          BY <4>1 DEF PortsOn
      <3>2. Calm(q, PortsOn(su))
        BY <1>3, <2>1, <3>1 DEF Calm, Neat
      <3>3. Keeps(proc, d)
        BY <2>1 DEF Life, Tidied, OwnTidy
      <3>4. Keeps(q, d)
        BY <1>1, <1>3, <2>1, <3>3, StillAccount DEF Keeps
      <3>5. QED
        BY <3>2, <3>4 DEF OwnTidy, Keeps, Account
    <2>2. (\E e \in Drivers \ {d} : stage[e] # "closed") =>
            proc.world \in Several /\ (d \notin Closers => q.bmFd = proc.bmFd)
      BY <1>1
    <2>3. QED
      BY <1>1, <1>3, <2>1, <2>2, LifeStep
  <1>4. QED
    BY <1>2, <1>3

\* vixConfigPlayback and the playback calls.
LEMMA ConfigLife ==
  ASSUME TypeOK, Sound(proc, stage), Life(proc, stage), NEW d \in Drivers, Config(d)
  PROVE  Life(proc', stage')
  <1>1. /\ proc.alive = "run" /\ stage[d] # "closed" /\ proc \in Processes /\ Kinds(proc)
        /\ d \in Uses[proc.world] /\ d \in DriverNames
    BY DriversAssumption DEF Config, Runs, TypeOK, Sound, UseGood
  <1>2. PICK r \in Run(d, ConfigOf[d], proc) :
          /\ proc' = r.p
          /\ stage' = [stage EXCEPT ![d] = IF r.done THEN "configured" ELSE @]
    BY DEF Config
  <1>3. /\ stage'[d] = IF r.done THEN "configured" ELSE stage[d]
        /\ \A e \in Drivers \ {d} : stage'[e] = stage[e]
    BY <1>2 DEF TypeOK
  <1>4. Len(ConfigOf[d]) \in Nat /\ \A i \in 1 .. Len(ConfigOf[d]) : IsPlain(ConfigOf[d][i])
    BY <1>1, PlaysPlain
  <1>5. Left(proc, r.p, d) /\ Plain(proc, r.p) /\ (r.done => r.p.alive = "run")
    BY <1>1, <1>4, PlainRun
  <1>6. r.p.world = proc.world /\ r.p.bmFd = proc.bmFd
    BY <1>5 DEF Left, Plain
  <1>7. /\ Suitable(proc.world, d)
        /\ proc.world \in Clean => d \in Tidy
        /\ \A q : q.world = proc.world /\ q.alive # "run" /\ Alive(proc.world, d, q) => Alone(q)
    BY <1>1, SuitsUses
  <1>8. Has(proc, d, Holding(stage, d))
    BY <1>1 DEF Life, OwnHeld
  <1>9. Holding(stage, d) \subseteq Things /\ All(InitOf[d]) \subseteq Holding(stage, d)
    BY DEF Holding, All, Obtained
  <1>10. \A c : c.things = Holding(stage, d) /\ (d \in Porters => c.ports)
                 => Orderly(d, ConfigOf[d], c)
    BY <1>1, <1>9, ConfigOrderly
  <1>11. ~Mapping(ConfigOf[d]) /\ Undisturbed(ConfigOf[d], Len(ConfigOf[d]))
    <2> DEFINE c == [things |-> All(InitOf[d]), ports |-> TRUE]
    <2>1. All(InitOf[d]) \subseteq c.things /\ (d \in Porters => c.ports)
      OBVIOUS
    <2> HIDE DEF c
    <2>2. QED
      BY <1>1, <2>1, ConfigOrderly
  <1>12. /\ r.p.alive = "run" => Has(r.p, d, Holding(stage, d))
         /\ r.done => Has(r.p, d, Holding(stage, d) \cup All(ConfigOf[d]))
         /\ Alive(proc.world, d, r.p)
    <2> DEFINE T == Holding(stage, d)
               script == ConfigOf[d]
    <2>1. /\ T \subseteq Things /\ Has(proc, d, T) /\ Len(script) \in Nat /\ ~Mapping(script)
          /\ Undisturbed(script, Len(script)) /\ r \in Run(d, script, proc)
          /\ \A c : c.things = T /\ (d \in Porters => c.ports) => Orderly(d, script, c)
      BY <1>4, <1>8, <1>9, <1>10, <1>11
    <2> HIDE DEF T, script
    <2>2. /\ r.p.alive = "run" => Has(r.p, d, T)
          /\ r.done => Has(r.p, d, T \cup All(script))
          /\ Alive(proc.world, d, r.p)
      BY <1>1, <1>7, <2>1, LaterHas, ZenonT(40)
    <2>3. QED
      BY <2>2 DEF T, script
  <1>13. r.p.alive = "run" => OwnHeld(r.p, stage', d)
    <2> SUFFICES ASSUME r.p.alive = "run"
                 PROVE  OwnHeld(r.p, stage', d)
      OBVIOUS
    <2>1. stage'[d] # "closed"
      BY <1>1, <1>3
    <2>2. CASE r.done
      <3>1. Holding(stage', d) \subseteq Holding(stage, d) \cup All(ConfigOf[d])
        BY <1>3, <2>2 DEF Holding
      <3>2. Has(r.p, d, Holding(stage', d))
        BY <1>12, <2>2, <3>1 DEF Has
      <3>3. QED
        BY <2>1, <3>2 DEF OwnHeld
    <2>3. CASE ~r.done
      <3>1. Holding(stage', d) = Holding(stage, d)
        BY <1>3, <2>3 DEF Holding
      <3>2. QED
        BY <1>12, <2>1, <3>1 DEF OwnHeld
    <2>4. QED
      BY <2>2, <2>3
  <1>14. r.p.alive = "run" /\ proc.world \in Clean =>
           Still(proc, r.p) /\ Calm(r.p, PortsOn(stage))
    <2> SUFFICES ASSUME r.p.alive = "run", proc.world \in Clean
                 PROVE  Still(proc, r.p) /\ Calm(r.p, PortsOn(stage))
      OBVIOUS
    <2>1. Still(proc, r.p)
      BY <1>1, <1>7, RestStill
    <2> DEFINE on == PortsOn(stage)
    <2>2. Calm(proc, on)
      BY <1>1 DEF Life, Tidied
    <2> HIDE DEF on
    <2>3. Calm(r.p, on)
      BY <1>1, <2>2, LaterCalm
    <2>4. QED
      BY <2>1, <2>3 DEF on
  <1>15. r.p.alive # "run" => Alone(r.p)
    BY <1>6, <1>7, <1>12
  <1>16. QED
    <2> DEFINE q == r.p
               su == stage'
    <2>1. /\ Left(proc, q, d) /\ q.bmFd = proc.bmFd /\ su[d] # "closed"
          /\ \A e \in Drivers \ {d} : su[e] = stage[e]
          /\ q.alive = "run" => OwnHeld(q, su, d)
          /\ q.alive = "run" /\ proc.world \in Clean => Still(proc, q) /\ Calm(q, PortsOn(stage))
          /\ q.alive # "run" => Alone(q)
      BY <1>1, <1>3, <1>5, <1>6, <1>13, <1>14, <1>15
    <2> HIDE DEF q, su
    <2>2. Life(q, su)
      BY <1>1, <2>1, StayLife
    <2>3. QED
      BY <1>2, <2>2 DEF q, su

LEMMA PlayLife ==
  ASSUME TypeOK, Sound(proc, stage), Life(proc, stage), NEW d \in Drivers, Play(d)
  PROVE  Life(proc', stage')
  <1>1. /\ proc.alive = "run" /\ stage[d] = "configured" /\ proc \in Processes /\ Kinds(proc)
        /\ d \in Uses[proc.world] /\ d \in DriverNames /\ stage' = stage
    BY DriversAssumption DEF Play, Runs, TypeOK, Sound, UseGood
  <1>2. PICK r \in Run(d, PlayOf[d], proc) : proc' = r.p
    BY DEF Play
  <1>4. Len(PlayOf[d]) \in Nat /\ \A i \in 1 .. Len(PlayOf[d]) : IsPlain(PlayOf[d][i])
    BY <1>1, PlaysPlain
  <1>5. Left(proc, r.p, d) /\ Plain(proc, r.p)
    BY <1>1, <1>4, PlainRun
  <1>6. r.p.world = proc.world /\ r.p.bmFd = proc.bmFd
    BY <1>5 DEF Left, Plain
  <1>7. /\ Suitable(proc.world, d)
        /\ proc.world \in Clean => d \in Tidy
        /\ \A q : q.world = proc.world /\ q.alive # "run" /\ Alive(proc.world, d, q) => Alone(q)
    BY <1>1, SuitsUses
  <1>8. Has(proc, d, Holding(stage, d))
    BY <1>1 DEF Life, OwnHeld
  <1>9. /\ Holding(stage, d) \subseteq Things
        /\ All(InitOf[d]) \cup All(ConfigOf[d]) \subseteq Holding(stage, d)
    BY <1>1 DEF Holding, All, Obtained
  <1>10. \A c : c.things = Holding(stage, d) /\ (d \in Porters => c.ports)
                 => Orderly(d, PlayOf[d], c)
    BY <1>1, <1>9, PlayOrderly
  <1>11. ~Mapping(PlayOf[d]) /\ Undisturbed(PlayOf[d], Len(PlayOf[d]))
    <2> DEFINE c == [things |-> All(InitOf[d]) \cup All(ConfigOf[d]), ports |-> TRUE]
    <2>1. All(InitOf[d]) \cup All(ConfigOf[d]) \subseteq c.things /\ (d \in Porters => c.ports)
      OBVIOUS
    <2> HIDE DEF c
    <2>2. QED
      BY <1>1, <2>1, PlayOrderly
  <1>12. /\ r.p.alive = "run" => Has(r.p, d, Holding(stage, d))
         /\ Alive(proc.world, d, r.p)
    <2> DEFINE T == Holding(stage, d)
               script == PlayOf[d]
    <2>1. /\ T \subseteq Things /\ Has(proc, d, T) /\ Len(script) \in Nat /\ ~Mapping(script)
          /\ Undisturbed(script, Len(script)) /\ r \in Run(d, script, proc)
          /\ \A c : c.things = T /\ (d \in Porters => c.ports) => Orderly(d, script, c)
      BY <1>4, <1>8, <1>9, <1>10, <1>11
    <2> HIDE DEF T, script
    <2>2. /\ r.p.alive = "run" => Has(r.p, d, T)
          /\ Alive(proc.world, d, r.p)
      BY <1>1, <1>7, <2>1, LaterHas
    <2>3. QED
      BY <2>2 DEF T, script
  <1>13. r.p.alive = "run" => OwnHeld(r.p, stage, d)
    BY <1>1, <1>12 DEF OwnHeld
  <1>14. r.p.alive = "run" /\ proc.world \in Clean =>
           Still(proc, r.p) /\ Calm(r.p, PortsOn(stage))
    <2> SUFFICES ASSUME r.p.alive = "run", proc.world \in Clean
                 PROVE  Still(proc, r.p) /\ Calm(r.p, PortsOn(stage))
      OBVIOUS
    <2>1. Still(proc, r.p)
      BY <1>1, <1>7, RestStill
    <2> DEFINE on == PortsOn(stage)
    <2>2. Calm(proc, on)
      BY <1>1 DEF Life, Tidied
    <2> HIDE DEF on
    <2>3. Calm(r.p, on)
      BY <1>1, <2>2, LaterCalm
    <2>4. QED
      BY <2>1, <2>3 DEF on
  <1>15. r.p.alive # "run" => Alone(r.p)
    BY <1>6, <1>7, <1>12
  <1>16. QED
    <2> DEFINE q == r.p
               su == stage'
    <2>1. /\ Left(proc, q, d) /\ q.bmFd = proc.bmFd /\ su[d] # "closed"
          /\ \A e \in Drivers \ {d} : su[e] = stage[e]
          /\ q.alive = "run" => OwnHeld(q, su, d)
          /\ q.alive = "run" /\ proc.world \in Clean => Still(proc, q) /\ Calm(q, PortsOn(stage))
          /\ q.alive # "run" => Alone(q)
      BY <1>1, <1>5, <1>6, <1>13, <1>14, <1>15
    <2> HIDE DEF q, su
    <2>2. Life(q, su)
      BY <1>1, <2>1, StayLife
    <2>3. QED
      BY <1>2, <2>2 DEF q, su

\* The first frame of mach64 that is copied by bus mastering.
LEMMA CopyLife ==
  ASSUME TypeOK, Sound(proc, stage), Life(proc, stage), NEW d \in Drivers, CopyFrame(d)
  PROVE  Life(proc', stage')
  <1>1. /\ proc.alive = "run" /\ stage[d] # "closed" /\ proc \in Processes /\ Kinds(proc)
        /\ d \in Uses[proc.world] /\ d = "mach64" /\ stage' = stage /\ proc.dma[d]
    BY DEF CopyFrame, Runs, TypeOK, Sound, UseGood
  <1>2. proc' \in hwirq_install(proc, d)
    BY DEF CopyFrame
  <1> DEFINE q == proc'
  <1>3. q \in hwirq_install(proc, d)
    BY <1>2
  <1> HIDE DEF q
  <1>4. Left(proc, q, d) /\ Plain(proc, q) /\ q.alive = proc.alive
    BY <1>1, <1>3, InstallLeft
  <1>5. Still(proc, q)
    BY <1>1, <1>3, InstallStill
  <1>6. Aside(proc, q)
    BY <1>1, <1>3, InstallAside
  <1>7. q.world = proc.world /\ q.bmFd = proc.bmFd /\ AppFds(q) = AppFds(proc)
    BY <1>4 DEF Left, Plain
  <1>8. Has(proc, d, Holding(stage, d))
    BY <1>1 DEF Life, OwnHeld
  <1>9. Has(q, d, Holding(stage, d))
    <2>1. d \in Openers /\ q.bmFd # NoFd /\ d \notin Porters
      BY <1>1, <1>7, <1>8 DEF Has, Openers, Porters
    <2>2. QED
      BY <1>5, <1>8, <2>1 DEF Has, Still
  <1>10. OwnHeld(q, stage, d)
    BY <1>1, <1>9 DEF OwnHeld
  <1>11. proc.world \in Clean => Calm(q, PortsOn(stage))
    <2> SUFFICES ASSUME proc.world \in Clean
                 PROVE  Calm(q, PortsOn(stage))
      OBVIOUS
    <2>1. ~Paired(proc.world)
      <3>1. Uses[proc.world] \cap Openers # {}
        BY <1>1 DEF Openers
      <3>2. QED
        BY <3>1, PairedFacts
    <2> DEFINE on == PortsOn(stage)
    <2>2. Calm(proc, on)
      BY <1>1 DEF Life, Tidied
    <2> HIDE DEF on
    <2>3. Neat(q, on)
      BY <1>6, <1>7, <2>2, NeatOff DEF Aside, Calm
    <2>4. Sole(q) /\ Slim(q) /\ Counts(q)
      BY <1>6, <1>7, <2>1, <2>2 DEF Aside, Calm, Slim, Counts
    <2>5. QED
      BY <2>3, <2>4 DEF on, Calm
  <1>12. Life(q, stage)
    BY <1>1, <1>4, <1>5, <1>7, <1>10, <1>11, StayLife
  <1>13. QED
    BY <1>1, <1>12 DEF q

\* vdlClose
LEMMA CloseLife ==
  ASSUME TypeOK, Sound(proc, stage), Life(proc, stage), NEW d \in Drivers, CloseDriver(d)
  PROVE  Life(proc', stage')
  <1>1. /\ proc.alive = "run" /\ stage[d] # "closed" /\ proc \in Processes
        /\ Kinds(proc) /\ FilesGood(proc, stage) /\ BmGood(proc, stage) /\ UseGood(proc, stage)
    BY DEF CloseDriver, Runs, TypeOK, Sound
  <1>2. /\ d \in Uses[proc.world] /\ (proc.world \in Several \/ Used \subseteq {d})
        /\ (\E e \in Drivers \ {d} : stage[e] # "closed") => proc.world \in Several
    BY <1>1 DEF UseGood, Used
  <1>3. d = "ivtv" => OwnFiles(proc, d)
    BY <1>1 DEF FilesGood
  <1>4. d \in Closers => BmKept(proc)
    BY <1>1 DEF BmGood
  <1>5. PICK r \in Run(d, DestroyOf[d], proc) : proc' = Unload(d, r.p)
    BY DEF CloseDriver
  <1>6. Hand(proc, r.p, d) /\ r.p.bmFd = proc.bmFd
    BY <1>1, <1>3, <1>4, <1>5, DestroyRun
  <1>7. Left(proc, r.p, d) /\ r.p.world = proc.world
    BY <1>6 DEF Hand, Left
  <1>8. stage'[d] = "closed" /\ \A e \in Drivers \ {d} : stage'[e] = stage[e]
    BY DEF CloseDriver, TypeOK
  <1>9. Left(proc, proc', d)
    BY CloseStep
  <1>10. /\ Suitable(proc.world, d)
         /\ \A q : q.world = proc.world /\ q.alive # "run" /\ Alive(proc.world, d, q) => Alone(q)
    BY <1>1, <1>2, SuitsUses
  <1>11. Has(proc, d, Holding(stage, d))
    BY <1>1 DEF Life, OwnHeld
  <1>12. Holding(stage, d) \subseteq Things /\ All(InitOf[d]) \subseteq Holding(stage, d)
    BY DEF Holding, All, Obtained
  <1>13. Alive(proc.world, d, r.p)
    BY <1>1, <1>3, <1>4, <1>5, <1>10, <1>11, <1>12, DestroyAlive
  <1>14. r.p.alive # "run" => Alone(r.p)
    BY <1>7, <1>10, <1>13
  <1>15. ASSUME r.p.alive = "run", proc.world \in Clean
         PROVE  Calm(r.p, PortsOn(stage')) /\ Rid(r.p, d)
    <2>1. Calm(proc, PortsOn(stage)) /\ Keeps(proc, d)
      BY <1>1, <1>15 DEF Life, Tidied, OwnTidy
    <2>2. PortsOn(stage') <=> PortsOn(stage) /\ d \notin Porters
      BY <1>1, <1>2, <1>8, OnFacts
    <2> DEFINE on == PortsOn(stage)
    <2>3. Calm(proc, on) /\ (d \in Porters => on)
      BY <1>1, <2>1 DEF PortsOn
    <2> HIDE DEF on
    <2>4. Calm(r.p, on /\ d \notin Porters)
      BY <1>1, <1>2, <1>4, <1>5, <1>15, <2>3, DestroyCalm
    <2>5. Calm(r.p, PortsOn(stage'))
      BY <2>2, <2>4 DEF on, Calm, Neat
    <2>6. \A t \in All(InitOf[d]) : proc.ptr[d][t] = "held"
      BY <1>11, <1>12 DEF Has
    <2>7. Rid(r.p, d)
      BY <1>1, <1>2, <1>4, <1>5, <1>15, <2>1, <2>6, DestroyAccount
    <2>8. QED
      BY <2>5, <2>7
  <1>16. QED
    <2> DEFINE p == r.p
               q == proc'
               su == stage'
    <2>1. /\ Left(proc, p, d) /\ p.bmFd = proc.bmFd /\ q = Unload(d, p) /\ Left(proc, q, d)
          /\ su[d] = "closed" /\ \A e \in Drivers \ {d} : su[e] = stage[e]
          /\ p.alive # "run" => Alone(p)
          /\ p.alive = "run" /\ proc.world \in Clean => Calm(p, PortsOn(su)) /\ Rid(p, d)
      BY <1>5, <1>6, <1>7, <1>8, <1>9, <1>14, <1>15
    <2> HIDE DEF p, q, su
    <2>2. Life(q, su)
      BY <1>1, <1>2, <2>1, UnloadLife
    <2>3. QED
      BY <2>2 DEF q, su

\* The program's own files.
LEMMA AppLife ==
  ASSUME TypeOK, Sound(proc, stage), Life(proc, stage), AppOpen \/ \E f \in Fds : AppClose(f)
  PROVE  Life(proc', stage')
  <1>1. proc \in Processes /\ proc.alive = "run" /\ stage' = stage
    BY DEF AppOpen, AppClose, Runs, TypeOK
  <1>2. \E f \in Fds : \E u \in {"app", "none"} :
          /\ proc.owner[f] \in {"app", "none"} /\ proc' = [proc EXCEPT !.owner[f] = u]
          /\ u = "app" => Cardinality(AppFds(proc)) < Cardinality(Fds) - Reserve
    <2>1. CASE AppOpen
      <3>1. Min(FreeFds(proc)) \in FreeFds(proc)
        <4>1. FreeFds(proc) # {} /\ FreeFds(proc) \subseteq Nat
          BY <2>1, FdsAssumption DEF AppOpen, FreeFds
        <4>2. QED
          BY <4>1, MinIn
      <3>2. QED
        BY <2>1, <3>1 DEF AppOpen, FreeFds, AppFds
    <2>2. CASE \E f \in Fds : AppClose(f)
      BY <2>2 DEF AppClose, CloseFd
    <2>3. QED
      BY <2>1, <2>2
  <1>3. PICK f \in Fds, u \in {"app", "none"} :
          /\ proc.owner[f] \in {"app", "none"} /\ proc' = [proc EXCEPT !.owner[f] = u]
          /\ u = "app" => Cardinality(AppFds(proc)) < Cardinality(Fds) - Reserve
    BY <1>2
  <1> DEFINE q == proc'
  <1>4. /\ q.world = proc.world /\ q.alive = proc.alive /\ q.memFd = proc.memFd
        /\ q.memLocks = proc.memLocks /\ q.ioFd = proc.ioFd /\ q.ioCount = proc.ioCount
        /\ q.iopl = proc.iopl /\ q.bmFd = proc.bmFd /\ q.ptr = proc.ptr /\ q.live = proc.live
        /\ q.dma = proc.dma /\ q.owner = [proc.owner EXCEPT ![f] = u]
    BY <1>1, <1>3 DEF Processes
  <1> HIDE DEF q
  <1>5. /\ proc.owner \in [Fds -> Users]
        /\ \A m \in Fds : q.owner[m] \notin {"app", "none"} => q.owner[m] = proc.owner[m]
    BY <1>1, <1>4 DEF Processes
  <1>6. \A d \in Drivers : OwnHeld(q, stage, d)
    <2> SUFFICES ASSUME NEW d \in Drivers PROVE OwnHeld(q, stage, d)
      OBVIOUS
    <2>1. OwnHeld(proc, stage, d)
      BY <1>1 DEF Life
    <2>2. CASE stage[d] = "closed"
      BY <1>4, <2>1, <2>2 DEF OwnHeld
    <2>3. CASE stage[d] # "closed"
      <3>1. Has(proc, d, Holding(stage, d))
        BY <2>1, <2>3 DEF OwnHeld
      <3>2. Has(q, d, Holding(stage, d))
        BY <1>4, <3>1 DEF Has, PortsOpen
      <3>3. QED
        BY <2>3, <3>2 DEF OwnHeld
    <2>4. QED
      BY <2>2, <2>3
  <1>7. Counts(proc) => Counts(q)
    <2>1. /\ IsFiniteSet(Fds) /\ AppFds(proc) \subseteq Fds /\ AppFds(q) \subseteq Fds
          /\ IsFiniteSet(AppFds(proc)) /\ Cardinality(AppFds(proc)) \in Nat
          /\ Cardinality(AppFds(q)) \in Nat /\ Cardinality(Fds) \in Nat
      <3>1. /\ IsFiniteSet(Fds) /\ AppFds(proc) \subseteq Fds /\ AppFds(q) \subseteq Fds
        BY FdsAssumption DEF AppFds
      <3>2. QED
        BY <3>1, FS_Subset, FS_CardinalityType
    <2>2. CASE u = "app"
      <3>1. AppFds(q) = AppFds(proc) \cup {f}
        BY <1>4, <1>5, <2>2 DEF AppFds
      <3>2. Cardinality(AppFds(q)) <= Cardinality(AppFds(proc)) + 1
        BY <2>1, <3>1, OneMore
      <3>3. Reserve \in Int
        BY <2>1, BoundsAssumption
      <3>4. QED
        BY <1>3, <2>1, <2>2, <3>2, <3>3 DEF Counts
    <2>3. CASE u = "none"
      <3>1. AppFds(q) \subseteq AppFds(proc)
        BY <1>4, <1>5, <2>3 DEF AppFds
      <3>2. Cardinality(AppFds(q)) <= Cardinality(AppFds(proc))
        BY <2>1, <3>1, FS_Subset
      <3>3. Reserve \in Int
        BY <2>1, BoundsAssumption
      <3>4. QED
        BY <2>1, <3>2, <3>3 DEF Counts
    <2>4. QED
      BY <2>2, <2>3
  <1>8. proc.world \in Clean => Tidied(q, stage)
    <2> SUFFICES ASSUME proc.world \in Clean PROVE Tidied(q, stage)
      OBVIOUS
    <2>1. Tidied(proc, stage)
      BY <1>1 DEF Life
    <2> DEFINE on == PortsOn(stage)
    <2>2. Neat(proc, on) /\ Sole(proc) /\ Slim(proc) /\ Counts(proc)
      BY <2>1 DEF Tidied, Calm
    <2> HIDE DEF on
    <2>3. Neat(q, on)
      BY <1>4, <1>5, <2>2 DEF Neat
    <2>4. Sole(q) /\ Slim(q) /\ Counts(q)
      BY <1>4, <1>5, <1>7, <2>2 DEF Sole, Slim
    <2>5. Booked(q)
      BY <1>4, <2>1 DEF Tidied, Booked, Locks
    <2>6. \A d \in Drivers : OwnTidy(q, stage, d)
      BY <1>4, <2>1, <2>5 DEF Tidied, OwnTidy, Keeps, Account
    <2>7. QED
      BY <2>3, <2>4, <2>5, <2>6 DEF on, Tidied, Calm
  <1>9. QED
    BY <1>1, <1>4, <1>6, <1>8 DEF q, Life

----------------------------------------------------------------------------
\* The invariant holds at first, and every step keeps it.
LEMMA LifeInit ==
  ASSUME Init
  PROVE  LifeInv
  <1>1. PICK w \in Worlds : proc = Start(w)
    BY DEF Init
  <1>2. SoundInv /\ proc \in Processes
    BY SoundInit DEF SoundInv, TypeOK
  <1>3. \A d \in Drivers : stage[d] = "closed"
    BY DEF Init
  <1>4. /\ proc.alive = "run" /\ proc.memFd = NoFd /\ proc.ioFd = NoFd /\ proc.memLocks = 0
        /\ proc.ioCount = 0 /\ proc.iopl = FALSE /\ proc.world = w
        /\ \A f \in Fds : proc.owner[f] = "none"
        /\ \A d \in Drivers : proc.dma[d] = FALSE
        /\ \A d \in Drivers, t \in Things : proc.ptr[d][t] = "null" /\ proc.live[d][t] = 0
    BY <1>1 DEF Start
  <1>5. \A d \in Drivers : OwnHeld(proc, stage, d)
    BY <1>3, <1>4 DEF OwnHeld
  <1>6. w \in Clean => Tidied(proc, stage)
    <2>1. ~PortsOn(stage)
      BY <1>3 DEF PortsOn
    <2>2. Neat(proc, PortsOn(stage))
      BY <1>4, <2>1 DEF Neat
    <2>3. Sole(proc) /\ Slim(proc)
      BY <1>4 DEF Sole, Slim
    <2>4. Counts(proc)
      <3>1. AppFds(proc) = {} /\ IsFiniteSet(Fds)
        BY <1>4, FdsAssumption DEF AppFds
      <3>2. Cardinality(AppFds(proc)) = 0 /\ Cardinality(Fds) \in Nat
        BY <3>1, FS_EmptySet, FS_CardinalityType
      <3>3. QED
        BY <3>2, BoundsAssumption DEF Counts
    <2>5. Booked(proc)
      <3>1. Locks(proc) = {}
        BY <1>4 DEF Locks, Things
      <3>2. QED
        BY <1>4, <3>1, FS_EmptySet DEF Booked
    <2>6. QED
      BY <1>3, <1>4, <2>2, <2>3, <2>4, <2>5 DEF Tidied, Calm, OwnTidy
  <1>7. QED
    BY <1>2, <1>4, <1>5, <1>6 DEF LifeInv, Life

LEMMA LifeNext ==
  ASSUME LifeInv, [Next]_vars
  PROVE  LifeInv'
  <1>1. TypeOK /\ Sound(proc, stage) /\ Life(proc, stage) /\ SoundInv'
    BY SoundNext DEF LifeInv, SoundInv
  <1>2. Life(proc', stage')
    <2>1. CASE \E d \in Drivers : OpenDriver(d)
      BY <1>1, <2>1, OpenLife
    <2>2. CASE \E d \in Drivers : Search(d)
      BY <1>1, <2>2, SearchLife
    <2>3. CASE \E d \in Drivers : Config(d)
      BY <1>1, <2>3, ConfigLife
    <2>4. CASE \E d \in Drivers : Play(d)
      BY <1>1, <2>4, PlayLife
    <2>5. CASE \E d \in Drivers : CopyFrame(d)
      BY <1>1, <2>5, CopyLife
    <2>6. CASE \E d \in Drivers : CloseDriver(d)
      BY <1>1, <2>6, CloseLife
    <2>7. CASE AppOpen \/ \E f \in Fds : AppClose(f)
      BY <1>1, <2>7, AppLife
    <2>8. CASE UNCHANGED vars
      BY <1>1, <2>8 DEF vars
    <2>9. QED
      BY <2>1, <2>2, <2>3, <2>4, <2>5, <2>6, <2>7, <2>8 DEF Next, Stopped
  <1>3. QED
    BY <1>1, <1>2 DEF LifeInv

\* Between the calls of the program every open driver has what its handlers take for
\* granted, and where all is given back the counters of libdha count what is there.
THEOREM Lives == Spec => []LifeInv
  <1>1. Init => LifeInv
    BY LifeInit
  <1>2. LifeInv /\ [Next]_vars => LifeInv'
    BY LifeNext
  <1>3. QED
    BY <1>1, <1>2, PTL DEF Spec

\* The drivers that access ports after vixInit are those that need them open.
LEMMA UsesPortsOnly ==
  ASSUME NEW d \in DriverNames, UsesPorts(d)
  PROVE  d \in Porters
  <1>1. CASE d = "ivtv"
    <2>1. /\ \A s \in Range(IvtvDestroy) : s[1] # "ports"
          /\ \A s \in Range(IvtvConfig) : s[1] # "ports"
          /\ \A s \in Range(IvtvPlay) : s[1] # "ports"
      BY DEF Range, IvtvDestroy, IvtvConfig, IvtvPlay
    <2>2. QED
      BY <1>1, <2>1 DEF UsesPorts, DestroyOf, ConfigOf, PlayOf
  <1>2. CASE d = "mach64"
    <2>1. /\ \A s \in Range(Mach64Destroy) : s[1] # "ports"
          /\ \A s \in Range(Mach64Config) : s[1] # "ports"
          /\ \A s \in Range(Mach64Play) : s[1] # "ports"
      BY DEF Range, Mach64Destroy, Mach64Config, Mach64Play
    <2>2. QED
      BY <1>2, <2>1 DEF UsesPorts, DestroyOf, ConfigOf, PlayOf
  <1>3. CASE d = "mga"
    <2>1. /\ \A s \in Range(MgaDestroy) : s[1] # "ports"
          /\ \A s \in Range(MgaConfig) : s[1] # "ports"
          /\ \A s \in Range(MgaPlay) : s[1] # "ports"
      BY DEF Range, MgaDestroy, MgaConfig, MgaPlay
    <2>2. QED
      BY <1>3, <2>1 DEF UsesPorts, DestroyOf, ConfigOf, PlayOf
  <1>4. CASE d = "nvidia"
    <2>1. /\ \A s \in Range(NvidiaDestroy) : s[1] # "ports"
          /\ \A s \in Range(NvidiaConfig) : s[1] # "ports"
          /\ \A s \in Range(NvidiaPlay) : s[1] # "ports"
      BY DEF Range, NvidiaDestroy, NvidiaConfig, NvidiaPlay
    <2>2. QED
      BY <1>4, <2>1 DEF UsesPorts, DestroyOf, ConfigOf, PlayOf
  <1>5. CASE d = "pm2"
    <2>1. /\ \A s \in Range(Pm2Destroy) : s[1] # "ports"
          /\ \A s \in Range(Pm2Config) : s[1] # "ports"
          /\ \A s \in Range(Pm2Play) : s[1] # "ports"
      BY DEF Range, Pm2Destroy, Pm2Config, Pm2Play
    <2>2. QED
      BY <1>5, <2>1 DEF UsesPorts, DestroyOf, ConfigOf, PlayOf
  <1>6. CASE d = "pm3"
    <2>1. /\ \A s \in Range(Pm3Destroy) : s[1] # "ports"
          /\ \A s \in Range(Pm3Config) : s[1] # "ports"
          /\ \A s \in Range(Pm3Play) : s[1] # "ports"
      BY DEF Range, Pm3Destroy, Pm3Config, Pm3Play
    <2>2. QED
      BY <1>6, <2>1 DEF UsesPorts, DestroyOf, ConfigOf, PlayOf
  <1>7. CASE d = "radeon"
    <2>1. /\ \A s \in Range(RadeonDestroy) : s[1] # "ports"
          /\ \A s \in Range(RadeonConfig) : s[1] # "ports"
          /\ \A s \in Range(RadeonPlay) : s[1] # "ports"
      BY DEF Range, RadeonDestroy, RadeonConfig, RadeonPlay
    <2>2. QED
      BY <1>7, <2>1 DEF UsesPorts, DestroyOf, ConfigOf, PlayOf
  <1>8. CASE d = "radeonhd"
    <2>1. /\ \A s \in Range(RadeonhdDestroy) : s[1] # "ports"
          /\ \A s \in Range(RadeonhdConfig) : s[1] # "ports"
          /\ \A s \in Range(RadeonhdPlay) : s[1] # "ports"
      BY DEF Range, RadeonhdDestroy, RadeonhdConfig, RadeonhdPlay
    <2>2. QED
      BY <1>8, <2>1 DEF UsesPorts, DestroyOf, ConfigOf, PlayOf
  <1>9. CASE d = "s3"
    <2>1. /\ \A s \in Range(S3Destroy) : s[1] # "ports"
          /\ \A s \in Range(S3Config) : s[1] # "ports"
          /\ \A s \in Range(S3Play) : s[1] # "ports"
      BY DEF Range, S3Destroy, S3Config, S3Play
    <2>2. QED
      BY <1>9, <2>1 DEF UsesPorts, DestroyOf, ConfigOf, PlayOf
  <1>10. CASE d = "savage"
    <2>1. /\ \A s \in Range(SavageDestroy) : s[1] # "ports"
          /\ \A s \in Range(SavageConfig) : s[1] # "ports"
          /\ \A s \in Range(SavagePlay) : s[1] # "ports"
      BY DEF Range, SavageDestroy, SavageConfig, SavagePlay
    <2>2. QED
      BY <1>10, <2>1 DEF UsesPorts, DestroyOf, ConfigOf, PlayOf
  <1>11. QED
    BY <1>1, <1>2, <1>3, <1>4, <1>5, <1>6, <1>7, <1>8, <1>9, <1>10 DEF DriverNames, Porters

\* What the invariant says of the program and of its open drivers.
LEMMA LifeHeld ==
  ASSUME LifeInv
  PROVE  ResourcesHeld
  <1> SUFFICES ASSUME proc.alive = "run", NEW d \in Drivers, stage[d] # "closed"
               PROVE  /\ UsesPorts(d) => PortAccess(proc)
                      /\ proc.dma[d] => Helper(proc, proc.bmFd)
                      /\ \A r \in Regions : proc.ptr[d][r] # "failed"
    BY DEF ResourcesHeld, Runs, Used
  <1>1. proc \in Processes /\ Kinds(proc) /\ BmGood(proc, stage)
    BY DEF LifeInv, SoundInv, Sound, TypeOK
  <1>2. Has(proc, d, Holding(stage, d))
    BY DEF LifeInv, Life, OwnHeld
  <1>3. UsesPorts(d) => PortAccess(proc)
    <2>1. UsesPorts(d) => PortsOpen(proc)
      BY <1>2, DriversAssumption, UsesPortsOnly DEF Has
    <2>2. proc.ioFd # NoFd => proc.ioFd \in Fds /\ proc.owner[proc.ioFd] = "io"
      BY <1>1 DEF Kinds, Processes
    <2>3. QED
      BY <2>1, <2>2 DEF PortsOpen, PortAccess, Helper
  <1>4. proc.dma[d] => Helper(proc, proc.bmFd)
    <2> SUFFICES ASSUME proc.dma[d] PROVE Helper(proc, proc.bmFd)
      OBVIOUS
    <2>1. d \in Closers /\ proc.bmFd # NoFd
      BY <1>2 DEF Has, Closers
    <2>2. BmKept(proc)
      BY <1>1, <2>1 DEF BmGood
    <2>3. proc.bmFd \in Fds
      BY <1>1, <2>1 DEF Processes
    <2>4. QED
      BY <2>1, <2>2, <2>3 DEF BmKept, Helper
  <1>5. \A r \in Regions : proc.ptr[d][r] # "failed"
    BY <1>2 DEF Has, Things
  <1>6. QED
    BY <1>3, <1>4, <1>5

\* ResourcesHeld: an open driver keeps the ports, the helper and its mappings, whatever
\* other drivers are opened, tried and closed meanwhile.
THEOREM Holders == Spec => []ResourcesHeld
  BY Lives, LifeHeld, PTL

\* AppSurvives: where mappings do not fail no handler ends the program, except through
\* libdha when no descriptor is left.
THEOREM Survivors == Spec => []AppSurvives
  <1>1. LifeInv => AppSurvives
    BY DEF LifeInv, Life, Alone, Ended, AppSurvives, Runs
  <1>2. QED
    BY <1>1, Lives, PTL

\* AppUnharmed: the program survives its drivers, and they and the library close only
\* descriptors they opened.
THEOREM Unharmed == Spec => AppUnharmed
  BY Survivors, OwnFilesOnly, PTL DEF AppUnharmed

----------------------------------------------------------------------------
\* Interrupts and bus mastering.

\* Calls that have no part in interrupts and bus mastering.
LEMMA MuteThen ==
  ASSUME NEW p, NEW q, NEW r, Mute(p, q), Mute(q, r)
  PROVE  Mute(p, r)
  BY DEF Mute

LEMMA SaysMute ==
  ASSUME NEW p \in Processes, NEW b
  PROVE  /\ Mute(p, p) /\ Mute(p, Says(p, b)) /\ Mute(p, Exits(p)) /\ Mute(p, Faults(p))
  BY DEF Mute, Says, Exits, Faults, Processes

LEMMA EnableMute ==
  ASSUME NEW p \in Processes, NEW q \in enable_app_io(p)
  PROVE  Mute(p, q)
  <1>1. ASSUME NEW f \in Fds, q = Enabled(p, f)
        PROVE  Mute(p, q)
    BY <1>1 DEF Enabled, Mute, Processes
  <1>2. ASSUME NEW b, q = Refused(p, b)
        PROVE  Mute(p, q)
    BY <1>2 DEF Refused, Mute, Processes
  <1>3. QED
    BY <1>1, <1>2, EnableDo

LEMMA DisableMute ==
  ASSUME NEW p \in Processes
  PROVE  Mute(p, Disabled(p))
  BY DEF Disabled, Mute, Processes

LEMMA ScanMute ==
  ASSUME NEW p \in Processes, Kinds(p), p.alive = "run", NEW q \in pci_scan(p)
  PROVE  Mute(p, q)
  <1>1. CASE q = Says(p, TRUE)
    BY <1>1, SaysMute
  <1>2. CASE ScanFallback(p, q)
    <2> DEFINE n == Says(p, FALSE)
    <2>1. n \in Processes /\ Mute(p, n) /\ Kinds(n)
      BY SaysMute, SaysLeft, LeftTyped
    <2>2. PICK e \in enable_app_io(n) :
            IF e.ok THEN \E b \in Works[p.world]["bus"] : q = Disabled(Says(e, b)) ELSE q = e
      BY <1>2 DEF ScanFallback
    <2> HIDE DEF n
    <2>3. Mute(n, e) /\ e \in Processes /\ Kinds(e)
      BY <2>1, <2>2, EnableMute, EnableLeft, LeftTyped
    <2>4. ASSUME NEW b \in Works[p.world]["bus"], q = Disabled(Says(e, b))
          PROVE  Mute(e, q)
      <3>1. b \in BOOLEAN
        BY WorksBoolean DEF Calls
      <3>2. Says(e, b) \in Processes /\ Mute(e, Says(e, b))
        BY <2>3, <3>1, SaysLeft, SaysMute, LeftTyped
      <3>3. QED
        BY <2>4, <3>2, DisableMute, MuteThen
    <2>5. Mute(e, q)
      BY <2>2, <2>3, <2>4, SaysMute
    <2>6. QED
      BY <2>1, <2>3, <2>5, MuteThen
  <1>3. QED
    BY <1>1, <1>2, ScanDo

LEMMA ProbePortsMute ==
  ASSUME NEW p \in Processes, Kinds(p), p.alive = "run", NEW q \in ProbePorts(p)
  PROVE  Mute(p, q)
  <1>1. CASE q = p
    BY <1>1, SaysMute
  <1>2. CASE q # p
    <2>1. PICK e \in enable_app_io(p) :
            q = IF ~e.ok THEN e ELSE IF PortAccess(e) THEN Disabled(e) ELSE Faults(e)
      BY <1>2, ProbePortsDo
    <2>2. Mute(p, e) /\ e \in Processes
      BY EnableMute, EnableLeft, LeftTyped
    <2>3. Mute(e, q)
      BY <2>1, <2>2, DisableMute, SaysMute
    <2>4. QED
      BY <2>2, <2>3, MuteThen
  <1>3. QED
    BY <1>1, <1>2

LEMMA MapMute ==
  ASSUME NEW p \in Processes, Kinds(p), p.alive = "run", NEW d \in Drivers, NEW r \in Regions,
         NEW q \in map_phys_mem(p, d, r)
  PROVE  Mute(p, q)
  <1>1. PICK m \in OpenMem(p) :
          IF m.alive = "run" THEN \E b \in Works[p.world]["map"] : q = Mapped(m, d, r, b)
          ELSE q = m
    BY MapDo
  <1>2. m \in Processes
    BY OpenMemLeft, LeftTyped
  <1>3. Mute(p, m)
    <2>1. ASSUME NEW f \in Fds, m = MemOpened(p, f)
          PROVE  Mute(p, m)
      BY <2>1 DEF MemOpened, Mute, Processes
    <2>2. CASE m = Exits(Says(p, FALSE))
      <3>1. Says(p, FALSE) \in Processes
        BY SaysLeft, LeftTyped
      <3>2. QED
        BY <2>2, <3>1, SaysMute, MuteThen
    <2>3. QED
      BY <2>1, <2>2, SaysMute, OpenMemDo
  <1>4. ASSUME NEW b, q = Mapped(m, d, r, b)
        PROVE  Mute(m, q)
    BY <1>2, <1>4 DEF Mapped, Mute, Processes
  <1>5. QED
    BY <1>1, <1>3, <1>4, MuteThen

LEMMA UnmapMute ==
  ASSUME NEW p \in Processes, Kinds(p), NEW d \in Drivers, NEW r \in Regions, NEW x,
         NEW q \in unmap_phys_mem(p, d, r, x)
  PROVE  Mute(p, q)
  <1> DEFINE c == Counted(p, d, r, x)
  <1>1. CASE q = Exits(p)
    BY <1>1, SaysMute
  <1>2. CASE q = Unmapped(p, d, r, x)
    <2>1. c \in Processes
      BY CountedLeft, LeftTyped
    <2>2. Mute(p, c)
      BY DEF Counted, Mute, Processes
    <2> HIDE DEF c
    <2>3. Mute(c, q)
      <3>1. q = c \/ q = [c EXCEPT !.owner[p.memFd] = "none", !.memFd = NoFd]
        BY <1>2 DEF Unmapped, c
      <3>2. /\ q.irq = c.irq /\ q.irqFd = c.irqFd /\ q.irqUsed = c.irqUsed /\ q.bmFd = c.bmFd
            /\ q.owner = c.owner \/ q.owner = [c.owner EXCEPT ![p.memFd] = "none"]
        BY <2>1, <3>1 DEF Processes
      <3>3. c.owner \in [Fds -> Users]
        BY <2>1 DEF Processes
      <3>4. QED
        BY <3>2, <3>3 DEF Mute
    <2>4. QED
      BY <2>2, <2>3, MuteThen
  <1>3. QED
    BY <1>1, <1>2, UnmapDo

LEMMA AllocMute ==
  ASSUME NEW p \in Processes, NEW d \in Drivers, NEW t \in Blocks,
         NEW q \in alloc(p, d, t) \cup free(p, d, t)
  PROVE  Mute(p, q)
  <1>1. (\E b \in BOOLEAN : q = Alloced(p, d, t, b)) \/ q = Freed(p, d, t)
    BY AllocDo DEF free, Freed
  <1>2. QED
    BY <1>1 DEF Alloced, Freed, Mute, Processes

LEMMA MemoryMute ==
  ASSUME NEW p \in Processes, Kinds(p), NEW d \in Drivers, p.alive = "run", NEW q \in Memory(p, d)
  PROVE  Mute(p, q)
  <1>1. PICK b \in Works[p.world]["memory"] :
          /\ b \in BOOLEAN
          /\ IF b THEN q = Says(p, b) ELSE q \in unmap_phys_mem(Says(p, b), d, "mem", "sized")
    BY MemoryDo
  <1>2. Mute(p, Says(p, b)) /\ Says(p, b) \in Processes /\ Kinds(Says(p, b))
    BY <1>1, SaysMute, SaysLeft, LeftTyped
  <1>3. CASE b
    BY <1>1, <1>2, <1>3
  <1>4. CASE ~b
    <2>1. Mute(Says(p, b), q)
      BY <1>1, <1>2, <1>4, UnmapMute DEF Regions
    <2>2. QED
      BY <1>2, <2>1, MuteThen
  <1>5. QED
    BY <1>3, <1>4

LEMMA PlainMute ==
  ASSUME NEW p \in Processes, Kinds(p), p.alive = "run", NEW d \in Drivers, NEW s, IsPlain(s),
         s[1] \notin {"uninstall", "uninstallIf"}, NEW q \in Calling(d, s, p)
  PROVE  Mute(p, q)
  <1>1. CASE s[1] \in {"card", "fits"}
    <2>1. PICK c \in Calls : q \in Try(p, c)
      BY <1>1 DEF Calling, Calls
    <2>2. \E b \in Works[p.world][c] : q = Says(p, b)
      BY <2>1, TryDo DEF Says
    <2>3. QED
      BY <2>2, SaysMute
  <1>2. CASE s[1] = "ports"
    <2>1. q \in ports(p)
      BY <1>2 DEF Calling
    <2>2. QED
      BY <2>1, SaysMute DEF ports
  <1>3. CASE s[1] = "regs"
    <2>1. q \in regs(p, d, s[2])
      BY <1>3 DEF Calling
    <2>2. QED
      BY <2>1, SaysMute DEF regs
  <1>4. CASE s[1] = "scan"
    BY <1>4, ScanMute DEF Calling
  <1>5. CASE s[1] = "probePorts"
    BY <1>5, ProbePortsMute DEF Calling
  <1>6. CASE s[1] \in {"enable", "enableOr"}
    BY <1>6, EnableMute DEF Calling
  <1>7. CASE s[1] = "disable"
    <2>1. q = Disabled(p)
      BY <1>7, DisableDo DEF Calling
    <2>2. QED
      BY <2>1, DisableMute
  <1>8. CASE s[1] = "memory"
    BY <1>8, MemoryMute DEF Calling
  <1>9. CASE s[1] \in {"map", "mapOr"} /\ s[2] \in Regions
    BY <1>9, MapMute DEF Calling
  <1>10. CASE s[1] \in {"unmap", "unmapSized", "unmapIf"} /\ s[2] \in Regions
    <2>1. q = p \/ \E x : q \in unmap_phys_mem(p, d, s[2], x)
      <3>1. CASE s[1] = "unmap"
        BY <3>1 DEF Calling
      <3>2. CASE s[1] = "unmapSized"
        BY <3>2 DEF Calling
      <3>3. CASE s[1] = "unmapIf"
        BY <3>3 DEF Calling
      <3>4. QED
        BY <1>10, <3>1, <3>2, <3>3
    <2>2. QED
      BY <1>10, <2>1, SaysMute, UnmapMute
  <1>11. CASE s[1] \in {"alloc", "allocOr", "free"} /\ s[2] \in Blocks
    <2>1. q \in alloc(p, d, s[2]) \cup free(p, d, s[2])
      BY <1>11 DEF Calling
    <2>2. QED
      BY <1>11, <2>1, AllocMute
  <1>12. QED
    BY <1>1, <1>2, <1>3, <1>4, <1>5, <1>6, <1>7, <1>8, <1>9, <1>10, <1>11 DEF IsPlain

----------------------------------------------------------------------------
\* Calls and what they do to the claims of the open drivers.
LEMMA MuteKeeps ==
  ASSUME NEW p \in Processes, NEW q, Mute(p, q), NEW a, NEW b, a => b
  PROVE  /\ Wired(p) => Wired(q)
         /\ Claims(p, a) => Claims(q, b)
  BY DEF Mute, Wired, Claims

LEMMA UninstallWired ==
  ASSUME NEW p \in Processes, Kinds(p), NEW d \in Drivers, Wired(p),
         NEW q \in hwirq_uninstall(p, d), NEW a, NEW b, Claims(p, a), a => b
  PROVE  Wired(q) /\ Claims(q, b) /\ q.irq[d] # "yes"
  <1>1. q = Uninstalled(p, d)
    BY UninstallDo DEF Wired
  <1>2. /\ q.irqFd = p.irqFd /\ q.irqUsed = p.irqUsed /\ q.bmFd = p.bmFd /\ q.owner = p.owner
        /\ \A e \in Drivers : q.irq[e] = IF e = d /\ p.irqFd # NoFd THEN "no" ELSE p.irq[e]
    BY <1>1 DEF Uninstalled, Processes
  <1>3. QED
    BY <1>2 DEF Wired, Claims

LEMMA InstallWired ==
  ASSUME NEW p \in Processes, Kinds(p), NEW d \in Drivers, d \in {"mach64", "pm3"}, Wired(p),
         NEW q \in hwirq_install(p, d), NEW a, NEW b, Claims(p, a), a => b
  PROVE  Wired(q) /\ Claims(q, b)
  <1>0. NoFd \notin Fds
    BY FdsAssumption DEF NoFd
  <1>1. CASE p.irqFd # NoFd /\ \E c \in BOOLEAN : q = Installed(p, d, c)
    <2>1. /\ q.irqFd = p.irqFd /\ q.irqUsed /\ q.bmFd = p.bmFd /\ q.owner = p.owner
          /\ \A e \in Drivers : e # d => q.irq[e] = p.irq[e]
      BY <1>1 DEF Installed, Processes
    <2>2. QED
      BY <1>1, <2>1 DEF Wired, Claims
  <1>2. CASE p.irqFd = NoFd /\ q = Installed(p, d, FALSE)
    <2>1. /\ q.irqFd = p.irqFd /\ q.irqUsed /\ q.bmFd = p.bmFd /\ q.owner = p.owner
          /\ q.irq[d] = "tried" /\ \A e \in Drivers : e # d => q.irq[e] = p.irq[e]
      BY <1>2 DEF Installed, Processes
    <2>2. QED
      BY <1>2, <2>1 DEF Wired, Claims
  <1>3. ASSUME NEW f \in Fds, p.owner[f] = "none", NEW c \in BOOLEAN,
               q = Installed(IrqOpened(p, f), d, c)
        PROVE  Wired(q) /\ Claims(q, b)
    <2>1. /\ q.irqFd = f /\ q.irqUsed /\ q.bmFd = p.bmFd
          /\ q.owner = [p.owner EXCEPT ![f] = "irq"]
          /\ \A e \in Drivers : e # d => q.irq[e] = p.irq[e]
      BY <1>3 DEF Installed, IrqOpened, Processes
    <2>2. p.owner \in [Fds -> Users]
      BY DEF Processes
    <2>3. QED
      BY <1>0, <2>1, <2>2 DEF Wired, Claims
  <1>4. QED
    BY <1>1, <1>2, <1>3, InstallDo

LEMMA BmOpenClaims ==
  ASSUME NEW p \in Processes, FALSE \notin Works[p.world]["version"], NEW q \in bm_open(p),
         Wired(p), Claims(p, FALSE)
  PROVE  Wired(q) /\ Claims(q, TRUE)
  <1>1. ASSUME NEW f \in Fds, q = BmOpened(p, f)
        PROVE  Wired(q) /\ Claims(q, TRUE)
    <2>1. /\ q.irqFd = p.irqFd /\ q.irqUsed = p.irqUsed /\ q.irq = p.irq /\ q.bmFd = f
          /\ q.owner = [p.owner EXCEPT ![f] = "bm"] /\ p.owner \in [Fds -> Users]
      BY <1>1 DEF BmOpened, Processes
    <2>2. QED
      BY <2>1 DEF Wired, Claims
  <1>2. CASE q = BmRefused(p)
    <2>1. /\ q.irqFd = p.irqFd /\ q.irqUsed = p.irqUsed /\ q.irq = p.irq
          /\ q.owner = p.owner
      BY <1>2 DEF BmRefused, Processes
    <2>2. QED
      BY <2>1 DEF Wired, Claims
  <1>3. QED
    BY <1>1, <1>2, BmOpenDo

LEMMA BmCloseClaims ==
  ASSUME NEW p \in Processes, NEW q \in bm_close(p), Wired(p), NEW a, Claims(p, a), NEW b
  PROVE  Wired(q) /\ Claims(q, b) /\ q.irq = p.irq
  <1>1. q = CloseFd(p, p.bmFd)
    BY DEF bm_close
  <1>2. /\ q.irqFd = p.irqFd /\ q.irqUsed = p.irqUsed /\ q.irq = p.irq
        /\ \A f \in Fds : q.owner[f] = IF f = p.bmFd THEN "none" ELSE p.owner[f]
    BY <1>1 DEF CloseFd, Processes
  <1>3. QED
    BY <1>2 DEF Wired, Claims

\* The parts of vixInit that set up bus mastering.
LEMMA MastersClaims ==
  ASSUME NEW p \in Processes, NEW d \in Drivers, NEW t \in Blocks, NEW b, NEW c,
         NEW q, q = Masters(Alloced(p, d, t, b), d, c), Wired(p), Claims(p, TRUE)
  PROVE  Wired(q) /\ Claims(q, TRUE)
  <1>1. /\ q.irqFd = p.irqFd /\ q.irqUsed = p.irqUsed /\ q.irq = p.irq /\ q.bmFd = p.bmFd
        /\ q.owner = p.owner
    BY DEF Masters, Alloced, Processes
  <1>2. QED
    BY <1>1 DEF Wired, Claims

LEMMA BmTableClaims ==
  ASSUME NEW p \in Processes, Kinds(p), p.alive = "run", NEW d \in Drivers,
         FALSE \notin Works[p.world]["version"], NEW q \in BmTable(p, d),
         Wired(p), Claims(p, FALSE)
  PROVE  Wired(q) /\ Claims(q, TRUE)
  <1>1. PICK n \in bm_open(p) :
          \/ ~n.ok /\ q = n
          \/ /\ n.ok
             /\ \E b \in BOOLEAN : q = Masters(Alloced(n, d, "table", b), d, b)
    BY BmTableDo
  <1>2. n \in Processes /\ Wired(n) /\ Claims(n, TRUE)
    <2>1. n \in Processes
      BY BmOpenLeft, LeftTyped
    <2>2. QED
      BY <2>1, BmOpenClaims
  <1>3. "table" \in Blocks
    BY DEF Blocks
  <1>4. QED
    BY <1>1, <1>2, <1>3, MastersClaims

LEMMA BmListsClaims ==
  ASSUME NEW p \in Processes, Kinds(p), p.alive = "run", NEW d \in Drivers,
         FALSE \notin Works[p.world]["version"], NEW q \in BmLists(p, d),
         Wired(p), Claims(p, FALSE)
  PROVE  Wired(q) /\ Claims(q, TRUE)
  <1>1. PICK n \in BmTable(p, d) :
          \/ ~n.dma[d] /\ q = n
          \/ /\ n.dma[d]
             /\ \E b \in BOOLEAN : q = Masters(Alloced(n, d, "block", b), d, b)
    <2>1. ListsMade(p, d, q)
      BY BmListsDo
    <2>2. QED
      BY <2>1 DEF ListsMade
  <1>2. n \in Processes
    BY BmTableLeft, LeftTyped
  <1>3. Wired(n) /\ Claims(n, TRUE)
    BY BmTableClaims
  <1>4. "block" \in Blocks
    BY DEF Blocks
  <1>5. QED
    BY <1>1, <1>2, <1>3, <1>4, MastersClaims

LEMMA BmIrqClaims ==
  ASSUME NEW p \in Processes, Kinds(p), p.alive = "run", NEW d \in Drivers,
         d \in {"mach64", "pm3"},
         FALSE \notin Works[p.world]["version"], NEW q \in BmIrq(p, d),
         Wired(p), Claims(p, FALSE)
  PROVE  Wired(q) /\ Claims(q, TRUE)
  <1>1. PICK n \in bm_open(p) :
          \/ ~n.ok /\ q = n
          \/ /\ n.ok
             /\ \E r \in hwirq_install(n, d) :
                  q = IF r.ptr[d]["ctl"] = "held" THEN Masters(r, d, TRUE) ELSE Faults(r)
    BY BmIrqDo
  <1>2. n \in Processes /\ Kinds(n)
    BY BmOpenLeft, LeftTyped
  <1>3. Wired(n) /\ Claims(n, TRUE)
    BY BmOpenClaims
  <1>4. ASSUME NEW r \in hwirq_install(n, d),
               q = IF r.ptr[d]["ctl"] = "held" THEN Masters(r, d, TRUE) ELSE Faults(r)
        PROVE  Wired(q) /\ Claims(q, TRUE)
    <2>1. Wired(r) /\ Claims(r, TRUE)
      BY <1>2, <1>3, InstallWired
    <2>2. r \in Processes
      BY <1>2, InstallLeft, LeftTyped
    <2>3. /\ q.irqFd = r.irqFd /\ q.irqUsed = r.irqUsed /\ q.irq = r.irq /\ q.bmFd = r.bmFd
          /\ q.owner = r.owner
      BY <1>4, <2>2 DEF Masters, Faults, Processes
    <2>4. QED
      BY <2>1, <2>3 DEF Wired, Claims
  <1>5. QED
    BY <1>1, <1>3, <1>4

LEMMA CallClaims ==
  ASSUME NEW p \in Processes, Kinds(p), p.alive = "run", NEW d \in Drivers,
         d \in Openers => FALSE \notin Works[p.world]["version"], NEW s, Made(d, s),
         NEW a, NEW b, Passes(d, s, a, b), Wired(p), Claims(p, a), NEW q \in Calling(d, s, p)
  PROVE  /\ Wired(q) /\ Claims(q, b)
         /\ Frees(s) => q.irq[d] # "yes"
         /\ s[1] # "bmIrq" /\ p.irq[d] # "yes" => q.irq[d] # "yes"
  <1>1. CASE IsBm(s)
    <2>1. Claims(p, FALSE) /\ b /\ ~Frees(s) /\ d \in Openers
      BY <1>1 DEF Passes, Claims, IsBm, Frees, Made, IsPlain
    <2>2. Wired(q) /\ Claims(q, TRUE)
      <3>1. CASE s[1] = "bmIrq"
        <4>1. d \in {"mach64", "pm3"} /\ q \in BmIrq(p, d)
          BY <3>1 DEF Passes, Calling
        <4>2. QED
          BY <2>1, <4>1, BmIrqClaims
      <3>2. CASE s[1] = "bmTable"
        <4>1. q \in BmTable(p, d)
          BY <3>2 DEF Calling
        <4>2. QED
          BY <2>1, <4>1, BmTableClaims
      <3>3. CASE s[1] = "bmLists"
        <4>1. q \in BmLists(p, d)
          BY <3>3 DEF Calling
        <4>2. QED
          BY <2>1, <4>1, BmListsClaims
      <3>4. QED
        BY <1>1, <3>1, <3>2, <3>3 DEF IsBm
    <2>3. s[1] # "bmIrq" => d \in {"mach64", "radeon", "pm3"}
      BY <2>1 DEF Openers
    <2>4. s[1] # "bmIrq" => q.irq = p.irq
      <3>1. ASSUME NEW n \in bm_open(p)
            PROVE  n.irq = p.irq /\ n \in Processes
        <4>1. n \in Processes
          BY <2>1, <3>1, BmOpenLeft, LeftTyped
        <4>2. (\E f \in Fds : n = BmOpened(p, f)) \/ n = BmRefused(p)
          BY <2>1, <3>1, BmOpenDo
        <4>3. ASSUME NEW f \in Fds, n = BmOpened(p, f) PROVE n.irq = p.irq
          BY <4>3 DEF BmOpened, Processes
        <4>4. n = BmRefused(p) => n.irq = p.irq
          BY DEF BmRefused, Processes
        <4>5. QED
          BY <4>1, <4>2, <4>3, <4>4
      <3>2. ASSUME NEW n \in BmTable(p, d)
            PROVE  n.irq = p.irq /\ n \in Processes
        <4>1. PICK m \in bm_open(p) :
                \/ ~m.ok /\ n = m
                \/ /\ m.ok
                   /\ \E c \in BOOLEAN : n = Masters(Alloced(m, d, "table", c), d, c)
          BY <2>1, BmTableDo
        <4>2. m.irq = p.irq /\ m \in Processes
          BY <3>1
        <4>3. n.irq = m.irq
          BY <4>1, <4>2 DEF Masters, Alloced, Processes
        <4>4. QED
          BY <2>1, <4>2, <4>3, BmTableLeft, LeftTyped
      <3>3. CASE s[1] = "bmTable"
        BY <3>2, <3>3 DEF Calling
      <3>4. CASE s[1] = "bmLists"
        <4>1. q \in BmLists(p, d)
          BY <3>4 DEF Calling
        <4>2. PICK n \in BmTable(p, d) :
                \/ ~n.dma[d] /\ q = n
                \/ /\ n.dma[d]
                   /\ \E c \in BOOLEAN : q = Masters(Alloced(n, d, "block", c), d, c)
          <5>1. ListsMade(p, d, q)
            BY <2>1, <4>1, BmListsDo
          <5>2. QED
            BY <5>1 DEF ListsMade
        <4>3. n.irq = p.irq /\ n \in Processes
          BY <3>2
        <4>4. QED
          BY <4>2, <4>3 DEF Masters, Alloced, Processes
      <3>5. QED
        BY <1>1, <3>3, <3>4 DEF IsBm
    <2>5. Claims(q, b)
      BY <2>1, <2>2 DEF Claims
    <2>6. QED
      BY <2>1, <2>2, <2>4, <2>5
  <1>2. CASE s[1] = "bmClose"
    <2>1. q \in bm_close(p) /\ ~Frees(s)
      BY <1>2 DEF Calling, Frees
    <2>2. Wired(q) /\ Claims(q, b) /\ q.irq = p.irq
      BY <2>1, BmCloseClaims
    <2>3. QED
      BY <2>1, <2>2
  <1>3. CASE IsPlain(s) /\ s[1] \notin {"uninstall", "uninstallIf"}
    <2>1. Mute(p, q)
      BY <1>3, PlainMute
    <2>2. a => b
      BY <1>3 DEF Passes, IsPlain, IsBm
    <2>3. Wired(q)
      BY <2>1, <2>2, MuteKeeps
    <2>4. Claims(q, b)
      BY <2>1, <2>2, MuteKeeps
    <2>5. QED
      BY <1>3, <2>1, <2>3, <2>4 DEF Frees, Mute
  <1>4. CASE s[1] \in {"uninstall", "uninstallIf"}
    <2>1. a => b
      BY <1>4 DEF Passes, IsBm
    <2>2. CASE q \in hwirq_uninstall(p, d)
      <3>1. Wired(q) /\ Claims(q, b) /\ q.irq[d] # "yes"
        BY <2>1, <2>2, UninstallWired
      <3>2. QED
        BY <3>1
    <2>3. CASE q = p /\ p.irq[d] # "yes"
      BY <2>1, <2>3 DEF Claims
    <2>4. QED
      BY <1>4, <2>2, <2>3 DEF Calling
  <1>5. QED
    BY <1>1, <1>2, <1>3, <1>4 DEF Made

\* A handler, call by call.
LEMMA ClaimsRun ==
  ASSUME NEW p \in Processes, Kinds(p), p.alive = "run", NEW d \in Drivers,
         p.world \in Clean, d \in Uses[p.world], NEW script, Len(script) \in Nat,
         Built(d, script), (\E i \in 1 .. Len(script) : script[i][1] = "bmClose") => BmKept(p),
         NEW O, \A i \in 1 .. Len(script) : Passes(d, script[i], O[i - 1], O[i]),
         Wired(p), Claims(p, O[0]), NEW r \in Run(d, script, p)
  PROVE  /\ r.done => Claims(r.p, O[Len(script)]) /\ Freeing(p, r.p, d, script, Len(script))
         /\ ~r.done /\ r.p.alive = "run" =>
              \E i \in 1 .. Len(script) :
                script[i][1] \in Stops /\ Claims(r.p, O[i]) /\ Freeing(p, r.p, d, script, i)
  <1> DEFINE N == Len(script)
             X == {q \in Processes : q.alive = "run" =>
                     \E i \in 1 .. N :
                       script[i][1] \in Stops /\ Claims(q, O[i]) /\ Freeing(p, q, d, script, i)}
             S == [i \in 0 .. N |->
                    {q \in Processes :
                       /\ Left(p, q, d)
                       /\ BmKept(p) /\ Unclosed(script, i) => BmKept(q)
                       /\ Claims(q, O[i]) /\ Freeing(p, q, d, script, i)}]
  <1>0. d \in Openers => FALSE \notin Works[p.world]["version"]
    BY UsesFinite, VersionAssumption
  <1>1. ASSUME NEW i \in 1 .. N, NEW q \in S[i - 1], q.alive = "run",
               NEW t \in Calling(d, script[i], q)
        PROVE  IF t.alive = "run" /\ (t.ok \/ script[i][1] \notin Stops)
               THEN t \in S[i] ELSE t \in X
    <2>1. /\ S[i - 1] = {x \in Processes :
                           /\ Left(p, x, d)
                           /\ BmKept(p) /\ Unclosed(script, i - 1) => BmKept(x)
                           /\ Claims(x, O[i - 1]) /\ Freeing(p, x, d, script, i - 1)}
          /\ S[i] = {x \in Processes :
                       /\ Left(p, x, d)
                       /\ BmKept(p) /\ Unclosed(script, i) => BmKept(x)
                       /\ Claims(x, O[i]) /\ Freeing(p, x, d, script, i)}
      OBVIOUS
    <2> HIDE DEF S
    <2>2. /\ q \in Processes /\ Kinds(q) /\ q.world = p.world /\ Left(p, q, d)
          /\ BmKept(p) /\ Unclosed(script, i - 1) => BmKept(q)
          /\ Claims(q, O[i - 1]) /\ Freeing(p, q, d, script, i - 1)
      BY <2>1, LeftTyped
    <2>3. /\ Made(d, script[i]) /\ Passes(d, script[i], O[i - 1], O[i])
          /\ script[i][1] = "bmClose" => Unclosed(script, i - 1) /\ BmKept(p)
      BY DEF Built
    <2>4. /\ Left(q, t, d)
          /\ BmKept(q) /\ script[i][1] # "bmClose" => BmKept(t)
      BY <1>1, <2>2, <2>3, MadeLeft
    <2>5. t \in Processes /\ Left(p, t, d)
      BY <2>2, <2>4, LeftThen, LeftTyped
    <2>6. Unclosed(script, i) => script[i][1] # "bmClose" /\ Unclosed(script, i - 1)
      BY DEF Unclosed
    <2>7. BmKept(p) /\ Unclosed(script, i) => BmKept(t)
      BY <2>2, <2>4, <2>6
    <2>8. /\ Wired(t) /\ Claims(t, O[i])
          /\ Frees(script[i]) => t.irq[d] # "yes"
          /\ script[i][1] # "bmIrq" /\ q.irq[d] # "yes" => t.irq[d] # "yes"
      <3>1. Wired(q)
        BY <2>2 DEF Freeing
      <3> DEFINE s == script[i]
                 a == O[i - 1]
                 b == O[i]
      <3>2. /\ Made(d, s) /\ Passes(d, s, a, b) /\ Claims(q, a) /\ t \in Calling(d, s, q)
        BY <2>2, <2>3
      <3> HIDE DEF s, a, b
      <3>3. /\ Wired(t) /\ Claims(t, b)
            /\ Frees(s) => t.irq[d] # "yes"
            /\ s[1] # "bmIrq" /\ q.irq[d] # "yes" => t.irq[d] # "yes"
        BY <1>0, <1>1, <2>2, <3>1, <3>2, CallClaims
      <3>4. QED
        BY <3>3 DEF s, b
    <2>9. Freeing(p, t, d, script, i)
      <3> SUFFICES ASSUME \A j \in 1 .. i : script[j][1] # "bmIrq",
                          p.irq[d] # "yes" \/ \E j \in 1 .. i : Frees(script[j]),
                          ~Frees(script[i])
                   PROVE  t.irq[d] # "yes"
        BY <2>8 DEF Freeing
      <3>1. \A j \in 1 .. i - 1 : script[j][1] # "bmIrq"
        OBVIOUS
      <3>2. p.irq[d] # "yes" \/ \E j \in 1 .. i - 1 : Frees(script[j])
        OBVIOUS
      <3>3. q.irq[d] # "yes"
        BY <2>2, <3>1, <3>2 DEF Freeing
      <3>4. QED
        BY <2>8, <3>3
    <2>10. t \in S[i]
      BY <2>1, <2>5, <2>7, <2>8, <2>9
    <2>11. t.alive # "run" \/ script[i][1] \in Stops => t \in X
      BY <2>5, <2>8, <2>9
    <2>12. QED
      BY <2>10, <2>11
  <1>2. p \in S[0]
    <2>1. Left(p, p, d)
      BY LeftSame
    <2>2. 0 \in 0 .. N
      OBVIOUS
    <2>3. Freeing(p, p, d, script, 0)
      BY DEF Freeing
    <2>4. QED
      BY <2>1, <2>2, <2>3
  <1>3. \A q \in S[N] : Claims(q, O[N]) /\ Freeing(p, q, d, script, N)
    OBVIOUS
  <1>4. \A q \in X : q.alive = "run" =>
          \E i \in 1 .. N : script[i][1] \in Stops /\ Claims(q, O[i]) /\ Freeing(p, q, d, script, i)
    OBVIOUS
  <1>5. N \in Nat
    OBVIOUS
  <1> HIDE DEF S, X
  <1>6. \A t \in Run(d, script, p) : Ends(p, t, S[N], X)
    BY <1>1, <1>2, <1>5, Unrolled
  <1>7. IF r.done THEN r.p \in S[N] ELSE r.p \in X
    BY <1>6 DEF Ends
  <1>8. QED
    BY <1>3, <1>4, <1>7

LEMMA TidyMaster ==
  ASSUME NEW d \in Tidy \cap Openers
  PROVE  /\ \A i \in 1 .. Len(InitOf[d]) :
              /\ IsBm(InitOf[d][i]) => ~Granted(InitOf[d], i - 1)
              /\ InitOf[d][i][1] = "bmIrq" => d = "pm3"
         /\ \A i \in 1 .. Len(DestroyOf[d]) : ~IsBm(DestroyOf[d][i])
         /\ ~Unclosed(DestroyOf[d], Len(DestroyOf[d]))
         /\ \E i \in 1 .. Len(DestroyOf[d]) : Frees(DestroyOf[d][i])
  <1>1. CASE d = "mach64"
    <2>1. \A i \in 1 .. Len(Mach64Init) :
            /\ IsBm(Mach64Init[i]) => ~Granted(Mach64Init, i - 1)
            /\ Mach64Init[i][1] # "bmIrq"
      BY DEF Mach64Init, IsBm, Granted
    <2>2. /\ \A i \in 1 .. Len(Mach64Destroy) : ~IsBm(Mach64Destroy[i])
          /\ ~Unclosed(Mach64Destroy, Len(Mach64Destroy))
      BY DEF Mach64Destroy, IsBm, Unclosed
    <2>3. \E i \in 1 .. Len(Mach64Destroy) : Frees(Mach64Destroy[i])
      <3>1. 5 \in 1 .. Len(Mach64Destroy) /\ Frees(Mach64Destroy[5])
        BY DEF Mach64Destroy, Frees
      <3>2. QED
        BY <3>1
    <2>4. QED
      BY <1>1, <2>1, <2>2, <2>3 DEF InitOf, DestroyOf
  <1>2. CASE d = "pm3"
    <2>1. \A i \in 1 .. Len(Pm3Init) : IsBm(Pm3Init[i]) => ~Granted(Pm3Init, i - 1)
      BY DEF Pm3Init, IsBm, Granted
    <2>2. /\ \A i \in 1 .. Len(Pm3Destroy) : ~IsBm(Pm3Destroy[i])
          /\ ~Unclosed(Pm3Destroy, Len(Pm3Destroy))
      BY DEF Pm3Destroy, IsBm, Unclosed
    <2>3. \E i \in 1 .. Len(Pm3Destroy) : Frees(Pm3Destroy[i])
      <3>1. 4 \in 1 .. Len(Pm3Destroy) /\ Frees(Pm3Destroy[4])
        BY DEF Pm3Destroy, Frees
      <3>2. QED
        BY <3>1
    <2>4. QED
      BY <1>2, <2>1, <2>2, <2>3 DEF InitOf, DestroyOf
  <1>3. QED
    BY <1>1, <1>2 DEF Tidy, Openers

LEMMA MadeMaster ==
  ASSUME NEW d, NEW s, Made(d, s), d \notin Openers
  PROVE  ~IsBm(s)
  BY DEF Made, IsBm, IsPlain

\* vixProbe, vixConfigPlayback and the playback calls; vixInit; vixDestroy.
LEMMA RestClaims ==
  ASSUME NEW p \in Processes, Kinds(p), p.alive = "run", NEW d \in Drivers,
         p.world \in Clean, d \in Uses[p.world], Wired(p), NEW on, Claims(p, on),
         NEW script, script \in {ProbeOf(d), ConfigOf[d], PlayOf[d]}, NEW r \in Run(d, script, p)
  PROVE  r.p.alive = "run" =>
           Wired(r.p) /\ Claims(r.p, on) /\ (p.irq[d] # "yes" => r.p.irq[d] # "yes")
  <1> DEFINE O == [i \in 0 .. Len(script) |-> on]
  <1>1. d \in Tidy
    BY CleanAssumption
  <1>2. /\ Built(d, script) /\ Len(script) \in Nat
        /\ \A i \in 1 .. Len(script) :
             script[i][1] \in {"scan", "card", "probePorts", "ports", "regs", "fits"}
    BY <1>1, TidyLater, TidyProbe
  <1>3. \A i \in 0 .. Len(script) : O[i] = on
    OBVIOUS
  <1>4. \A i \in 1 .. Len(script) : O[i] = on /\ O[i - 1] = on
    BY <1>2, <1>3
  <1>5. O[0] = on /\ O[Len(script)] = on
    BY <1>2, <1>3
  <1> HIDE DEF O
  <1>6. \A i \in 1 .. Len(script) : Passes(d, script[i], O[i - 1], O[i])
    BY <1>2, <1>4 DEF Passes, IsBm
  <1>7. \A i \in 1 .. Len(script) : script[i][1] # "bmClose" /\ script[i][1] # "bmIrq"
    BY <1>2
  <1>8. /\ r.done => Claims(r.p, O[Len(script)]) /\ Freeing(p, r.p, d, script, Len(script))
        /\ ~r.done /\ r.p.alive = "run" =>
             \E i \in 1 .. Len(script) :
               script[i][1] \in Stops /\ Claims(r.p, O[i]) /\ Freeing(p, r.p, d, script, i)
    BY <1>2, <1>5, <1>6, <1>7, ClaimsRun
  <1>9. CASE r.done
    BY <1>5, <1>7, <1>8, <1>9 DEF Freeing
  <1>10. CASE ~r.done /\ r.p.alive = "run"
    <2>1. PICK i \in 1 .. Len(script) : Claims(r.p, O[i]) /\ Freeing(p, r.p, d, script, i)
      BY <1>8, <1>10
    <2>2. \A j \in 1 .. i : j \in 1 .. Len(script)
      BY <1>2
    <2>3. QED
      BY <1>4, <1>7, <2>1, <2>2 DEF Freeing
  <1>11. QED
    BY <1>9, <1>10

LEMMA InitClaims ==
  ASSUME NEW p \in Processes, Kinds(p), p.alive = "run", NEW d \in Drivers,
         p.world \in Clean, d \in Uses[p.world], Wired(p), NEW on, Claims(p, on),
         d \in Openers => ~on, NEW r \in Run(d, InitOf[d], p)
  PROVE  r.done => Wired(r.p) /\ Claims(r.p, on \/ d \in Openers)
  <1> DEFINE script == InitOf[d]
             O == [i \in 0 .. Len(script) |-> on \/ Granted(script, i)]
  <1>1. d \in Tidy
    BY CleanAssumption
  <1>2. /\ Built(d, script) /\ Len(script) \in Nat
        /\ \A i \in 1 .. Len(script) : script[i][1] # "bmClose"
    BY <1>1, TidyInit
  <1>3. \A i \in 1 .. Len(script) :
          /\ IsBm(script[i]) => d \in Openers /\ ~Granted(script, i - 1)
          /\ script[i][1] = "bmIrq" => d = "pm3"
    <2>1. CASE d \in Openers
      BY <1>1, <2>1, TidyMaster
    <2>2. CASE d \notin Openers
      <3>1. \A i \in 1 .. Len(script) : Made(d, script[i])
        BY <1>2 DEF Built
      <3>2. QED
        BY <2>2, <3>1, MadeMaster DEF IsBm
    <2>3. QED
      BY <2>1, <2>2
  <1> HIDE DEF script
  <1>4. \A i \in 0 .. Len(script) : O[i] = (on \/ Granted(script, i))
    OBVIOUS
  <1>5. \A i \in 1 .. Len(script) : /\ O[i] = (on \/ Granted(script, i))
                                    /\ O[i - 1] = (on \/ Granted(script, i - 1))
    BY <1>2, <1>4
  <1>6. O[0] = (on \/ Granted(script, 0))
    BY <1>2, <1>4
  <1>7. O[Len(script)] = (on \/ Granted(script, Len(script)))
    BY <1>2, <1>4
  <1> HIDE DEF O
  <1>8. \A i \in 1 .. Len(script) :
          Granted(script, i) <=> Granted(script, i - 1) \/ IsBm(script[i])
    BY <1>2 DEF Granted
  <1>9. \A i \in 1 .. Len(script) : Passes(d, script[i], O[i - 1], O[i])
    BY <1>2, <1>3, <1>5, <1>8 DEF Passes
  <1>10. ~Granted(script, 0)
    BY DEF Granted
  <1>11. Claims(p, O[0])
    BY <1>6, <1>10 DEF Claims
  <1>12. r.done => Claims(r.p, O[Len(script)]) /\ Freeing(p, r.p, d, script, Len(script))
    BY <1>2, <1>9, <1>11, ClaimsRun DEF script
  <1>13. Granted(script, Len(script)) => d \in Openers
    BY <1>3 DEF Granted
  <1>14. QED
    BY <1>7, <1>12, <1>13 DEF Claims, Freeing

LEMMA DestroyClaims ==
  ASSUME NEW p \in Processes, Kinds(p), p.alive = "run", NEW d \in Drivers,
         p.world \in Clean, d \in Uses[p.world], Wired(p), NEW on, Claims(p, on),
         d \in Closers => BmKept(p), NEW r \in Run(d, DestroyOf[d], p)
  PROVE  r.p.alive = "run" =>
           Wired(r.p) /\ Claims(r.p, on /\ d \notin Openers) /\ r.p.irq[d] # "yes"
  <1> DEFINE script == DestroyOf[d]
             O == [i \in 0 .. Len(script) |-> on /\ (d \in Openers => Unclosed(script, i))]
  <1>1. d \in Tidy
    BY CleanAssumption
  <1>2. /\ Built(d, script) /\ Len(script) \in Nat
        /\ \A i \in 1 .. Len(script) : /\ script[i][1] \notin Stops
                                       /\ script[i][1] = "bmClose" => d \in Closers
    BY <1>1, TidyDestroy
  <1>3. /\ \A i \in 1 .. Len(script) : ~IsBm(script[i])
        /\ d \in Openers => /\ ~Unclosed(script, Len(script))
                            /\ \E i \in 1 .. Len(script) : Frees(script[i])
    <2>1. CASE d \in Openers
      BY <1>1, <2>1, TidyMaster
    <2>2. CASE d \notin Openers
      <3>1. \A i \in 1 .. Len(script) : Made(d, script[i])
        BY <1>2 DEF Built
      <3>2. QED
        BY <2>2, <3>1, MadeMaster
    <2>3. QED
      BY <2>1, <2>2
  <1> HIDE DEF script
  <1>4. \A i \in 0 .. Len(script) : O[i] = (on /\ (d \in Openers => Unclosed(script, i)))
    OBVIOUS
  <1>5. \A i \in 1 .. Len(script) :
          /\ O[i] = (on /\ (d \in Openers => Unclosed(script, i)))
          /\ O[i - 1] = (on /\ (d \in Openers => Unclosed(script, i - 1)))
    BY <1>2, <1>4
  <1>6. O[0] = (on /\ (d \in Openers => Unclosed(script, 0)))
    BY <1>2, <1>4
  <1>7. O[Len(script)] = (on /\ (d \in Openers => Unclosed(script, Len(script))))
    BY <1>2, <1>4
  <1> HIDE DEF O
  <1>8. \A i \in 1 .. Len(script) :
          Unclosed(script, i) <=> Unclosed(script, i - 1) /\ script[i][1] # "bmClose"
    BY <1>2 DEF Unclosed
  <1>9. \A i \in 1 .. Len(script) : Passes(d, script[i], O[i - 1], O[i])
    BY <1>3, <1>5, <1>8 DEF Passes, IsBm
  <1>10. Unclosed(script, 0)
    BY DEF Unclosed
  <1>11. Claims(p, O[0])
    BY <1>6, <1>10 DEF Claims
  <1>12. (\E i \in 1 .. Len(script) : script[i][1] = "bmClose") => BmKept(p)
    BY <1>2
  <1>13. /\ r.done => Claims(r.p, O[Len(script)]) /\ Freeing(p, r.p, d, script, Len(script))
         /\ ~r.done /\ r.p.alive = "run" =>
              \E i \in 1 .. Len(script) :
                script[i][1] \in Stops /\ Claims(r.p, O[i]) /\ Freeing(p, r.p, d, script, i)
    BY <1>2, <1>9, <1>11, <1>12, ClaimsRun DEF script
  <1>14. r.p.alive = "run" => Claims(r.p, O[Len(script)]) /\ Freeing(p, r.p, d, script, Len(script))
    BY <1>2, <1>13
  <1>15. \A i \in 1 .. Len(script) : script[i][1] # "bmIrq"
    BY <1>3 DEF IsBm
  <1>16. r.p.alive = "run" => Wired(r.p) /\ r.p.irq[d] # "yes"
    <2>1. CASE d \in Openers
      BY <1>3, <1>14, <1>15, <2>1 DEF Freeing
    <2>2. CASE d \notin Openers
      BY <1>14, <2>2 DEF Freeing, Wired, Openers
    <2>3. QED
      BY <2>1, <2>2
  <1>17. QED
    BY <1>3, <1>7, <1>14, <1>16 DEF Claims

\* A driver that is opened or closed and bus mastering.
LEMMA MasterFacts ==
  ASSUME NEW p \in Processes, NEW st, UseGood(p, st), NEW d \in Drivers, d \in Uses[p.world],
         (\E e \in Drivers \ {d} : st[e] # "closed") => p.world \in Several
  PROVE  /\ st[d] = "closed" /\ MasterOn(st) => d \notin Openers
         /\ \A su : su[d] = "closed" /\ (\A e \in Drivers \ {d} : su[e] = st[e]) =>
              (MasterOn(su) <=> MasterOn(st) /\ d \notin Openers)
         /\ \A su : su[d] # "closed" /\ (\A e \in Drivers \ {d} : su[e] = st[e]) =>
              (MasterOn(su) <=> MasterOn(st) \/ d \in Openers)
  <1>1. ASSUME NEW e \in Drivers \cap Openers, st[e] # "closed", e # d
        PROVE  d \notin Openers
    <2>1. p.world \in Several /\ e \in Uses[p.world]
      BY <1>1 DEF UseGood
    <2>2. QED
      BY <1>1, <2>1, MasterAssumption DEF Closers
  <1>2. st[d] = "closed" /\ MasterOn(st) => d \notin Openers
    BY <1>1 DEF MasterOn
  <1>3. ASSUME NEW su, su[d] = "closed", \A e \in Drivers \ {d} : su[e] = st[e]
        PROVE  MasterOn(su) <=> MasterOn(st) /\ d \notin Openers
    <2>1. MasterOn(su) => MasterOn(st) /\ d \notin Openers
      BY <1>1, <1>3 DEF MasterOn
    <2>2. MasterOn(st) /\ d \notin Openers => MasterOn(su)
      BY <1>3 DEF MasterOn
    <2>3. QED
      BY <2>1, <2>2
  <1>4. ASSUME NEW su, su[d] # "closed", \A e \in Drivers \ {d} : su[e] = st[e]
        PROVE  MasterOn(su) <=> MasterOn(st) \/ d \in Openers
    <2>1. MasterOn(su) => MasterOn(st) \/ d \in Openers
      BY <1>4 DEF MasterOn
    <2>2. MasterOn(st) \/ d \in Openers => MasterOn(su)
      BY <1>4 DEF MasterOn
    <2>3. QED
      BY <2>1, <2>2
  <1>5. QED
    BY <1>2, <1>3, <1>4

\* dlclose: an interrupt that could not be installed is forgotten.
LEMMA UnloadCleared ==
  ASSUME TypeOK, NEW p \in Processes, NEW d \in Drivers, NEW su, su[d] = "closed",
         \A e \in Drivers \ {d} : su[e] = stage[e],
         Wired(p), Claims(p, MasterOn(su)), p.irq[d] # "yes",
         \A e \in Drivers \ {d} : stage[e] = "closed" => p.irq[e] = "no",
         NEW q, q = Unload(d, p)
  PROVE  Cleared(q, su)
  <1>1. /\ q.owner = p.owner /\ q.irq[d] = "no"
        /\ \A e \in Drivers \ {d} : q.irq[e] = p.irq[e]
        /\ IF Used \subseteq {d} THEN q.irqFd = NoFd
           ELSE q.irqFd = p.irqFd /\ q.irqUsed = p.irqUsed /\ q.bmFd = p.bmFd
    BY DEF Unload, Loaded, Processes
  <1>2. \A e \in Drivers : su[e] = "closed" => q.irq[e] = "no"
    BY <1>1
  <1>3. CASE Used \subseteq {d}
    <2>1. \A e \in Drivers : su[e] = "closed"
      BY <1>3 DEF Used
    <2>2. Wired(q)
      BY <1>1, <1>2, <1>3, <2>1 DEF Wired
    <2>3. ~MasterOn(su)
      BY <2>1 DEF MasterOn
    <2>4. Claims(q, MasterOn(su))
      BY <1>1, <2>3 DEF Claims
    <2>5. QED
      BY <1>2, <2>2, <2>4 DEF Cleared
  <1>4. CASE ~(Used \subseteq {d})
    <2>1. Wired(q)
      BY <1>1, <1>2, <1>4 DEF Wired
    <2>2. Claims(q, MasterOn(su))
      BY <1>1, <1>4 DEF Claims
    <2>3. QED
      BY <1>2, <2>1, <2>2 DEF Cleared
  <1>5. QED
    BY <1>3, <1>4

\* The probe, of a driver that is closed.
LEMMA ProbeCleared ==
  ASSUME TypeOK, Sound(proc, stage), Life(proc, stage), Cleared(proc, stage),
         proc.alive = "run", proc.world \in Clean, NEW d \in Drivers, MayOpen(d),
         NEW r \in Run(d, ProbeOf(d), proc)
  PROVE  /\ Left(proc, r.p, d) /\ r.p.alive = "run" /\ r.p.bmFd = proc.bmFd
         /\ r.p.ptr = proc.ptr /\ r.p.dma = proc.dma
         /\ Wired(r.p) /\ Claims(r.p, MasterOn(stage)) /\ r.p.irq[d] # "yes"
  <1>1. /\ proc \in Processes /\ d \in Uses[proc.world] /\ stage[d] = "closed" /\ Kinds(proc)
    BY DEF MayOpen, TypeOK, Sound
  <1>2. Quiet(proc, r.p) /\ Hand(proc, r.p, d) /\ BmLeft(proc, r.p)
    BY ProbeLife
  <1>3. /\ Left(proc, r.p, d) /\ r.p.alive = "run" /\ r.p.bmFd = proc.bmFd
        /\ r.p.ptr = proc.ptr /\ r.p.dma = proc.dma
    BY <1>2 DEF Quiet, Hand, BmLeft
  <1> DEFINE on == MasterOn(stage)
  <1>4. Wired(proc) /\ Claims(proc, on) /\ proc.irq[d] # "yes"
    BY <1>1 DEF Cleared
  <1> HIDE DEF on
  <1>5. Wired(r.p) /\ Claims(r.p, on) /\ r.p.irq[d] # "yes"
    BY <1>1, <1>3, <1>4, RestClaims
  <1>6. QED
    BY <1>3, <1>5 DEF on

\* The calls of the program.
LEMMA SearchCleared ==
  ASSUME TypeOK, Sound(proc, stage), Life(proc, stage), Cleared(proc, stage),
         proc.world \in Clean, NEW d \in Drivers, Search(d)
  PROVE  Cleared(proc', stage')
  <1>1. proc.alive = "run" /\ MayOpen(d) /\ stage[d] = "closed" /\ stage' = stage
    BY DEF Search, MayOpen, Runs
  <1>2. PICK r \in Run(d, ProbeOf(d), proc) : proc' = Unload(d, r.p)
    BY DEF Search
  <1>3. /\ Left(proc, r.p, d) /\ Wired(r.p) /\ Claims(r.p, MasterOn(stage))
        /\ r.p.irq[d] # "yes"
    BY <1>1, ProbeCleared
  <1>4. /\ r.p \in Processes
        /\ \A e \in Drivers \ {d} : stage[e] = "closed" => r.p.irq[e] = "no"
    BY <1>3, LeftTyped DEF Left, Cleared
  <1>5. QED
    BY <1>1, <1>2, <1>3, <1>4, UnloadCleared

LEMMA OpenCleared ==
  ASSUME TypeOK, Sound(proc, stage), Life(proc, stage), Cleared(proc, stage),
         proc.world \in Clean, NEW d \in Drivers, OpenDriver(d), proc'.alive = "run"
  PROVE  Cleared(proc', stage')
  <1>1. /\ proc.alive = "run" /\ MayOpen(d) /\ d \in Uses[proc.world] /\ stage[d] = "closed"
        /\ proc.world \in Several \/ Used \subseteq {d}
        /\ proc \in Processes
        /\ UseGood(proc, stage)
    BY DEF OpenDriver, MayOpen, Runs, TypeOK, Sound
  <1>2. PICK r \in Run(d, ProbeOf(d), proc) :
          IF ~r.done THEN proc' = Unload(d, r.p) /\ UNCHANGED stage
          ELSE \E i \in Run(d, InitOf[d], r.p) :
            IF i.done THEN proc' = i.p /\ stage' = [stage EXCEPT ![d] = "open"]
            ELSE /\ \E x \in Run(d, DestroyOf[d], i.p) : proc' = Unload(d, x.p)
                 /\ UNCHANGED stage
    BY DEF OpenDriver
  <1>3. /\ Left(proc, r.p, d) /\ r.p.alive = "run" /\ r.p.bmFd = proc.bmFd
        /\ r.p.ptr = proc.ptr /\ r.p.dma = proc.dma
        /\ Wired(r.p) /\ Claims(r.p, MasterOn(stage)) /\ r.p.irq[d] # "yes"
    BY <1>1, ProbeCleared
  <1>4. /\ r.p \in Processes /\ Kinds(r.p) /\ r.p.world = proc.world
        /\ \A e \in Drivers \ {d} : stage[e] = "closed" => r.p.irq[e] = "no"
    BY <1>3, LeftTyped DEF Left, Cleared
  <1>5. (\A t \in Things : r.p.ptr[d][t] = "null") /\ ~r.p.dma[d]
    BY <1>1, <1>3 DEF Life, OwnHeld
  <1>6. CASE ~r.done
    <2>1. proc' = Unload(d, r.p) /\ stage' = stage
      BY <1>2, <1>6
    <2>2. QED
      BY <1>1, <1>3, <1>4, <2>1, UnloadCleared
  <1>7. CASE r.done
    <2>1. PICK i \in Run(d, InitOf[d], r.p) :
            IF i.done THEN proc' = i.p /\ stage' = [stage EXCEPT ![d] = "open"]
            ELSE /\ \E x \in Run(d, DestroyOf[d], i.p) : proc' = Unload(d, x.p)
                 /\ UNCHANGED stage
      BY <1>2, <1>7
    <2>2. /\ Suitable(proc.world, d) /\ FALSE \notin Works[proc.world]["map"] /\ d \in Tidy
          /\ ~Serves(proc.world, d) => FALSE \in Works[proc.world]["map"]
      BY <1>1, SuitsUses
    <2>3. ~i.done => i.p.alive # "run"
      BY <1>4, <1>3, <1>5, <2>2, InitHas
    <2>4. CASE ~i.done
      <3>1. PICK x \in Run(d, DestroyOf[d], i.p) : proc' = Unload(d, x.p)
        BY <2>1, <2>4
      <3>2. Len(DestroyOf[d]) \in Nat
        BY DriversAssumption, DestroysPlain
      <3>3. x.p = i.p
        BY <2>3, <2>4, <3>2, DeadRun
      <3>4. i.p \in Processes
        <4>1. d # "ivtv"
          BY <2>2 DEF Tidy
        <4>2. Hand(r.p, i.p, d)
          BY <1>3, <1>4, <2>2, <4>1, InitRun DEF Suitable
        <4>3. QED
          BY <4>2, LeftTyped DEF Hand
      <3>5. proc'.alive = i.p.alive
        BY <3>1, <3>3, <3>4, UnloadOwn
      <3>6. QED
        BY <2>3, <2>4, <3>5
    <2>5. CASE i.done
      <3>1. /\ proc' = i.p /\ stage'[d] = "open"
            /\ \A e \in Drivers \ {d} : stage'[e] = stage[e]
        BY <2>1, <2>5 DEF TypeOK
      <3>2. (\E e \in Drivers \ {d} : stage[e] # "closed") => proc.world \in Several
        BY <1>1 DEF Used
      <3>3. /\ MasterOn(stage) => d \notin Openers
            /\ MasterOn(stage') <=> MasterOn(stage) \/ d \in Openers
        BY <1>1, <3>1, <3>2, MasterFacts
      <3> DEFINE on == MasterOn(stage)
      <3>4. Claims(r.p, on) /\ (d \in Openers => ~on)
        BY <1>3, <3>3
      <3> HIDE DEF on
      <3>5. Wired(i.p) /\ Claims(i.p, on \/ d \in Openers)
        BY <1>1, <1>3, <1>4, <2>5, <3>4, InitClaims
      <3>6. Claims(i.p, MasterOn(stage'))
        BY <3>3, <3>5 DEF on, Claims
      <3>7. \A e \in Drivers : stage'[e] = "closed" => i.p.irq[e] = "no"
        <4>1. d # "ivtv"
          BY <2>2 DEF Tidy
        <4>2. Hand(r.p, i.p, d)
          BY <1>3, <1>4, <2>2, <4>1, InitRun DEF Suitable
        <4>3. QED
          BY <1>4, <3>1, <4>2 DEF Hand, Left
      <3>8. QED
        BY <3>1, <3>5, <3>6, <3>7 DEF Cleared
    <2>6. QED
      BY <2>4, <2>5
  <1>8. QED
    BY <1>6, <1>7

\* vixConfigPlayback and playback.
LEMMA LaterCleared ==
  ASSUME TypeOK, Sound(proc, stage), Cleared(proc, stage),
         proc.world \in Clean, NEW d \in Drivers, Config(d) \/ Play(d), proc'.alive = "run"
  PROVE  Cleared(proc', stage')
  <1>1. /\ proc.alive = "run" /\ stage[d] # "closed" /\ proc \in Processes /\ Kinds(proc)
        /\ d \in Uses[proc.world]
    BY DEF Config, Play, Runs, TypeOK, Sound, UseGood
  <1>2. /\ stage'[d] # "closed" /\ \A e \in Drivers \ {d} : stage'[e] = stage[e]
    BY <1>1 DEF Config, Play, TypeOK
  <1>3. \E script \in {ConfigOf[d], PlayOf[d]} : \E r \in Run(d, script, proc) : proc' = r.p
    BY DEF Config, Play
  <1>12. PICK script \in {ConfigOf[d], PlayOf[d]} :
           \E r \in Run(d, script, proc) : proc' = r.p
    BY <1>3
  <1>13. PICK r \in Run(d, script, proc) : proc' = r.p
    BY <1>12
  <1> DEFINE on == MasterOn(stage)
  <1>4. Wired(proc) /\ Claims(proc, on)
    BY DEF Cleared
  <1> HIDE DEF on
  <1>5. r.p.alive = "run"
    BY <1>13
  <1>6. Wired(r.p) /\ Claims(r.p, on)
    BY <1>1, <1>4, <1>5, RestClaims
  <1>7. MasterOn(stage') <=> MasterOn(stage)
    <2>1. \A e \in Drivers : stage'[e] # "closed" <=> stage[e] # "closed"
      BY <1>1, <1>2
    <2>2. QED
      BY <2>1 DEF MasterOn
  <1>8. Left(proc, proc', d)
    BY ConfigStep
  <1>9. \A e \in Drivers : stage'[e] = "closed" => proc'.irq[e] = "no"
    BY <1>2, <1>8 DEF Left, Cleared
  <1>10. Claims(proc', MasterOn(stage'))
    BY <1>13, <1>6, <1>7 DEF on, Claims
  <1>11. QED
    BY <1>13, <1>6, <1>9, <1>10 DEF Cleared

LEMMA CopyCleared ==
  ASSUME TypeOK, Sound(proc, stage), Cleared(proc, stage),
         proc.world \in Clean, NEW d \in Drivers, CopyFrame(d)
  PROVE  Cleared(proc', stage')
  <1>1. /\ proc.alive = "run" /\ stage[d] # "closed" /\ proc \in Processes /\ Kinds(proc)
        /\ d = "mach64" /\ stage' = stage /\ proc' \in hwirq_install(proc, d)
    BY DEF CopyFrame, Runs, TypeOK, Sound
  <1> DEFINE q == proc'
             on == MasterOn(stage)
  <1>2. q \in hwirq_install(proc, d) /\ Wired(proc) /\ Claims(proc, on)
    BY <1>1 DEF Cleared
  <1> HIDE DEF q, on
  <1>3. Wired(q) /\ Claims(q, on)
    BY <1>1, <1>2, InstallWired
  <1>4. Left(proc, q, d)
    BY <1>1, <1>2, InstallLeft
  <1>5. \A e \in Drivers : stage[e] = "closed" => q.irq[e] = "no"
    BY <1>1, <1>4 DEF Left, Cleared
  <1>6. Cleared(q, stage)
    BY <1>3, <1>5 DEF on, Cleared
  <1>7. QED
    BY <1>1, <1>6 DEF q

LEMMA CloseCleared ==
  ASSUME TypeOK, Sound(proc, stage), Cleared(proc, stage),
         proc.world \in Clean, NEW d \in Drivers, CloseDriver(d), proc'.alive = "run"
  PROVE  Cleared(proc', stage')
  <1>1. /\ proc.alive = "run" /\ stage[d] # "closed" /\ proc \in Processes
        /\ Kinds(proc) /\ FilesGood(proc, stage) /\ BmGood(proc, stage) /\ UseGood(proc, stage)
    BY DEF CloseDriver, Runs, TypeOK, Sound
  <1>2. /\ d \in Uses[proc.world] /\ d \in Tidy
        /\ (\E e \in Drivers \ {d} : stage[e] # "closed") => proc.world \in Several
    BY <1>1, CleanAssumption DEF UseGood
  <1>3. d \in Closers => BmKept(proc)
    BY <1>1 DEF BmGood
  <1>4. PICK r \in Run(d, DestroyOf[d], proc) : proc' = Unload(d, r.p)
    BY DEF CloseDriver
  <1>5. Left(proc, r.p, d)
    <2>1. d # "ivtv"
      BY <1>2 DEF Tidy
    <2>2. QED
      BY <1>1, <1>3, <1>4, <2>1, DestroyRun DEF Hand
  <1>6. r.p \in Processes /\ r.p.alive = "run"
    <2>1. r.p \in Processes
      BY <1>5, LeftTyped
    <2>2. QED
      BY <1>4, <2>1, UnloadOwn
  <1>7. stage'[d] = "closed" /\ \A e \in Drivers \ {d} : stage'[e] = stage[e]
    BY DEF CloseDriver, TypeOK
  <1>8. MasterOn(stage') <=> MasterOn(stage) /\ d \notin Openers
    BY <1>1, <1>2, <1>7, MasterFacts
  <1> DEFINE on == MasterOn(stage)
  <1>9. Wired(proc) /\ Claims(proc, on)
    BY DEF Cleared
  <1> HIDE DEF on
  <1>10. Wired(r.p) /\ Claims(r.p, on /\ d \notin Openers) /\ r.p.irq[d] # "yes"
    BY <1>1, <1>2, <1>3, <1>6, <1>9, DestroyClaims
  <1>11. Claims(r.p, MasterOn(stage'))
    BY <1>8, <1>10 DEF on, Claims
  <1>12. \A e \in Drivers \ {d} : stage[e] = "closed" => r.p.irq[e] = "no"
    BY <1>5 DEF Left, Cleared
  <1> DEFINE su == stage'
             q == proc'
  <1>13. /\ su[d] = "closed" /\ (\A e \in Drivers \ {d} : su[e] = stage[e])
         /\ Claims(r.p, MasterOn(su)) /\ q = Unload(d, r.p)
    BY <1>4, <1>7, <1>11
  <1> HIDE DEF su, q
  <1>14. Cleared(q, su)
    BY <1>6, <1>10, <1>12, <1>13, UnloadCleared
  <1>15. QED
    BY <1>14 DEF q, su

LEMMA AppCleared ==
  ASSUME TypeOK, Cleared(proc, stage), AppOpen \/ \E f \in Fds : AppClose(f)
  PROVE  Cleared(proc', stage')
  <1>1. proc \in Processes /\ stage' = stage
    BY DEF AppOpen, AppClose, TypeOK
  <1>2. \E f \in Fds : \E u \in {"app", "none"} : proc' = [proc EXCEPT !.owner[f] = u]
    <2>1. CASE AppOpen
      <3>1. Min(FreeFds(proc)) \in FreeFds(proc)
        <4>1. FreeFds(proc) # {} /\ FreeFds(proc) \subseteq Nat
          BY <2>1, FdsAssumption DEF AppOpen, FreeFds
        <4>2. QED
          BY <4>1, MinIn
      <3>2. QED
        BY <2>1, <3>1 DEF AppOpen, FreeFds
    <2>2. CASE \E f \in Fds : AppClose(f)
      BY <2>2 DEF AppClose, CloseFd
    <2>3. QED
      BY <2>1, <2>2
  <1>3. PICK f \in Fds, u \in {"app", "none"} : proc' = [proc EXCEPT !.owner[f] = u]
    BY <1>2
  <1>4. /\ proc'.irq = proc.irq /\ proc'.irqFd = proc.irqFd /\ proc'.irqUsed = proc.irqUsed
        /\ proc'.bmFd = proc.bmFd /\ proc'.owner = [proc.owner EXCEPT ![f] = u]
        /\ proc.owner \in [Fds -> Users]
    BY <1>1, <1>3 DEF Processes
  <1>5. Mute(proc, proc')
    BY <1>4 DEF Mute
  <1>6. QED
    BY <1>1, <1>5 DEF Mute, Wired, Claims, Cleared

\* The invariant holds at first, and every step keeps it.
LEMMA ClearInit ==
  ASSUME Init
  PROVE  ClearInv
  <1>1. PICK w \in Worlds : proc = Start(w)
    BY DEF Init
  <1>2. \A d \in Drivers : stage[d] = "closed"
    BY DEF Init
  <1>3. /\ proc.irqFd = NoFd /\ proc.irqUsed = FALSE /\ proc.bmFd = NoFd
        /\ \A f \in Fds : proc.owner[f] = "none"
        /\ \A d \in Drivers : proc.irq[d] = "no"
    BY <1>1 DEF Start
  <1>4. Wired(proc) /\ Claims(proc, MasterOn(stage))
    BY <1>2, <1>3 DEF Wired, Claims, MasterOn
  <1>5. QED
    BY <1>3, <1>4, LifeInit DEF ClearInv, Cleared

\* A step of a program that goes on.
LEMMA GoesOn ==
  ASSUME LifeInv, Next, proc'.alive = "run"
  PROVE  proc.alive = "run" /\ proc'.world = proc.world
  <1>0. TypeOK /\ Sound(proc, stage)
    BY DEF LifeInv, SoundInv
  <1>1. CASE \E d \in Drivers : OpenDriver(d) \/ Search(d) \/ Config(d) \/ Play(d)
                                  \/ CopyFrame(d) \/ CloseDriver(d)
    <2>1. PICK d \in Drivers : OpenDriver(d) \/ Search(d) \/ Config(d) \/ Play(d)
                                 \/ CopyFrame(d) \/ CloseDriver(d)
      BY <1>1
    <2>2. Left(proc, proc', d)
      BY <1>0, <2>1, OpenStep, SearchStep, ConfigStep, CloseStep
    <2>3. proc.alive = "run"
      BY <2>1 DEF OpenDriver, Search, MayOpen, Config, Play, CopyFrame, CloseDriver, Runs
    <2>4. QED
      BY <2>2, <2>3 DEF Left
  <1>2. CASE AppOpen \/ \E f \in Fds : AppClose(f)
    <2>1. proc \in Processes
      BY <1>0 DEF TypeOK
    <2>2. QED
      BY <1>2, <2>1 DEF AppOpen, AppClose, CloseFd, Processes, Runs
  <1>3. CASE Stopped
    BY <1>3 DEF Stopped, Runs, vars
  <1>4. QED
    BY <1>1, <1>2, <1>3 DEF Next

LEMMA ClearNext ==
  ASSUME ClearInv, [Next]_vars
  PROVE  ClearInv'
  <1>1. LifeInv /\ LifeInv' /\ TypeOK /\ Sound(proc, stage) /\ Life(proc, stage)
    BY LifeNext DEF ClearInv, LifeInv, SoundInv
  <1> SUFFICES ASSUME proc'.alive = "run", proc'.world \in Clean
               PROVE  Cleared(proc', stage')
    BY <1>1 DEF ClearInv
  <1>2. CASE UNCHANGED vars
    BY <1>2 DEF vars, ClearInv, Cleared, Wired, Claims, MasterOn
  <1>3. CASE Next
    <2>1. proc.alive = "run" /\ proc.world \in Clean /\ Cleared(proc, stage)
      BY <1>1, <1>3, GoesOn DEF ClearInv
    <2>2. CASE \E d \in Drivers : OpenDriver(d)
      BY <1>1, <2>1, <2>2, OpenCleared
    <2>3. CASE \E d \in Drivers : Search(d)
      BY <1>1, <2>1, <2>3, SearchCleared
    <2>4. CASE \E d \in Drivers : Config(d) \/ Play(d)
      BY <1>1, <2>1, <2>4, LaterCleared
    <2>5. CASE \E d \in Drivers : CopyFrame(d)
      BY <1>1, <2>1, <2>5, CopyCleared
    <2>6. CASE \E d \in Drivers : CloseDriver(d)
      BY <1>1, <2>1, <2>6, CloseCleared
    <2>7. CASE AppOpen \/ \E f \in Fds : AppClose(f)
      BY <1>1, <2>1, <2>7, AppCleared
    <2>8. CASE Stopped
      BY <2>1, <2>8 DEF Stopped, Runs
    <2>9. QED
      BY <1>3, <2>2, <2>3, <2>4, <2>5, <2>6, <2>7, <2>8 DEF Next
  <1>4. QED
    BY <1>2, <1>3

\* With no driver open the invariant leaves nothing.
LEMMA ClearLeft ==
  ASSUME ClearInv
  PROVE  NothingLeft
  <1> SUFFICES ASSUME proc.alive = "run", Used = {}, proc.world \in Clean
               PROVE  /\ \A f \in Fds : proc.owner[f] \in {"none", "app", "irq"}
                      /\ \A d \in Drivers : /\ proc.irq[d] = "no"
                                            /\ \A t \in Things : proc.live[d][t] = 0
                      /\ ~proc.iopl
    BY DEF NothingLeft, Runs
  <1>1. \A d \in Drivers : stage[d] = "closed"
    BY DEF Used
  <1>2. Tidied(proc, stage) /\ Cleared(proc, stage) /\ proc \in Processes
    BY DEF ClearInv, LifeInv, Life, SoundInv, TypeOK
  <1>3. \A d \in Drivers : proc.irq[d] = "no" /\ \A t \in Things : proc.live[d][t] = 0
    BY <1>1, <1>2 DEF Tidied, OwnTidy, Cleared
  <1>4. ~PortsOn(stage) /\ ~MasterOn(stage)
    BY <1>1 DEF PortsOn, MasterOn
  <1>5. Neat(proc, PortsOn(stage)) /\ Sole(proc)
    BY <1>2 DEF Tidied, Calm
  <1>6. ~proc.iopl /\ proc.ioFd = NoFd
    BY <1>4, <1>5 DEF Neat
  <1>7. NoFd \notin Fds
    BY FdsAssumption DEF NoFd
  <1>8. \A f \in Fds : proc.owner[f] # "io"
    BY <1>5, <1>6, <1>7 DEF Neat
  <1>9. proc.memFd = NoFd
    <2>1. Locks(proc) = {}
      BY <1>3 DEF Locks, Things
    <2>2. Cardinality(Locks(proc)) = 0
      BY <2>1, FS_EmptySet
    <2>3. QED
      BY <1>2, <2>2 DEF Tidied, Booked
  <1>10. \A f \in Fds : proc.owner[f] # "mem"
    BY <1>5, <1>7, <1>9 DEF Sole
  <1>11. \A f \in Fds : proc.owner[f] \notin {"driver", "bm"}
    BY <1>2, <1>4 DEF Cleared, Claims
  <1>12. \A f \in Fds : proc.owner[f] \in Users
    BY <1>2 DEF Processes
  <1>13. QED
    BY <1>3, <1>6, <1>8, <1>10, <1>11, <1>12 DEF Users

\* NothingLeft: on a system whose drivers give back what they obtain, no mapping, block,
\* descriptor, port privilege or interrupt is left once the last driver is closed.
THEOREM GivenBack == Spec => []NothingLeft
  <1>1. Init => ClearInv
    BY ClearInit
  <1>2. ClearInv /\ [Next]_vars => ClearInv'
    BY ClearNext
  <1>3. ClearInv => NothingLeft
    BY ClearLeft
  <1>4. QED
    BY <1>1, <1>2, <1>3, PTL DEF Spec
=============================================================================
