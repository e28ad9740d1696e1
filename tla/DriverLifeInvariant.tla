------------------------ MODULE DriverLifeInvariant ------------------------
(***************************************************************************)
(* What the theorems about DriverLife speak of: what each call of libdha   *)
(* may leave, what a call or a handler leaves alone, how the scripts of    *)
(* the handlers are made, and the invariants of the whole: SoundInv, of    *)
(* the descriptors, LifeInv, of what the open drivers have, and ClearInv,  *)
(* of what closed drivers leave.                                           *)
(***************************************************************************)
EXTENDS DriverLife

----------------------------------------------------------------------------
\* What the calls of libdha leave.

\* The outcomes of a call, each a change of a few fields: of enable_app_io first.
Says(p, b)     == [p EXCEPT !.ok = b]
Enabled(p, f)  == [p EXCEPT !.ok = TRUE, !.owner[f] = "io", !.ioFd = f, !.ioCount = Up(@)]
Refused(p, b)  == [p EXCEPT !.ok = b, !.ioFd = NoFd, !.iopl = b \/ @]

\* The helper may be out of reach.
NoHelperFor(p) == FreeFds(p) = {} \/ FALSE \in Works[p.world]["helper"]

\* Descriptors of the program, and of the library by its own variables.
AppFds(p) == {f \in Fds : p.owner[f] = "app"}

Kinds(p) ==
  /\ p.memFd # NoFd => p.owner[p.memFd] = "mem"
  /\ p.ioFd # NoFd  => p.owner[p.ioFd] = "io"
  /\ p.irqFd # NoFd => p.owner[p.irqFd] = "irq"

\* What a call made by driver d leaves as it was.
Left(p, q, d) ==
  /\ q \in Processes /\ Kinds(q)
  /\ q.world = p.world /\ AppFds(q) = AppFds(p)
  /\ \A e \in Drivers \ {d} :
       /\ q.ptr[e] = p.ptr[e] /\ q.live[e] = p.live[e] /\ q.file[e] = p.file[e]
       /\ q.dma[e] = p.dma[e] /\ q.irq[e] = p.irq[e]

\* A call that leaves bus mastering and the drivers' own files alone.
Plain(p, q) ==
  /\ q.bmFd = p.bmFd /\ q.file = p.file
  /\ \A f \in Fds : p.owner[f] \in {"bm", "driver"} => q.owner[f] = p.owner[f]

\* disable_app_io
Disabled(p) ==
  IF p.ioFd = NoFd THEN [p EXCEPT !.ioCount = Down(@), !.iopl = FALSE]
  ELSE IF Down(p.ioCount) = 0
  THEN [p EXCEPT !.ioCount = 0, !.owner[p.ioFd] = "none", !.ioFd = NoFd]
  ELSE [p EXCEPT !.ioCount = Down(@)]

\* Without the helper a scan asks for the ports and gives them back.
ScanFallback(p, q) ==
  \E e \in enable_app_io(Says(p, FALSE)) :
    IF e.ok THEN \E b \in Works[p.world]["bus"] : q = Disabled(Says(e, b)) ELSE q = e

\* map_phys_mem
MemOpened(p, f)    == [p EXCEPT !.ok = TRUE, !.owner[f] = "mem", !.memFd = f]
Mapped(p, d, r, b) ==
  [p EXCEPT !.ok = b, !.memLocks = Up(@),
            !.ptr[d][r]  = IF b THEN "held" ELSE "failed",
            !.live[d][r] = IF b THEN @ + 1 ELSE @]

\* munmap of a mapping: the pointer stays as it is.
Counted(p, d, r, x) ==
  [p EXCEPT !.memLocks = Down(@),
            !.live[d][r] = IF p.ptr[d][r] = "held" /\ x # "part" THEN @ - 1 ELSE @]
Unmapped(p, d, r, x) ==
  IF Down(p.memLocks) = 0 /\ p.memFd # NoFd
  THEN [Counted(p, d, r, x) EXCEPT !.owner[p.memFd] = "none", !.memFd = NoFd]
  ELSE Counted(p, d, r, x)

\* malloc and free
Alloced(p, d, t, b) ==
  [p EXCEPT !.ok = b, !.ptr[d][t] = IF b THEN "held" ELSE "null",
            !.live[d][t] = IF b THEN @ + 1 ELSE @]
Freed(p, d, t) == [p EXCEPT !.live[d][t] = IF p.ptr[d][t] = "held" THEN @ - 1 ELSE @]

\* hwirq_install
IrqOpened(p, f)    == [p EXCEPT !.ok = TRUE, !.owner[f] = "irq", !.irqFd = f]
Installed(p, d, b) == [p EXCEPT !.ok = b, !.irqUsed = TRUE,
                                !.irq[d] = IF b THEN "yes" ELSE "tried"]

\* hwirq_uninstall
Uninstalled(p, d) ==
  [p EXCEPT !.irq[d] = IF p.irqFd # NoFd THEN "no" ELSE @]

----------------------------------------------------------------------------
\* Bus mastering and the drivers' own files.

\* The descriptor for bus mastering, if there is one, is still that.
BmKept(p) == p.bmFd # NoFd => p.owner[p.bmFd] = "bm"

\* The files the drivers opened themselves are left alone.
FilesLeft(p, q) ==
  q.file = p.file /\ \A f \in Fds : p.owner[f] = "driver" => q.owner[f] = "driver"

\* bm_open, and the driver that notes whether it succeeded.
BmOpened(p, f) == [p EXCEPT !.ok = TRUE, !.owner[f] = "bm", !.bmFd = f]
BmRefused(p)   == [p EXCEPT !.ok = FALSE, !.bmFd = NoFd]
Masters(p, d, b) == [p EXCEPT !.dma[d] = b]

\* What the tables of a driver with bus mastering come to: its second kind of memory is
\* asked for only where it has the first.
ListsMade(p, d, q) ==
  \E n \in BmTable(p, d) :
    \/ ~n.dma[d] /\ q = n
    \/ n.dma[d] /\ \E b \in BOOLEAN : q = Masters(Alloced(n, d, "block", b), d, b)

\* The files of ivtv.
FileOpened(p, d, f, n) ==
  [p EXCEPT !.ok = TRUE, !.owner[n] = "driver", !.file[d][f] = n]
FileRefused(p, d, f) == [p EXCEPT !.ok = FALSE, !.file[d][f] = NoFd]

\* The descriptors a driver opened itself are its open files.
OwnFiles(p, d) == \A f \in Files : p.file[d][f] # NoFd => p.owner[p.file[d][f]] = "driver"

\* A file of the driver is given back.
FileClosed(p, n) == [p EXCEPT !.owner[n] = "none"]

\* Descriptor n was closed and nothing else was.
Gone(p, q, n) ==
  /\ q.alive = p.alive /\ q.bmFd = p.bmFd /\ q.file = p.file /\ q.ok = p.ok
  /\ q.owner[n] = "none" /\ \A m \in Fds \ {n} : q.owner[m] = p.owner[m]

----------------------------------------------------------------------------
\* Scripts.

\* The calls of a script, one after the other: when each takes the processes of
\* one stage to the next, or to those that stop, so does the handler.
Ends(p, r, Y, X) ==
  IF p.alive # "run" THEN r.p = p
  ELSE IF r.done THEN r.p.alive = "run" /\ r.p \in Y ELSE r.p \in X

\* Calls that leave bus mastering and the drivers' own files alone, and those that
\* open the helper for bus mastering.
IsPlain(s) ==
  \/ s[1] \in {"scan", "card", "probePorts", "ports", "enable", "enableOr", "disable",
               "uninstall", "uninstallIf", "memory", "fits", "regs"}
  \/ s[1] \in {"map", "mapOr", "unmap", "unmapSized", "unmapIf"} /\ s[2] \in Regions
  \/ s[1] \in {"alloc", "allocOr", "free"} /\ s[2] \in Blocks

IsBm(s)    == s[1] \in {"bmIrq", "bmTable", "bmLists"}
IsClose(s) == s[1] = "close" /\ s[2] \in Files
IsOpen(s)  == s[1] \in {"openOr", "screenOr"} /\ s[2] \in Files

\* The descriptors opened for bus mastering stay open.
BmLeft(p, q) ==
  q.bmFd = p.bmFd /\ \A f \in Fds : p.owner[f] = "bm" => q.owner[f] = "bm"

\* A driver with bus mastering is left with a mapping that failed, or the program ended.
Doomed(p, d) == p.alive = "run" => p.ptr[d]["ctl"] = "failed" \/ p.ptr[d]["mem"] = "failed"

\* What a handler leaves alone: descriptors of the program, and the files of ivtv
\* unless it is its own handler.
Hand(p, q, d) == Left(p, q, d) /\ (d # "ivtv" => FilesLeft(p, q))

\* While vixDestroy of ivtv closes its two files, none was opened in between.
FilesSafe(p, d) ==
  \A f \in Files : p.file[d][f] # NoFd => p.owner[p.file[d][f]] \in {"driver", "none"}

\* dlclose touches no descriptor.
Unloaded(p, q, d) ==
  /\ q.alive = p.alive /\ q.owner = p.owner
  /\ \A f \in Files : q.file[d][f] = NoFd
  /\ q.bmFd = IF Used \subseteq {d} THEN NoFd ELSE p.bmFd

----------------------------------------------------------------------------
\* The invariant behind AppUnharmed: the library's variables name descriptors of
\* their kind, a driver's files are its own, and the descriptor for bus mastering is
\* good while a driver that closes it is open.
FilesGood(p, st) ==
  \A e \in Drivers :
    IF e = "ivtv" /\ st[e] # "closed" THEN OwnFiles(p, e)
    ELSE \A f \in Files : p.file[e][f] = NoFd

\* bmFd names no stale descriptor where one is about to be closed.
BmGood(p, st) ==
  /\ (\A e \in Drivers : st[e] = "closed") \/ Uses[p.world] \cap Openers = {}
       => p.bmFd = NoFd
  /\ (\E e \in Drivers \cap Closers : st[e] # "closed") => BmKept(p)

\* The open drivers are those the program may have open together.
UseGood(p, st) ==
  /\ \A e \in Drivers : st[e] # "closed" => e \in Uses[p.world]
  /\ \A e, g \in Drivers : st[e] # "closed" /\ st[g] # "closed"
                             => e = g \/ p.world \in Several

Sound(p, st) ==
  p.alive = "run" => Kinds(p) /\ FilesGood(p, st) /\ BmGood(p, st) /\ UseGood(p, st)

SoundInv == TypeOK /\ Sound(proc, stage)

\* The part of FilesGood that is about driver d.
OwnGood(p, st, d) ==
  IF d = "ivtv" /\ st[d] # "closed" THEN OwnFiles(p, d)
  ELSE \A f \in Files : p.file[d][f] = NoFd

----------------------------------------------------------------------------
\* What the calls do to the driver that makes them.

\* The ports can be accessed.
PortsOpen(p) == p.iopl \/ p.ioFd # NoFd

\* What a call obtains, and what the first i calls of a handler obtain.
Obtains(s) == IF s[1] \in {"map", "mapOr", "alloc", "allocOr"} THEN {s[2]} ELSE {}
Obtained(script, i) == {t \in Things : \E j \in 1 .. i : t \in Obtains(script[j])}
All(script) == Obtained(script, Len(script))

\* A system driver d can be used on, and the calls that depend on it.
Suits(w, d) == Serves(w, d) \/ (d \in Checkers /\ FALSE \in Works[w]["map"])
Fits(d, s) ==
  /\ s[1] \in {"alloc", "allocOr"} => d \in Heapers
  /\ s[1] \in {"ports", "enable", "enableOr", "disable", "probePorts"} => d \in Enablers
  /\ s[1] = "map" => d \notin Checkers
  /\ s[1] = "memory" => d = "s3"

\* What has to be there when the call is made.
Ready(p, d, s) ==
  /\ s[1] \in {"regs", "unmapSized"} => p.ptr[d][s[2]] = "held"
  /\ s[1] \in {"unmap", "unmapIf"} => p.ptr[d][s[2]] # "failed"
  /\ s[1] = "ports" => PortsOpen(p)
  /\ s[1] = "bmIrq" => p.ptr[d]["ctl"] = "held"

\* The program ended for want of a descriptor.
Ended(q) == q.alive = "exit" /\ FreeFds(q) = {}

\* The call leaves the driver what it has, obtains what it asks for unless a mapping
\* that the driver looks at failed, and leaves the ports open.
Steady(p, q, d, s) ==
  /\ q.dma = p.dma
  /\ \A t \in Things \ Obtains(s) : q.ptr[d][t] = p.ptr[d][t]
  /\ \A t \in Obtains(s) : IF q.ok THEN q.ptr[d][t] = "held"
                           ELSE /\ s[1] = "mapOr" /\ ~Serves(p.world, d)
                                /\ q.ptr[d][t] = "failed"
  /\ s[1] = "enableOr" => q.ok
  /\ s[1] \in {"enable", "enableOr"} => PortsOpen(q)
  /\ s[1] \notin {"scan", "probePorts", "disable"} /\ PortsOpen(p) => PortsOpen(q)

\* So it does, or it ends the program as it may.
Fine(p, q, d, s) ==
  /\ q.alive = "run" => Steady(p, q, d, s)
  /\ q.alive # "run" /\ Serves(p.world, d) => Ended(q)

\* Nothing of the driver is touched, nor what concerns the ports.
Quiet(p, q)  == q.alive = p.alive /\ q.ptr = p.ptr /\ q.dma = p.dma
Silent(p, q) == Quiet(p, q) /\ q.iopl = p.iopl /\ q.ioFd = p.ioFd

\* What the parts of vixInit that set up bus mastering do to the driver.
Armed(p, q, d) ==
  /\ q.alive = p.alive /\ q.iopl = p.iopl /\ q.ioFd = p.ioFd
  /\ \A r \in Regions : q.ptr[d][r] = p.ptr[d][r]
  /\ \A t \in Blocks : q.ptr[d][t] = p.ptr[d][t] \/ q.ptr[d][t] # "failed"

----------------------------------------------------------------------------
\* Handlers whose calls find what they need.  c is what the handler starts from: the
\* system, the things the driver holds, whether the ports are open, whether the
\* descriptor for bus mastering is good, and whether bus mastering is not set up.
Undisturbed(script, i) == \A j \in 1 .. i : script[j][1] \notin {"scan", "probePorts", "disable"}
Asked(script, i)       == \E j \in 1 .. i : script[j][1] \in {"enable", "enableOr"}
Unclosed(script, i)    == \A j \in 1 .. i : script[j][1] # "bmClose"
Unarmed(script, i)     == \A j \in 1 .. i : ~IsBm(script[j])
Mapping(script)        == \E j \in 1 .. Len(script) : script[j][1] = "mapOr"
Refusing(script)       == \E j \in 1 .. Len(script) : script[j][1] \in {"scan", "card", "fits"}

\* The handler makes the calls its driver may make; those for bus mastering once.
Formed(d, script, c) ==
  \A i \in 1 .. Len(script) :
    LET s == script[i]
    IN  /\ IsPlain(s) \/ IsBm(s) \/ s[1] = "bmClose"
        /\ Fits(d, s)
        /\ IsBm(s) => d \in Openers /\ c.fresh /\ Unarmed(script, i - 1)
        /\ s[1] = "bmClose" => c.kept /\ Unclosed(script, i - 1)

\* The driver has what it accesses.
Supplied(script, c) ==
  \A i \in 1 .. Len(script) :
    LET s == script[i]
        held == c.things \cup Obtained(script, i - 1)
    IN  /\ s[1] \in {"regs", "unmapSized"} => s[2] \in held
        /\ s[1] = "bmIrq" => "ctl" \in held
        /\ s[1] \in {"bmIrq", "bmTable", "bmLists"} => held \subseteq Regions

\* It accesses the ports only while they are open.
Ported(script, c) ==
  \A i \in 1 .. Len(script) :
    script[i][1] = "ports" => (c.ports \/ Asked(script, i - 1)) /\ Undisturbed(script, i - 1)

Orderly(d, script, c) == Formed(d, script, c) /\ Supplied(script, c) /\ Ported(script, c)

\* The driver has what it needs and nothing that failed.
Holds(q, d, T, w) ==
  /\ q \in Processes /\ Kinds(q) /\ q.world = w /\ q.alive = "run"
  /\ \A t \in Things : q.ptr[d][t] # "failed"
  /\ \A t \in T : q.ptr[d][t] = "held"
  /\ q.dma[d] => d \in Openers /\ q.bmFd # NoFd

\* After i calls.
At(d, script, c, i) ==
  {q \in Processes :
     /\ Holds(q, d, c.things \cup Obtained(script, i), c.world)
     /\ c.kept /\ Unclosed(script, i) => BmKept(q)
     /\ (c.ports \/ Asked(script, i)) /\ Undisturbed(script, i) => PortsOpen(q)
     /\ c.fresh /\ Unarmed(script, i) => ~q.dma[d]}

\* Where the handler ends early: a missing card or a movie that does not fit, a
\* mapping that failed, or the end of the program.
Out(d, script, c) ==
  {q \in Processes :
     /\ q.world = c.world
     /\ q.alive # "run" /\ Serves(c.world, d) => Ended(q)
     /\ q.alive = "run" =>
          \/ /\ Refusing(script) /\ Holds(q, d, c.things, c.world)
             /\ c.ports /\ Undisturbed(script, Len(script)) => PortsOpen(q)
          \/ Mapping(script) /\ ~Serves(c.world, d)}

----------------------------------------------------------------------------
\* The handlers.

\* What a driver has from the return of vixInit on.
Has(p, d, T) ==
  /\ \A t \in Things : p.ptr[d][t] # "failed"
  /\ \A t \in T : p.ptr[d][t] = "held"
  /\ p.dma[d] => d \in Openers /\ p.bmFd # NoFd
  /\ d \in Porters => PortsOpen(p)

\* A system on which every handler of driver d may be called.
Suitable(w, d) == Suits(w, d) /\ (d \in Openers => FALSE \notin Works[w]["version"])

\* The program has not ended but for want of a descriptor.
Alive(w, d, q) == q.alive # "run" /\ Serves(w, d) => Ended(q)

----------------------------------------------------------------------------
\* Who owns the descriptors of the library.

\* The descriptor of the mappings is the only one of its kind.
Sole(p) == \A f \in Fds : p.owner[f] = "mem" => f = p.memFd

\* No descriptor for interrupts, bus mastering or a device file is opened.
Tame(p, q) ==
  /\ \A f \in Fds : q.owner[f] \in {"irq", "bm", "driver"} => q.owner[f] = p.owner[f]
  /\ Sole(p) => Sole(q)

\* Nothing that concerns the ports changes.
Off(p, q) ==
  /\ q.ioFd = p.ioFd /\ q.ioCount = p.ioCount /\ q.iopl = p.iopl
  /\ \A f \in Fds : q.owner[f] = "io" <=> p.owner[f] = "io"

\* A call that does neither.
Apart(p, q) == Tame(p, q) /\ Off(p, q)

\* The calls that leave the ports alone.
Distant(s) == s[1] \notin {"scan", "probePorts", "enable", "enableOr", "disable"}

----------------------------------------------------------------------------
\* The ports.

\* Systems whose drivers share the ports through the helper: of these drivers one
\* needs the ports, and the others scan the bus.
Paired(w) == /\ w \in Clean /\ Uses[w] \cap Porters # {}
             /\ FALSE \notin Works[w]["helper"]

\* The ports while a driver has them, or not.  Without the helper only the
\* privilege level is used.
Neat(p, on) ==
  /\ \A f \in Fds : p.owner[f] = "io" => f = p.ioFd
  /\ ~on => ~p.iopl
  /\ IF Paired(p.world) THEN /\ ~p.iopl /\ p.ioCount = (IF on THEN 1 ELSE 0)
                             /\ p.ioFd # NoFd <=> on
     ELSE p.ioFd = NoFd

\* A descriptor is free for the helper where it is shared.
Roomy(p) == IF Paired(p.world) THEN FreeFds(p) # {}
            ELSE FreeFds(p) = {} \/ TRUE \notin Works[p.world]["helper"]

\* The program leaves descriptors to the drivers.
Counts(p) == Cardinality(AppFds(p)) <= Cardinality(Fds) - Reserve

\* Where the ports are shared, nothing but the mappings and the ports holds a
\* descriptor of the library.
Slim(p) == Paired(p.world) => \A f \in Fds : p.owner[f] \notin {"irq", "bm", "driver"}

----------------------------------------------------------------------------
\* The calls for bus mastering.

\* The descriptor of the mappings stays the only one, and nothing that concerns the
\* ports changes.
Aside(p, q) == (Sole(p) => Sole(q)) /\ Off(p, q)

----------------------------------------------------------------------------
\* The ports, call by call.  O[i] tells whether the driver that needs the ports has
\* them after i calls of the handler.
Turn(d, s, a, b) ==
  /\ s[1] \in {"enable", "enableOr"} => d \in Porters /\ ~a /\ b
  /\ s[1] = "disable" => a /\ ~b
  /\ s[1] = "probePorts" => d \in Porters /\ ~a
  /\ s[1] \notin {"enable", "enableOr", "disable"} => (a <=> b)

\* All calls of a handler do.
Turns(d, script, O) ==
  \A i \in 1 .. Len(script) : Turn(d, script[i], O[i - 1], O[i])

\* The calls of a driver that closes what it opens once.
Made(d, s) == IsPlain(s) \/ (IsBm(s) /\ d \in Openers) \/ (s[1] = "bmClose" /\ d \in Closers)
Built(d, script) ==
  \A i \in 1 .. Len(script) :
    Made(d, script[i]) /\ (script[i][1] = "bmClose" => Unclosed(script, i - 1))

\* What holds on a system where nothing is left behind.
Calm(p, on) == Neat(p, on) /\ Sole(p) /\ Slim(p) /\ Counts(p)

----------------------------------------------------------------------------
\* The mappings.

\* Nothing the mappings and blocks are counted by changes.
Still(p, q) ==
  q.ptr = p.ptr /\ q.live = p.live /\ q.memLocks = p.memLocks /\ q.memFd = p.memFd

\* The calls that neither obtain nor give back a mapping or block.
Neutral(s) == s[1] \in {"scan", "card", "probePorts", "ports", "enable", "enableOr", "disable",
                        "uninstall", "uninstallIf", "fits", "regs", "bmClose"}

\* The regions that are mapped.
Locks(p) == {x \in Drivers \X Regions : p.live[x[1]][x[2]] # 0}

\* What libdha keeps of them: their number, and the descriptor only while there are any.
Booked(p) ==
  /\ Locks(p) \subseteq Uses[p.world] \X Regions
  /\ p.memLocks = Cardinality(Locks(p))
  /\ p.memLocks = 0 => p.memFd = NoFd

\* What a call may obtain, and what it gives back.
Gain(s) == Obtains(s) \cup (IF s[1] \in {"bmTable", "bmLists"} THEN Blocks ELSE {})
Loss(s) == IF s[1] \in {"unmap", "unmapSized", "free"} THEN {s[2]} ELSE {}

\* Driver d holds all of H and nothing outside G, and of what it holds it gave back R.
Account(p, d, H, G, R) ==
  /\ Booked(p)
  /\ \A t \in Things : p.live[d][t] = IF p.ptr[d][t] = "held" /\ t \notin R THEN 1 ELSE 0
  /\ \A t \in H : p.ptr[d][t] = "held"
  /\ \A t \in Things : p.ptr[d][t] = "held" => t \in G

\* q is p but for driver d having n of t, and its pointer to it being v.
Sets(p, q, d, t, n, v) ==
  q.live = [p.live EXCEPT ![d][t] = n] /\ q.ptr = [p.ptr EXCEPT ![d][t] = v]

\* What the first i calls of a handler may obtain, and what they give back.
Gained(script, i)   == {t \in Things : \E j \in 1 .. i : t \in Gain(script[j])}
Released(script, i) == {t \in Things : \E j \in 1 .. i : t \in Loss(script[j])}

\* A handler that obtains nothing twice and gives nothing back twice.
Balanced(script, H, G) ==
  \A i \in 1 .. Len(script) :
    /\ script[i][1] \notin {"unmapIf", "memory"}
    /\ Gain(script[i]) \cup Loss(script[i]) \subseteq Things
    /\ Gain(script[i]) \cap (G \cup Gained(script, i - 1) \cup Released(script, i - 1)) = {}
    /\ Loss(script[i]) \cap Released(script, i - 1) = {}
    /\ script[i][1] \in {"unmap", "unmapSized"} => script[i][2] \in H

\* What vixInit may obtain.
Owed(d) == Gained(InitOf[d], Len(InitOf[d]))

\* Driver d has nothing, or what its pointers say.
Rid(p, d)   == Booked(p) /\ \A t \in Things : p.live[d][t] = 0
Keeps(p, d) == Account(p, d, {}, Owed(d), {})

----------------------------------------------------------------------------
\* What holds between the calls of the program.

\* What driver d has, by its stage.
Holding(st, d) == All(InitOf[d]) \cup (IF st[d] = "configured" THEN All(ConfigOf[d]) ELSE {})

\* A closed driver has nothing to work with, an open one what it needs.
OwnHeld(p, st, d) ==
  IF st[d] = "closed" THEN (\A t \in Things : p.ptr[d][t] = "null") /\ ~p.dma[d]
  ELSE Has(p, d, Holding(st, d))

\* Where all is given back, its account too.
OwnTidy(p, st, d) ==
  IF st[d] = "closed" THEN \A t \in Things : p.live[d][t] = 0 ELSE Keeps(p, d)

\* A driver that needs the ports is open.
PortsOn(st) == \E e \in Drivers \cap Porters : st[e] # "closed"

\* And the library's counters and descriptors fit what is there.
Tidied(p, st) ==
  Calm(p, PortsOn(st)) /\ Booked(p) /\ \A d \in Drivers : OwnTidy(p, st, d)

\* Why a program may have ended.
Alone(p) == FALSE \in Works[p.world]["map"] \/ Ended(p)

\* While the program runs its open drivers have what they need; it has ended for a reason.
Life(p, st) ==
  /\ p.alive = "run" => /\ \A d \in Drivers : OwnHeld(p, st, d)
                        /\ p.world \in Clean => Tidied(p, st)
  /\ p.alive # "run" => Alone(p)

\* The invariant behind ResourcesHeld and AppSurvives.
LifeInv == SoundInv /\ Life(proc, stage)

----------------------------------------------------------------------------
\* Interrupts and bus mastering.

\* Calls that leave both alone, and open no device file.
Mute(p, q) ==
  /\ q.irq = p.irq /\ q.irqFd = p.irqFd /\ q.irqUsed = p.irqUsed /\ q.bmFd = p.bmFd
  /\ \A f \in Fds : q.owner[f] \in {"bm", "driver"} => q.owner[f] = p.owner[f]

----------------------------------------------------------------------------
\* The descriptor of irq.c is kept once it is opened, and only mach64 and pm3 install
\* an interrupt.
Wired(p) ==
  /\ p.irqFd # NoFd => p.irqUsed
  /\ \A e \in Drivers : p.irq[e] = "yes" => p.irqFd # NoFd /\ e \in {"mach64", "pm3"}

\* The library's descriptor for bus mastering is the only one, and is there only
\* while a driver has opened it.  The drivers have no files of their own.
Claims(p, on) ==
  \A f \in Fds : p.owner[f] # "driver" /\ (p.owner[f] = "bm" => on /\ f = p.bmFd)

\* Interrupts and bus mastering, call by call.  O[i] tells whether the driver has opened
\* the helper for bus mastering after i calls of the handler.
Passes(d, s, a, b) ==
  /\ IsBm(s) => ~a /\ b
  /\ ~IsBm(s) /\ s[1] # "bmClose" => (a <=> b)
  /\ s[1] = "bmIrq" => d = "pm3"

\* The calls that give an interrupt back.
Frees(s) == s[1] \in {"uninstall", "uninstallIf"}

\* The interrupt of driver d after i calls of the handler.
Freeing(p, q, d, script, i) ==
  /\ Wired(q)
  /\ (\A j \in 1 .. i : script[j][1] # "bmIrq")
       /\ (p.irq[d] # "yes" \/ \E j \in 1 .. i : Frees(script[j])) => q.irq[d] # "yes"

\* The helper is opened for bus mastering once.
Granted(script, i) == \E j \in 1 .. i : IsBm(script[j])

\* A driver that opens the helper for bus mastering is open.
MasterOn(st) == \E e \in Drivers \cap Openers : st[e] # "closed"

\* Of bus mastering and interrupts, a system where nothing is left has what its open
\* drivers asked for.
Cleared(p, st) ==
  Wired(p) /\ Claims(p, MasterOn(st)) /\ \A e \in Drivers : st[e] = "closed" => p.irq[e] = "no"

\* The invariant behind NothingLeft.
ClearInv ==
  LifeInv /\ (proc.alive = "run" /\ proc.world \in Clean => Cleared(proc, stage))
=============================================================================
