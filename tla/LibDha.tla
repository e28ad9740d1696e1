------------------------------- MODULE LibDha -------------------------------
(***************************************************************************)
(* What libdha keeps for a process and what its calls do to it: the file   *)
(* descriptors and counters that map_phys_mem, enable_app_io, bm_open and  *)
(* hwirq_install hold in static variables of libdha.c, ports.c, mmi.c and  *)
(* irq.c, and the system resources behind them.  Every call maps a process *)
(* to the set of processes it may leave behind.                            *)
(***************************************************************************)
EXTENDS Integers, FiniteSets, FiniteSetsExt

CONSTANTS
  Fds,       \* file descriptors a process may have beside the standard ones
  Width,     \* number of values of an unsigned counter
  Drivers,   \* drivers a program uses
  Worlds,    \* kinds of systems a program may run on
  Works      \* Works[w][c]: whether call c of the system may succeed, may fail

NoFd    == -1
Regions == {"ctl", "mem"}           \* registers and video memory
Blocks  == {"block", "table"}       \* heap blocks a driver allocates
Files   == {"fb", "yuv"}            \* device files a driver opens itself
Things  == Regions \cup Blocks
Users   == {"none", "app", "driver", "mem", "io", "irq", "bm"}
Calls   == {"helper", "devmem", "map", "iopl", "version", "alloc", "irq", "bus",
            "card", "device", "screen", "memory", "fits"}

ASSUME FdsAssumption   == Fds \subseteq Nat \ {0} /\ IsFiniteSet(Fds)
ASSUME WidthAssumption == Width \in Nat \ {0}
ASSUME WorksAssumption == Works \in [Worlds -> [Calls -> (SUBSET BOOLEAN) \ {{}}]]

\* world: the system, which does not change.  owner: who opened each descriptor.
\* ptr: what a driver's pointer to a region or block holds; live: mappings and
\* blocks it has, below zero where it gave back too many.  ok: whether the last call
\* succeeded; irqUsed: hwirq_locks is not zero; alive: whether the process runs,
\* called exit, or got a SIGSEGV.
Processes ==
  [world : Worlds, owner : [Fds -> Users],
   memFd : Fds \cup {NoFd}, memLocks : 0 .. Width - 1,
   ioFd  : Fds \cup {NoFd}, ioCount  : 0 .. Width - 1,
   irqFd : Fds \cup {NoFd}, irqUsed : BOOLEAN, bmFd : Fds \cup {NoFd},
   iopl  : BOOLEAN,
   ptr   : [Drivers -> [Things -> {"null", "failed", "held"}]],
   live  : [Drivers -> [Things -> Int]],
   file  : [Drivers -> [Files -> Fds \cup {NoFd}]],
   dma   : [Drivers -> BOOLEAN], irq : [Drivers -> {"no", "tried", "yes"}],
   ok    : BOOLEAN, alive : {"run", "exit", "fault"}]

\* The library just loaded: its static variables.
Loaded(p) ==
  [p EXCEPT !.memFd = NoFd, !.memLocks = 0, !.ioFd = NoFd, !.ioCount = 0,
            !.irqFd = NoFd, !.irqUsed = FALSE, !.bmFd = NoFd]

Start(w) ==
  [world |-> w, owner |-> [f \in Fds |-> "none"],
   memFd |-> NoFd, memLocks |-> 0, ioFd |-> NoFd, ioCount |-> 0,
   irqFd |-> NoFd, irqUsed |-> FALSE, bmFd |-> NoFd, iopl |-> FALSE,
   ptr   |-> [d \in Drivers |-> [t \in Things |-> "null"]],
   live  |-> [d \in Drivers |-> [t \in Things |-> 0]],
   file  |-> [d \in Drivers |-> [f \in Files |-> NoFd]],
   dma   |-> [d \in Drivers |-> FALSE], irq |-> [d \in Drivers |-> "no"],
   ok    |-> TRUE, alive |-> "run"]

----------------------------------------------------------------------------
\* The system.
Up(n)     == (n + 1) % Width
Down(n)   == (n - 1) % Width
Fails(p)  == [p EXCEPT !.ok = FALSE]
Exits(p)  == [p EXCEPT !.alive = "exit"]
Faults(p) == [p EXCEPT !.alive = "fault"]

\* Op on each of the processes that still run.
Then(ps, Op(_)) == UNION {IF p.alive = "run" THEN Op(p) ELSE {p} : p \in ps}
Try(p, c)       == {[p EXCEPT !.ok = ok] : ok \in Works[p.world][c]}

\* open: the lowest free descriptor.
FreeFds(p) == {f \in Fds : p.owner[f] = "none"}
Open(p, c, user) ==
  {IF q.ok /\ FreeFds(p) # {}
   THEN [fd |-> Min(FreeFds(p)), p |-> [q EXCEPT !.owner[Min(FreeFds(p))] = user]]
   ELSE [fd |-> NoFd, p |-> Fails(q)] : q \in Try(p, c)}

\* close: whoever opened the descriptor; -1 has no effect.
CloseFd(p, fd) == IF fd \in Fds THEN [p EXCEPT !.owner[fd] = "none"] ELSE p

Helper(p, fd) == fd \in Fds /\ p.owner[fd] \in {"mem", "io", "irq", "bm"}

----------------------------------------------------------------------------
\* libdha.c
OpenMem(p) ==
  IF p.memFd # NoFd THEN {p}
  ELSE Then({[o.p EXCEPT !.memFd = o.fd] : o \in Open(p, "helper", "mem")},
            LAMBDA q : IF q.ok THEN {q}
              ELSE {IF o.p.ok THEN [o.p EXCEPT !.memFd = o.fd] ELSE Exits(o.p) :
                      o \in Open(q, "devmem", "mem")})

map_phys_mem(p, d, r) ==
  Then(OpenMem(p), LAMBDA q :
    {[m EXCEPT !.memLocks = Up(@),
               !.ptr[d][r]  = IF m.ok THEN "held" ELSE "failed",
               !.live[d][r] = IF m.ok THEN @ + 1 ELSE @] :
       m \in IF q.owner[q.memFd] = "mem" THEN Try(q, "map") ELSE {Fails(q)}})

\* munmap fails, and ends the program, for MAP_FAILED and for an empty range;
\* it accepts a range with nothing in it, and one that is smaller than the
\* mapping.  extent: what the size argument is, "all" of the region, "part" of
\* it, or "sized" for a variable that is zero until the region was mapped.
UnmapFails(p, d, r, extent) ==
  \/ p.ptr[d][r] = "failed"
  \/ p.ptr[d][r] = "null" /\ extent = "sized"

unmap_phys_mem(p, d, r, extent) ==
  IF UnmapFails(p, d, r, extent) THEN {Exits(p)}
  ELSE LET q == [p EXCEPT
                  !.memLocks = Down(@),
                  !.live[d][r] = IF p.ptr[d][r] = "held" /\ extent # "part"
                                 THEN @ - 1 ELSE @]
       IN {IF q.memLocks = 0 THEN [CloseFd(q, q.memFd) EXCEPT !.memFd = NoFd] ELSE q}

----------------------------------------------------------------------------
\* ports.c
enable_app_io(p) ==
  UNION {LET q == [o.p EXCEPT !.ioFd = o.fd] IN
         IF q.ok THEN {[q EXCEPT !.ioCount = Up(@)]}
         ELSE {[r EXCEPT !.iopl = r.ok \/ @] : r \in Try(q, "iopl")} :
           o \in Open(p, "helper", "io")}

disable_app_io(p) ==
  LET q == [p EXCEPT !.ioCount = Down(@)] IN
  IF q.ioFd = NoFd THEN {[q EXCEPT !.iopl = FALSE]}
  ELSE {IF q.ioCount = 0 THEN [CloseFd(q, q.ioFd) EXCEPT !.ioFd = NoFd] ELSE q}

\* INPORT and OUTPORT: through the helper, or the instruction itself.
PortAccess(p) == p.iopl \/ Helper(p, p.ioFd)
ports(p)      == {IF PortAccess(p) THEN p ELSE Faults(p)}

\* Registers and memory through a mapping.
regs(p, d, t) == {IF p.ptr[d][t] = "held" THEN p ELSE Faults(p)}

----------------------------------------------------------------------------
\* mmi.c and irq.c.  Variant: the right version is the one that is refused.
bm_open_inverted(p) ==
  UNION {LET q == [o.p EXCEPT !.bmFd = o.fd] IN
         IF ~q.ok THEN {q}
         ELSE {IF v.ok THEN CloseFd(v, v.bmFd) ELSE v : v \in Try(q, "version")} :
           o \in Open(p, "helper", "bm")}

bm_open(p) ==
  UNION {LET q == [o.p EXCEPT !.bmFd = o.fd] IN
         IF ~q.ok THEN {q}
         ELSE {IF v.ok THEN v ELSE CloseFd(v, v.bmFd) : v \in Try(q, "version")} :
           o \in Open(p, "helper", "bm")}

bm_close(p) == {CloseFd(p, p.bmFd)}

hwirq_install(p, d) ==
  UNION {LET q == [o.p EXCEPT !.irqFd = o.fd, !.irqUsed = TRUE] IN
         IF Helper(q, q.irqFd)
         THEN {[r EXCEPT !.irq[d] = IF r.ok THEN "yes" ELSE "tried"] :
                 r \in Try(q, "irq")}
         ELSE {[Fails(q) EXCEPT !.irq[d] = "tried"]} :
           o \in IF p.irqFd = NoFd THEN Open(p, "helper", "irq")
                                   ELSE {[fd |-> p.irqFd, p |-> p]}}

hwirq_uninstall(p, d) ==
  LET q == [p EXCEPT !.irq[d] = IF Helper(p, p.irqFd) THEN "no" ELSE @] IN
  {IF ~q.irqUsed THEN [CloseFd(q, q.irqFd) EXCEPT !.irqFd = NoFd] ELSE q}

----------------------------------------------------------------------------
\* pci.c: through the helper, or with the ports; without a PCI bus it is
\* pci_config_type that gives the ports back.  Variant: nobody does.
__pci_scan_enabled(p) ==
  Then(enable_app_io(p), LAMBDA q : IF q.ok THEN Try(q, "bus") ELSE {q})

__pci_scan(p) ==
  Then(enable_app_io(p), LAMBDA q :
    IF q.ok THEN Then(Try(q, "bus"), disable_app_io) ELSE {q})

\* Variant: the descriptor of the ports is closed.
pci_scan_mistaken(p) ==
  UNION {IF o.p.ok THEN {CloseFd(o.p, o.p.ioFd)} ELSE __pci_scan(o.p) :
           o \in Open(p, "helper", "io")}

pci_scan(p) ==
  UNION {IF o.p.ok THEN {CloseFd(o.p, o.fd)} ELSE __pci_scan(o.p) :
           o \in Open(p, "helper", "io")}

----------------------------------------------------------------------------
\* The C library: a block of memory that the driver does or does not look at.
alloc(p, d, b) ==
  {[q EXCEPT !.ptr[d][b]  = IF q.ok THEN "held" ELSE "null",
             !.live[d][b] = IF q.ok THEN @ + 1 ELSE @] : q \in Try(p, "alloc")}

free(p, d, b) ==
  {[p EXCEPT !.live[d][b] = IF p.ptr[d][b] = "held" THEN @ - 1 ELSE @]}

device_open(p, d, f) ==
  {[o.p EXCEPT !.file[d][f] = o.fd] : o \in Open(p, "device", "driver")}

device_close(p, d, f) == {CloseFd(p, p.file[d][f])}
=============================================================================
