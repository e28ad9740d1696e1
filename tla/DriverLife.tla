----------------------------- MODULE DriverLife -----------------------------
(***************************************************************************)
(* The life of the drivers in a program that opens several of them: what   *)
(* vixProbe, vixInit, vixConfigPlayback, the playback calls and vixDestroy *)
(* of each driver do to the resources libdha manages, and the calls that   *)
(* vdlOpen and vdlClose make.  A handler is a script of the calls it makes *)
(* in their order; its register values are left out.                       *)
(***************************************************************************)
EXTENDS LibDha, Sequences, SequencesExt

CONSTANTS
  Reserve,   \* descriptors the program leaves to the drivers
  MaxLive,   \* bound on the mappings or blocks of one kind a driver may keep
  Uses,      \* Uses[w]: the drivers a program on system w opens and tries
  Several,   \* systems on which it does so while it has another one open
  Clean      \* systems whose drivers all give back what they obtained

DriverNames == {"cyberblade", "ivtv", "mach64", "mga", "nvidia", "pm2", "pm3",
                "radeon", "radeonhd", "s3", "savage", "sis", "unichrome"}

ASSUME DriversAssumption   == Drivers \subseteq DriverNames
ASSUME BoundsAssumption    == MaxLive \in Nat /\ Reserve \in 0 .. Cardinality(Fds)
ASSUME UsesAssumption      == Uses \in [Worlds -> SUBSET Drivers]
ASSUME WorldsAssumption    == Several \subseteq Worlds /\ Clean \subseteq Worlds

\* The drivers that call bm_open, those that call bm_close, those that ask for the
\* ports, those that access them after vixInit, those that look at what map_phys_mem
\* returns, those that do not look at what malloc returns, and those that give back
\* what they obtain.
Openers  == {"mach64", "pm3", "radeon"}
Closers  == Openers \cup {"radeonhd"}
Enablers == {"cyberblade", "s3", "savage", "sis", "unichrome"}
Porters  == {"cyberblade", "sis", "unichrome"}
Checkers == {"mach64", "radeon", "radeonhd"}
Heapers  == {"ivtv", "nvidia", "s3", "savage"}
Tidy     == {"cyberblade", "mach64", "nvidia", "pm2", "pm3", "radeonhd", "sis", "unichrome"}

\* System w gives driver d what it takes for granted.
Serves(w, d) ==
  /\ FALSE \notin Works[w]["map"]
  /\ FALSE \notin Works[w]["helper"] \/ FALSE \notin Works[w]["devmem"]
  /\ d \in Heapers  => FALSE \notin Works[w]["alloc"]
  /\ d \in Enablers => FALSE \notin Works[w]["iopl"]
  /\ d = "s3"        => FALSE \notin Works[w]["memory"]

\* What the theorems take of the programs: the helper has the version that bm_open
\* asks for; as the library keeps one descriptor for bus mastering, a program with
\* several drivers open has one of these among them; where mappings may fail, the
\* drivers look; and the ports are shared only by drivers that give all back.
ASSUME VersionAssumption ==
  \A w \in Worlds : Uses[w] \cap Openers # {} => FALSE \notin Works[w]["version"]
ASSUME MasterAssumption  == \A w \in Several : \A d, e \in Uses[w] \cap Closers : d = e
ASSUME ServesAssumption  ==
  \A w \in Worlds : \A d \in Uses[w] :
    Serves(w, d) \/ (d \in Checkers /\ FALSE \in Works[w]["map"])
ASSUME BesideAssumption  == \A w \in Several : Uses[w] \cap Porters # {} => w \in Clean

\* What they take of the systems where nothing is left: the helper is there or not;
\* without it a program has one driver open, with it one driver that needs the ports
\* leaves a descriptor for scanning the bus; the counter of mappings does not wrap.
ASSUME CleanAssumption   ==
  \A w \in Clean :
    /\ Uses[w] \subseteq Tidy /\ 2 * Cardinality(Uses[w]) < Width
    /\ FALSE \notin Works[w]["map"] /\ Works[w]["helper"] # BOOLEAN
    /\ Uses[w] \cap Porters # {} =>
         \/ TRUE \notin Works[w]["helper"] /\ w \notin Several
         \/ /\ FALSE \notin Works[w]["helper"] /\ Uses[w] \cap Openers = {}
            /\ Reserve >= 3 /\ \A d, e \in Uses[w] \cap Porters : d = e

VARIABLES
  proc,      \* the process
  stage      \* stage[d]: closed, open (initialised), configured

vars == <<proc, stage>>

\* A process is well formed and a driver in one of three stages.
TypeOK ==
  /\ proc \in Processes
  /\ stage \in [Drivers -> {"closed", "open", "configured"}]

Init ==
  /\ \E w \in Worlds : proc = Start(w)
  /\ stage = [d \in Drivers |-> "closed"]

----------------------------------------------------------------------------
\* Scripts.  "...Or" ends the handler with an error when the call fails.

ProbeScript == <<<<"scan">>, <<"card">>>>
SisProbe    == <<<<"scan">>, <<"card">>, <<"probePorts">>>>
IvtvProbe   == <<<<"scan">>, <<"card">>, <<"openOr", "fb">>, <<"screenOr", "fb">>,
                 <<"openOr", "yuv">>>>

CyberbladeInit    == <<<<"map", "mem">>, <<"enable">>, <<"ports">>>>
\* Variant: the ports are given up before they are used.
CyberbladeDestroyEarly == <<<<"disable">>, <<"ports">>, <<"unmap", "mem">>>>

CyberbladeDestroy == <<<<"ports">>, <<"disable">>, <<"unmap", "mem">>>>
CyberbladeConfig  == <<<<"fits">>, <<"ports">>>>
CyberbladePlay    == <<<<"ports">>>>

IvtvInit    == <<<<"allocOr", "table">>>>
IvtvDestroy == <<<<"close", "yuv">>, <<"close", "fb">>, <<"free", "table">>,
                 <<"free", "block">>>>
IvtvConfig  == <<<<"alloc", "block">>>>
IvtvPlay    == <<<<"regs", "block">>>>

\* Variant: the mapping of video memory is not checked.
Mach64InitBlind == <<<<"mapOr", "ctl">>, <<"regs", "ctl">>, <<"map", "mem">>,
                     <<"regs", "ctl">>, <<"bmLists">>>>

Mach64Init    == <<<<"mapOr", "ctl">>, <<"regs", "ctl">>, <<"mapOr", "mem">>,
                   <<"regs", "ctl">>, <<"bmLists">>>>
Mach64Destroy == <<<<"regs", "ctl">>, <<"unmapSized", "mem">>, <<"unmap", "ctl">>,
                   <<"bmClose">>, <<"uninstallIf">>, <<"free", "table">>,
                   <<"free", "block">>>>
Mach64Config  == <<<<"regs", "ctl">>, <<"fits">>, <<"regs", "ctl">>>>
Mach64Play    == <<<<"regs", "ctl">>>>

MgaInit    == <<<<"map", "ctl">>, <<"map", "mem">>>>
MgaDestroy == <<<<"regs", "ctl">>, <<"unmapIf", "ctl", "all">>,
                <<"unmapIf", "mem", "part">>>>
MgaConfig  == <<<<"fits">>, <<"regs", "ctl">>>>
MgaPlay    == <<<<"regs", "ctl">>>>

NvidiaInit    == <<<<"alloc", "block">>, <<"regs", "block">>, <<"map", "ctl">>,
                   <<"regs", "ctl">>, <<"map", "mem">>, <<"regs", "ctl">>>>
NvidiaDestroy == <<<<"unmap", "ctl">>, <<"unmap", "mem">>, <<"free", "block">>>>
NvidiaConfig  == <<<<"fits">>>>
NvidiaPlay    == <<<<"regs", "ctl">>>>

Pm2Init    == <<<<"map", "ctl">>, <<"map", "mem">>>>
Pm2Destroy == <<<<"unmap", "ctl">>, <<"unmap", "mem">>>>
Pm2Config  == <<<<"fits">>, <<"regs", "ctl">>>>
Pm2Play    == <<<<"regs", "ctl">>>>

Pm3Init    == <<<<"map", "ctl">>, <<"map", "mem">>, <<"bmIrq">>, <<"regs", "ctl">>>>
Pm3Destroy == <<<<"regs", "ctl">>, <<"unmap", "ctl">>, <<"unmap", "mem">>,
                <<"uninstall">>, <<"bmClose">>>>
Pm3Config  == <<<<"regs", "ctl">>>>
Pm3Play    == <<<<"regs", "ctl">>>>

RadeonInit    == <<<<"mapOr", "ctl">>, <<"regs", "ctl">>, <<"mapOr", "mem">>,
                   <<"regs", "ctl">>, <<"bmTable">>, <<"regs", "ctl">>>>
RadeonDestroy == <<<<"regs", "ctl">>, <<"unmapSized", "mem">>, <<"unmap", "ctl">>,
                   <<"bmClose">>>>
RadeonConfig  == <<<<"regs", "ctl">>, <<"fits">>, <<"regs", "ctl">>>>
RadeonPlay    == <<<<"regs", "ctl">>>>

RadeonhdInit    == <<<<"mapOr", "ctl">>, <<"regs", "ctl">>, <<"mapOr", "mem">>,
                     <<"regs", "ctl">>>>
RadeonhdDestroy == <<<<"unmapSized", "mem">>, <<"unmap", "ctl">>, <<"bmClose">>>>
RadeonhdConfig  == <<<<"regs", "ctl">>, <<"fits">>, <<"regs", "ctl">>>>
RadeonhdPlay    == <<<<"regs", "ctl">>>>

\* s3 and savage map video memory when playback is configured, each time anew.
S3Init    == <<<<"enable">>, <<"alloc", "block">>, <<"regs", "block">>, <<"ports">>,
               <<"map", "ctl">>, <<"regs", "ctl">>, <<"memory">>, <<"regs", "ctl">>>>
S3Destroy == <<<<"unmap", "mem">>, <<"unmap", "ctl">>, <<"free", "block">>>>
S3Config  == <<<<"fits">>, <<"map", "mem">>>>
S3Play    == <<<<"regs", "ctl">>>>

SavageInit    == <<<<"alloc", "block">>, <<"regs", "block">>, <<"enable">>,
                   <<"map", "ctl">>, <<"regs", "ctl">>, <<"enable">>, <<"regs", "ctl">>>>
SavageDestroy == <<<<"unmap", "mem">>, <<"unmap", "ctl">>>>
SavageConfig  == <<<<"fits">>, <<"map", "mem">>>>
SavagePlay    == <<<<"regs", "ctl">>>>

SisInit    == <<<<"enableOr">>, <<"map", "mem">>, <<"ports">>>>
SisDestroy == <<<<"unmap", "mem">>, <<"disable">>>>
SisConfig  == <<<<"ports">>, <<"fits">>, <<"ports">>>>
SisPlay    == <<<<"ports">>>>

UnichromeInit    == <<<<"map", "mem">>, <<"enable">>, <<"ports">>, <<"map", "ctl">>,
                      <<"ports">>>>
UnichromeDestroy == <<<<"ports">>, <<"disable">>, <<"unmap", "mem">>, <<"unmap", "ctl">>>>
UnichromeConfig  == <<<<"fits">>, <<"ports">>, <<"regs", "ctl">>>>
UnichromePlay    == <<<<"regs", "ctl">>>>

----------------------------------------------------------------------------
\* Each driver's script for a handler.
ProbeOf(d) == CASE d = "sis"  -> SisProbe
                [] d = "ivtv" -> IvtvProbe
                [] OTHER      -> ProbeScript

InitOf == [cyberblade |-> CyberbladeInit, ivtv |-> IvtvInit, mach64 |-> Mach64Init,
  mga |-> MgaInit, nvidia |-> NvidiaInit, pm2 |-> Pm2Init, pm3 |-> Pm3Init,
  radeon |-> RadeonInit, radeonhd |-> RadeonhdInit, s3 |-> S3Init,
  savage |-> SavageInit, sis |-> SisInit, unichrome |-> UnichromeInit]

DestroyOf == [cyberblade |-> CyberbladeDestroy, ivtv |-> IvtvDestroy,
  mach64 |-> Mach64Destroy, mga |-> MgaDestroy, nvidia |-> NvidiaDestroy,
  pm2 |-> Pm2Destroy, pm3 |-> Pm3Destroy, radeon |-> RadeonDestroy,
  radeonhd |-> RadeonhdDestroy, s3 |-> S3Destroy, savage |-> SavageDestroy,
  sis |-> SisDestroy, unichrome |-> UnichromeDestroy]

ConfigOf == [cyberblade |-> CyberbladeConfig, ivtv |-> IvtvConfig,
  mach64 |-> Mach64Config, mga |-> MgaConfig, nvidia |-> NvidiaConfig,
  pm2 |-> Pm2Config, pm3 |-> Pm3Config, radeon |-> RadeonConfig,
  radeonhd |-> RadeonhdConfig, s3 |-> S3Config, savage |-> SavageConfig,
  sis |-> SisConfig, unichrome |-> UnichromeConfig]

PlayOf == [cyberblade |-> CyberbladePlay, ivtv |-> IvtvPlay, mach64 |-> Mach64Play,
  mga |-> MgaPlay, nvidia |-> NvidiaPlay, pm2 |-> Pm2Play, pm3 |-> Pm3Play,
  radeon |-> RadeonPlay, radeonhd |-> RadeonhdPlay, s3 |-> S3Play,
  savage |-> SavagePlay, sis |-> SisPlay, unichrome |-> UnichromePlay]

----------------------------------------------------------------------------
\* Steps that are more than one call.

\* sis, vixProbe: the chips of the 315 family are asked through the ports.
ProbePorts(p) ==
  {p} \cup Then(enable_app_io(p), LAMBDA q :
             IF q.ok THEN Then(ports(q), disable_app_io) ELSE {q})

\* The parts of vixInit that set up bus mastering: pm3, mach64 and radeon.
BmIrq(p, d) ==
  Then(bm_open(p), LAMBDA q :
    IF ~q.ok THEN {q}
    ELSE Then(hwirq_install(q, d), LAMBDA r :
           Then(regs(r, d, "ctl"), LAMBDA t : {[t EXCEPT !.dma[d] = TRUE]})))

BmTable(p, d) ==
  Then(bm_open(p), LAMBDA q :
    IF ~q.ok THEN {q} ELSE {[a EXCEPT !.dma[d] = a.ok] : a \in alloc(q, d, "table")})

\* The block stands for the 64 lists of descriptors.
BmLists(p, d) ==
  Then(BmTable(p, d), LAMBDA q :
    IF ~q.dma[d] THEN {q}
    ELSE {[a EXCEPT !.dma[d] = a.ok] : a \in alloc(q, d, "block")})

\* s3, vixInit: an unsupported amount of memory makes it call its vixDestroy.
Memory(p, d) ==
  Then(Try(p, "memory"), LAMBDA q :
    IF q.ok THEN {q} ELSE unmap_phys_mem(q, d, "mem", "sized"))

\* ivtv, vixProbe: the frame buffer that does not tell its size is closed.
Screen(p, d, f) ==
  {IF q.ok THEN q ELSE Fails(CloseFd(q, q.file[d][f])) : q \in Try(p, "screen")}

Calling(d, s, p) ==
  CASE s[1] = "scan"       -> pci_scan(p)
    [] s[1] = "card"       -> Try(p, "card")
    [] s[1] = "probePorts" -> ProbePorts(p)
    [] s[1] \in {"map", "mapOr"}       -> map_phys_mem(p, d, s[2])
    [] s[1] = "unmap"      -> unmap_phys_mem(p, d, s[2], "all")
    [] s[1] = "unmapSized" -> unmap_phys_mem(p, d, s[2], "sized")
    [] s[1] = "unmapIf"    -> IF p.ptr[d][s[2]] = "null" THEN {p}
                              ELSE unmap_phys_mem(p, d, s[2], s[3])
    [] s[1] = "regs"       -> regs(p, d, s[2])
    [] s[1] = "ports"      -> ports(p)
    [] s[1] \in {"enable", "enableOr"} -> enable_app_io(p)
    [] s[1] = "disable"    -> disable_app_io(p)
    [] s[1] \in {"alloc", "allocOr"}   -> alloc(p, d, s[2])
    [] s[1] = "free"       -> free(p, d, s[2])
    [] s[1] = "openOr"     -> device_open(p, d, s[2])
    [] s[1] = "screenOr"   -> Screen(p, d, s[2])
    [] s[1] = "close"      -> device_close(p, d, s[2])
    [] s[1] = "bmIrq"      -> BmIrq(p, d)
    [] s[1] = "bmTable"    -> BmTable(p, d)
    [] s[1] = "bmLists"    -> BmLists(p, d)
    [] s[1] = "bmClose"    -> bm_close(p)
    [] s[1] = "uninstall"  -> hwirq_uninstall(p, d)
    [] s[1] = "uninstallIf" -> IF p.irq[d] = "yes" THEN hwirq_uninstall(p, d) ELSE {p}
    [] s[1] = "memory"     -> Memory(p, d)
    [] s[1] = "fits"       -> Try(p, "fits")

Stops == {"scan", "card", "mapOr", "enableOr", "allocOr", "openOr", "screenOr", "fits"}

\* A handler: what it may leave and whether it returned 0.
Run(d, script, p) ==
  LET after[n \in 0 .. Len(script)] ==
        IF n = 0 THEN {[p |-> p, done |-> TRUE]}
        ELSE UNION {IF r.p.alive = "run" /\ r.done
                    THEN {[p |-> q, done |-> q.alive = "run"
                                      /\ (q.ok \/ script[n][1] \notin Stops)] :
                            q \in Calling(d, script[n], r.p)}
                    ELSE {r} : r \in after[n - 1]}
  IN  after[Len(script)]

----------------------------------------------------------------------------
Runs == proc.alive = "run"
Few(d) == \A t \in Things : proc.live[d][t] <= MaxLive
Used == {d \in Drivers : stage[d] # "closed"}

\* A driver the program may open or try now.
MayOpen(d) ==
  /\ Runs /\ d \in Uses[proc.world] /\ stage[d] = "closed"
  /\ proc.world \in Several \/ Used = {}

\* dlclose: the driver's statics are gone, and the library's with the last one.
Unload(d, p) ==
  LET q == [p EXCEPT !.ptr[d] = [t \in Things |-> "null"],
                     !.file[d] = [f \in Files |-> NoFd],
                     !.dma[d] = FALSE,
                     !.irq[d] = IF @ = "tried" THEN "no" ELSE @]
  IN IF Used \subseteq {d} THEN Loaded(q) ELSE q

\* vdlOpen of a named driver: a failing probe unloads it, a failing vixInit is
\* followed by vixDestroy.
OpenDriver(d) ==
  /\ MayOpen(d) /\ Few(d)
  /\ \E r \in Run(d, ProbeOf(d), proc) :
       IF ~r.done THEN proc' = Unload(d, r.p) /\ UNCHANGED stage
       ELSE \E i \in Run(d, InitOf[d], r.p) :
         IF i.done THEN proc' = i.p /\ stage' = [stage EXCEPT ![d] = "open"]
         ELSE /\ \E x \in Run(d, DestroyOf[d], i.p) : proc' = Unload(d, x.p)
              /\ UNCHANGED stage

\* The search of vdlOpen asks a driver and does not take it.
Search(d) ==
  /\ MayOpen(d)
  /\ \E r \in Run(d, ProbeOf(d), proc) : proc' = Unload(d, r.p)
  /\ UNCHANGED stage

Config(d) ==
  /\ Runs /\ stage[d] # "closed"
  /\ Few(d)
  /\ \E r \in Run(d, ConfigOf[d], proc) :
       /\ proc' = r.p
       /\ stage' = [stage EXCEPT ![d] = IF r.done THEN "configured" ELSE @]

\* vixPlaybackOn, vixPlaybackOff and vixPlaybackFrameSelect.
Play(d) ==
  /\ Runs /\ stage[d] = "configured"
  /\ \E r \in Run(d, PlayOf[d], proc) : proc' = r.p
  /\ UNCHANGED stage

\* mach64, vixPlaybackCopyFrame with BM_DMA_SYNC: the interrupt is installed
\* once.
CopyFrame(d) ==
  /\ Runs /\ d = "mach64" /\ stage[d] = "configured"
  /\ proc.dma[d] /\ proc.irq[d] = "no"
  /\ \E q \in hwirq_install(proc, d) : proc' = q
  /\ UNCHANGED stage

\* vdlClose
CloseDriver(d) ==
  /\ Runs /\ stage[d] # "closed"
  /\ \E r \in Run(d, DestroyOf[d], proc) : proc' = Unload(d, r.p)
  /\ stage' = [stage EXCEPT ![d] = "closed"]

\* The program's own files.
AppOpen ==
  /\ Runs /\ FreeFds(proc) # {}
  /\ Cardinality({f \in Fds : proc.owner[f] = "app"}) < Cardinality(Fds) - Reserve
  /\ proc' = [proc EXCEPT !.owner[Min(FreeFds(proc))] = "app"]
  /\ UNCHANGED stage

AppClose(f) ==
  /\ Runs /\ proc.owner[f] = "app"
  /\ proc' = CloseFd(proc, f)
  /\ UNCHANGED stage

\* A program that has ended.
Stopped == ~Runs /\ UNCHANGED vars

Next ==
  \/ \E d \in Drivers : OpenDriver(d) \/ Search(d) \/ Config(d) \/ Play(d)
                          \/ CopyFrame(d) \/ CloseDriver(d)
  \/ AppOpen
  \/ \E f \in Fds : AppClose(f)
  \/ Stopped

Spec == Init /\ [][Next]_vars

----------------------------------------------------------------------------
\* Properties.

\* The drivers that access ports after vixInit.
UsesPorts(d) ==
  \E s \in Range(DestroyOf[d]) \cup Range(ConfigOf[d]) \cup Range(PlayOf[d]) :
    s[1] = "ports"

\* With the last driver gone nothing of what they obtained is left: mappings,
\* heap blocks, descriptors, port privilege, an installed interrupt.  The
\* descriptor of irq.c alone stays open, as its counter only counts up.
NothingLeft ==
  Runs /\ Used = {} /\ proc.world \in Clean =>
    /\ \A f \in Fds : proc.owner[f] \in {"none", "app", "irq"}
    /\ \A d \in Drivers : proc.irq[d] = "no" /\ \A t \in Things : proc.live[d][t] = 0
    /\ ~proc.iopl

\* An open driver has what it works with, whatever other drivers are opened, tried
\* and closed meanwhile: the ports, if it needs them, though enable_app_io and
\* disable_app_io share one descriptor, one counter and one privilege level; a
\* descriptor of the helper, if it was opened for bus mastering; and, once vixInit
\* or vixConfigPlayback returned 0, what the driver maps there, its registers and
\* its video memory.
ResourcesHeld ==
  Runs => \A d \in Used :
    /\ UsesPorts(d) => PortAccess(proc)
    /\ proc.dma[d] => Helper(proc, proc.bmFd)
    /\ \A r \in Regions : proc.ptr[d][r] # "failed"

\* Where mappings do not fail, a handler that cannot go on tells its caller: it
\* does not end the program, except through libdha when no descriptor is left.
AppSurvives ==
  \/ Runs \/ FALSE \in Works[proc.world]["map"]
  \/ proc.alive = "exit" /\ FreeFds(proc) = {}

\* The program survives its drivers, and they and the library close only
\* descriptors they opened.
AppUnharmed ==
  /\ []AppSurvives
  /\ [][\A f \in Fds : proc.owner[f] = "app" /\ proc'.owner[f] # "app" => AppClose(f)]_vars
=============================================================================
