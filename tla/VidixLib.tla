------------------------------ MODULE VidixLib ------------------------------
(***************************************************************************)
(* The driver loader of vidix/vidixlib.c in its default build (drivers are *)
(* shared objects): vdlOpen with a driver's name, vdlOpen with a search    *)
(* through the directory of drivers, and vdlClose.  A driver keeps its     *)
(* state in static variables, which live from the first dlopen of the file *)
(* to the last dlclose, whatever number of streams use it.  Which driver   *)
(* will do is decided by the cards of the machine (Probing).               *)
(***************************************************************************)
EXTENDS Probing

CONSTANTS
  Streams,      \* vdl_stream_t objects the program may allocate
  Drivers,      \* files in the directory of drivers
  Kind,         \* Kind[d]: which of the drivers of vidix/drivers/ a file is
  Machines,     \* machines: cards, whether a scan succeeds, devices
  Loads,        \* Loads[d]: the file is a shared object
  NoDriver,     \* a null handle
  Caps,         \* capability bits (TYPE_*)
  Version,      \* Version[d]: vixGetVersion answers VIDIX_VERSION
  Viable,       \* Viable[d]: exports all of the essential functions
  HasInit,      \* HasInit[d], HasDestroy[d]: exports the optional function
  HasDestroy,
  Sharing       \* the program opens a driver that another stream uses

ASSUME NoDriverAssumption == NoDriver \notin Drivers
ASSUME DriverAssumption ==
  /\ {Loads, Version, Viable, HasInit, HasDestroy} \subseteq [Drivers -> BOOLEAN]
  /\ Kind \in [Drivers -> AllKinds]
  /\ \A d \in Drivers : Types(Kind[d]) \subseteq Caps
ASSUME MachinesAssumption == \A m \in Machines : m.cards \in Seq([vendor : STRING, chip : STRING, io : BOOLEAN])
ASSUME SharingAssumption == Sharing \in BOOLEAN

VARIABLES
  stream,       \* stream[s]: where it is, its handle, its function pointers
  todo,         \* directory entries the search of a stream did not see yet
  holders,      \* holders[d]: streams whose dlopen of d is not closed
  driver,       \* driver[d]: the static state of the driver
  card,         \* card[d]: its pci_info, the number of a card or 0
  kept,         \* kept[d]: what it keeps of the chip
  machine       \* where the program runs

vars == <<stream, todo, holders, driver, card, kept, machine>>

\* at: how far vdlOpen or vdlClose is; cap: required capabilities; byName: the
\* program named the driver; filled: vdl_fill_driver stored the pointers.
StreamRecs ==
  [at : {"none", "load", "find", "probe", "caps", "fill", "init", "open",
         "destroy", "unload"},
   handle : Drivers \cup {NoDriver}, cap : SUBSET Caps,
   byName : BOOLEAN, filled : BOOLEAN]

DriverStates == {"absent", "loaded", "probed", "ready", "destroyed"}

\* A stream past dlopen has a handle.
TypeOK ==
  /\ stream \in [Streams -> StreamRecs]
  /\ \A s \in Streams :
       stream[s].at \in {"probe", "caps", "fill", "init", "open"} =>
         stream[s].handle # NoDriver
  /\ todo \in [Streams -> SUBSET Drivers]
  /\ holders \in [Drivers -> SUBSET Streams]
  /\ driver \in [Drivers -> DriverStates]
  /\ machine \in Machines
  /\ card \in [Drivers -> 0..Len(machine.cards)]

NoStream == [at |-> "none", handle |-> NoDriver, cap |-> {}, byName |-> FALSE,
             filled |-> FALSE]

Init ==
  /\ stream = [s \in Streams |-> NoStream]
  /\ todo = [s \in Streams |-> {}]
  /\ holders = [d \in Drivers |-> {}]
  /\ driver = [d \in Drivers |-> "absent"]
  /\ card = [d \in Drivers |-> 0]
  /\ kept = [d \in Drivers |-> Blank]
  /\ machine \in Machines

----------------------------------------------------------------------------
Handle(s)   == stream[s].handle
Set(s, rec) == stream' = [stream EXCEPT ![s] = rec]
GoTo(s, at) == Set(s, [stream[s] EXCEPT !.at = at])
State(d, st) == driver' = [driver EXCEPT ![d] = st]

\* The library is not reentrant: one call runs at a time.
Idle == \A s \in Streams : stream[s].at \in {"none", "open"}

\* dlopen and dlclose: the static state is new after the first and lost with
\* the last.
DlOpen(s, d) ==
  /\ holders' = [holders EXCEPT ![d] = @ \cup {s}]
  /\ driver' = [driver EXCEPT
       ![d] = IF holders[d] = {} THEN "loaded" ELSE @]
  /\ UNCHANGED <<card, kept>>

DlClose(s, d) ==
  /\ holders' = [holders EXCEPT ![d] = @ \ {s}]
  /\ driver' = [driver EXCEPT ![d] = IF holders[d] \subseteq {s} THEN "absent" ELSE @]
  /\ card' = [card EXCEPT ![d] = IF holders[d] \subseteq {s} THEN 0 ELSE @]
  /\ kept' = [kept EXCEPT ![d] = IF holders[d] \subseteq {s} THEN Blank ELSE @]

----------------------------------------------------------------------------
\* vdlOpen with a name, up to dlopen; a missing file fails before it has any
\* effect.
OpenByName(s, d, cap) ==
  /\ Idle /\ stream[s].at = "none" /\ Loads[d]
  /\ Sharing \/ holders[d] = {}
  /\ Set(s, [NoStream EXCEPT !.at = "probe", !.handle = d, !.cap = cap,
                             !.byName = TRUE])
  /\ DlOpen(s, d)
  /\ UNCHANGED todo

\* vdlOpen without a name: vdl_find_driver.
OpenBySearch(s, cap) ==
  /\ Idle /\ stream[s].at = "none"
  /\ Sharing \/ \A d \in Drivers : holders[d] = {}
  /\ Set(s, [NoStream EXCEPT !.at = "find", !.cap = cap])
  /\ todo' = [todo EXCEPT ![s] = Drivers]
  /\ UNCHANGED <<holders, driver, card, kept>>

\* Variant: a file that is no shared object ends the search.
FindNextStops(s, d) ==
  /\ stream[s].at = "find" /\ d \in todo[s]
  /\ todo' = [todo EXCEPT ![s] = IF Loads[d] THEN @ \ {d} ELSE {}]
  /\ IF Loads[d]
     THEN Set(s, [stream[s] EXCEPT !.at = "probe", !.handle = d]) /\ DlOpen(s, d)
     ELSE UNCHANGED <<stream, holders, driver, card, kept>>

\* The next directory entry is loaded for a probe, unless it is no shared object.
FindNext(s, d) ==
  /\ stream[s].at = "find" /\ d \in todo[s]
  /\ todo' = [todo EXCEPT ![s] = @ \ {d}]
  /\ IF Loads[d]
     THEN Set(s, [stream[s] EXCEPT !.at = "probe", !.handle = d]) /\ DlOpen(s, d)
     ELSE UNCHANGED <<stream, holders, driver, card, kept>>

FindNone(s) ==
  /\ stream[s].at = "find" /\ todo[s] = {}
  /\ GoTo(s, "destroy")
  /\ UNCHANGED <<todo, holders, driver, card, kept>>

\* Variant: the error path forgets the handle without closing it.
RejectLeaks(s) ==
  IF stream[s].byName
  THEN GoTo(s, "destroy") /\ UNCHANGED <<holders, driver, card, kept>>
  ELSE Set(s, [stream[s] EXCEPT !.at = "find", !.handle = NoDriver])
         /\ UNCHANGED <<holders, driver, card, kept>>

\* A driver that will not do: vdlOpen gives up when it was named, the search
\* unloads it and goes on.
Reject(s) ==
  IF stream[s].byName
  THEN GoTo(s, "destroy") /\ UNCHANGED <<holders, driver, card, kept>>
  ELSE /\ Set(s, [stream[s] EXCEPT !.at = "find", !.handle = NoDriver])
       /\ DlClose(s, Handle(s))

\* The card the driver of a stream settles on; a driver that was named is forced.
Found(s) == Probe(Kind[Handle(s)], machine, stream[s].byName)

\* vixGetVersion and vixProbe, which changes pci_info only when it finds a card.
ProbeFails(s) ==
  /\ stream[s].at = "probe"
  /\ Version[Handle(s)] => Found(s) = 0
  /\ Reject(s)
  /\ UNCHANGED todo

\* A named driver goes on to vdl_fill_driver, the search asks for the capabilities
\* first.
ProbeOk(s) ==
  /\ stream[s].at = "probe"
  /\ Version[Handle(s)] /\ Found(s) # 0
  /\ GoTo(s, IF stream[s].byName THEN "fill" ELSE "caps")
  /\ State(Handle(s), IF driver[Handle(s)] = "loaded" THEN "probed"
                      ELSE driver[Handle(s)])
  /\ card' = [card EXCEPT ![Handle(s)] = Found(s)]
  /\ kept' = [kept EXCEPT ![Handle(s)] =
                 AfterProbe(Kind[Handle(s)], machine, stream[s].byName)]
  /\ UNCHANGED <<todo, holders>>

\* vixGetCapability and the comparison with the required bits.
CapsOk(s) ==
  /\ stream[s].at = "caps"
  /\ stream[s].cap \subseteq Types(Kind[Handle(s)])
  /\ GoTo(s, "fill")
  /\ UNCHANGED <<todo, holders, driver, card, kept>>

CapsFail(s) ==
  /\ stream[s].at = "caps"
  /\ ~(stream[s].cap \subseteq Types(Kind[Handle(s)]))
  /\ Reject(s)
  /\ UNCHANGED todo

\* vdl_fill_driver stores the pointers, vixDestroy's too, before it looks
\* whether the essential ones are there.
Fill(s) ==
  /\ stream[s].at = "fill"
  /\ Set(s, [stream[s] EXCEPT !.filled = TRUE,
               !.at = IF Viable[Handle(s)] THEN "init" ELSE "destroy"])
  /\ UNCHANGED <<todo, holders, driver, card, kept>>

\* Variant: the result of vixInit is not looked at.
InitFailsUnseen(s) ==
  /\ stream[s].at = "init" /\ HasInit[Handle(s)]
  /\ GoTo(s, "open")
  /\ UNCHANGED <<todo, holders, driver, card, kept>>

\* vixInit, when the driver has one.
InitFails(s) ==
  /\ stream[s].at = "init" /\ HasInit[Handle(s)]
  /\ GoTo(s, "destroy")
  /\ UNCHANGED <<todo, holders, driver, card, kept>>

InitOk(s) ==
  /\ stream[s].at = "init"
  /\ GoTo(s, "open")
  /\ State(Handle(s), "ready")
  /\ UNCHANGED <<todo, holders, card, kept>>

----------------------------------------------------------------------------
\* vdlClose, called by the program, and by vdlOpen when it gives up.
Close(s) ==
  /\ Idle /\ stream[s].at = "open"
  /\ GoTo(s, "destroy")
  /\ UNCHANGED <<todo, holders, driver, card, kept>>

\* Variant: the driver is unloaded without being asked.
DestroySkipped(s) ==
  /\ stream[s].at = "destroy"
  /\ GoTo(s, "unload")
  /\ UNCHANGED <<todo, holders, driver, card, kept>>

Destroy(s) ==
  /\ stream[s].at = "destroy"
  /\ GoTo(s, "unload")
  /\ IF stream[s].filled /\ HasDestroy[Handle(s)]
     THEN State(Handle(s), "destroyed")
     ELSE UNCHANGED driver
  /\ UNCHANGED <<todo, holders, card, kept>>

Unload(s) ==
  /\ stream[s].at = "unload"
  /\ Set(s, NoStream)
  /\ todo' = [todo EXCEPT ![s] = {}]
  /\ IF Handle(s) = NoDriver THEN UNCHANGED <<holders, driver, card, kept>>
                             ELSE DlClose(s, Handle(s))

Next ==
  /\ UNCHANGED machine
  /\ \E s \in Streams :
       \/ \E d \in Drivers, cap \in SUBSET Caps : OpenByName(s, d, cap)
       \/ \E cap \in SUBSET Caps : OpenBySearch(s, cap)
       \/ \E d \in Drivers : FindNext(s, d)
       \/ FindNone(s) \/ ProbeFails(s) \/ ProbeOk(s) \/ CapsOk(s) \/ CapsFail(s)
       \/ Fill(s) \/ InitFails(s) \/ InitOk(s) \/ Close(s) \/ Destroy(s) \/ Unload(s)

Spec == Init /\ [][Next]_vars

----------------------------------------------------------------------------
\* Properties.

\* Exactly the streams with a handle keep a driver loaded: no path out of
\* vdlOpen, of the search or of vdlClose loses a reference or drops one twice.
HandlesCounted ==
  \A s \in Streams, d \in Drivers : s \in holders[d] <=> Handle(s) = d

\* Every open stream has a driver that is initialised and was not destroyed
\* since, what vidixlib.c calls multistreaming, and that has all of the required
\* capabilities when the search found it.
OpenStreamReady ==
  \A s \in Streams : stream[s].at = "open" =>
    /\ driver[Handle(s)] = "ready"
    /\ stream[s].byName \/ stream[s].cap \subseteq Types(Kind[Handle(s)])

\* A file of the directory that a search could take.
Suits(d, cap) ==
  /\ Loads[d] /\ Version[d] /\ cap \subseteq Types(Kind[d])
  /\ Probe(Kind[d], machine, FALSE) # 0

\* The card a stream drives.
CardOf(s) == machine.cards[card[Handle(s)]]

\* Formats that vixQueryFourcc allows and vixConfigPlayback refuses: the Matrox driver
\* offers NV12 on a G200 and knows no such layout.
Empty(s) == Kind[Handle(s)] = "mga" /\ CardOf(s).chip \in G200Chips

\* A search that comes to its end has passed no file that would have done: neither a
\* rejected driver nor a file that is no shared object ends it early.
NothingPassedOver ==
  \A s \in Streams : stream[s].at = "find" /\ todo[s] = {} =>
    \A d \in Drivers : ~Suits(d, stream[s].cap)

\* A driver and its card belong together.  The driver of an open stream drives a card it
\* knows, or another one of its vendor when it was forced, an enabled one if it minds;
\* what it keeps of the chip is of that card; and it can configure the formats it offers.
DriverFitsCard ==
  \A s \in Streams : stream[s].at = "open" =>
    LET k == Kind[Handle(s)]
    IN  /\ card[Handle(s)] # 0
        /\ Knows(k, CardOf(s)) \/ (stream[s].byName /\ CardOf(s).vendor \in Vendors(k))
        /\ k = "s3" => CardOf(s).io
        /\ kept[Handle(s)] = Remember(k, Blank, CardOf(s).chip, machine.cr)
        /\ ~Empty(s) => Offers(k, CardOf(s).chip, TRUE) \subseteq Configures(k)

\* A driver that was initialised is asked to clean up before it is unloaded.
DestroyBeforeUnload ==
  [][\A d \in Drivers : driver[d] = "ready" /\ driver'[d] = "absent"
       => ~HasDestroy[d]]_vars
=============================================================================
