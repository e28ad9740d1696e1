------------------------------- MODULE PciScan -------------------------------
(***************************************************************************)
(* pci_scan: how a program learns which cards a machine has.  With the     *)
(* helper it asks the kernel for one function of a card after the other,   *)
(* and the kernel keeps one cursor for everybody.  Without it the program  *)
(* walks the buses itself, through the register pair 0xCF8/0xCFC of        *)
(* configuration mechanism 1, which everybody shares as well; on x86_64,   *)
(* through the files of /proc/bus/pci.                                     *)
(***************************************************************************)
EXTENDS Integers, Sequences, FiniteSets, SequencesExt

CONSTANTS
  Procs,       \* programs that scan
  Via,         \* Via[p]: "helper", "ports" or "proc"
  Machines,    \* machines to scan, from which one is chosen
  Slots,       \* slots of a bus, 32
  Functions,   \* functions of a card, 8
  MaxDevices,  \* MAX_PCI_DEVICES, 64
  MaxBuses,    \* entries of _pcibuses, 16
  Kills,       \* programs that may be killed while they scan
  KernelPorts  \* the kernel uses the register pair too

Places == Nat \X (0 .. Slots - 1) \X (0 .. Functions - 1)   \* bus, card, function
Kinds  == {"device", "bridge", "host"}

\* A machine: the configuration space of each function it has.  Base registers
\* hold an address, in multiples of 4 (ports, bit 0 set) or of 16 (memory,
\* bits 1 to 3 are flags).
IsMachine(m) ==
  /\ DOMAIN m \subseteq Places /\ IsFiniteSet(DOMAIN m)
  /\ \A a \in DOMAIN m :
       m[a] \in [kind : Kinds, secondary : Nat, multi : BOOLEAN, io : BOOLEAN,
                 base : [0 .. 5 -> Nat]]

ASSUME SizesAssumption    == {Slots, Functions, MaxDevices, MaxBuses} \subseteq Nat \ {0}
ASSUME ViaAssumption      == Via \in [Procs -> {"helper", "ports", "proc"}]
ASSUME MachinesAssumption == \A m \in Machines : IsMachine(m)
ASSUME KillsAssumption    == Kills \subseteq Procs /\ KernelPorts \in BOOLEAN

None == <<>>

VARIABLES
  machine,     \* the machine
  cursor,      \* the kernel's pdev: a function, or None
  address,     \* what the register 0xCF8 selects
  scan         \* what each program has got so far

vars == <<machine, cursor, address, scan>>

Present == DOMAIN machine

\* Reading where nothing is gives ones; a register has eight bits here.
Ones == [kind |-> "device", secondary |-> 255, multi |-> TRUE, io |-> TRUE,
         base |-> [i \in 0 .. 5 |-> 255]]
Read(a) == IF a \in Present THEN machine[a] ELSE Ones

\* at: the place an entry is filed under; id, rest: where its vendor and its
\* other registers were read.
Idle == [pc |-> "idle", buses |-> <<0>>, bus |-> 1, card |-> 0, func |-> 0,
         hosts |-> 0, id |-> None, list |-> <<>>]

\* A scan is at a place of its table of buses, and names functions.
TypeOK ==
  /\ IsMachine(machine)
  /\ cursor \in Present \cup {None}
  /\ address \in Places \cup {None}
  /\ \A p \in Procs :
       /\ DOMAIN scan[p] = DOMAIN Idle
       /\ scan[p].pc \in {"idle", "find", "vendor", "vendorData", "rest",
                          "restData", "done", "overrun"}
       /\ scan[p].bus \in 1 .. Len(scan[p].buses) /\ Len(scan[p].buses) <= MaxBuses
       /\ scan[p].card \in 0 .. Slots - 1 /\ scan[p].func \in 0 .. Functions - 1
       /\ \A e \in Range(scan[p].list) : {e.at, e.id, e.rest} \subseteq Places

Init ==
  /\ machine \in Machines
  /\ cursor = None /\ address = None
  /\ scan = [p \in Procs |-> Idle]

----------------------------------------------------------------------------
\* What an entry says.

\* identify_card takes the type of base3 to base5 from base0 to base2.  high:
\* the registers that came with something in their upper half; the mask takes it
\* away, the test for zero does not.
BaseOf(b, i, high) ==
  IF b[i] = 0 /\ i \notin high THEN -1
  ELSE b[i] - (b[i] % (IF b[i % 3] % 2 = 1 THEN 4 ELSE 16))

\* pci_resource_start
ResourceOf(b, i) ==
  IF b[i] = 0 THEN -1 ELSE b[i] - (b[i] % (IF b[i] % 2 = 1 THEN 4 ELSE 16))

----------------------------------------------------------------------------
\* With the helper.

\* pci_find_device: the functions in the order of their places.
Before(a, b) ==
  \E k \in 1 .. 3 : a[k] < b[k] /\ \A j \in 1 .. k - 1 : a[j] = b[j]
After(c) == {a \in Present : c = None \/ Before(c, a)}
First(S) == CHOOSE a \in S : \A b \in S \ {a} : Before(a, b)

\* The command register is not among what the kernel tells, and stays what the
\* caller's array held: such an entry has no io.
Told(a) ==
  [at |-> a, id |-> a, rest |-> a,
   base |-> [i \in 0 .. 5 |-> ResourceOf(machine[a].base, i)]]

\* Variant: the cursor is not reset at the end.
FindStuck(p) ==
  /\ scan[p].pc = "find"
  /\ LET rest == After(cursor) IN
     IF rest = {} THEN cursor' = cursor /\ scan' = [scan EXCEPT ![p].pc = "done"]
     ELSE /\ cursor' = First(rest)
          /\ scan' = [scan EXCEPT ![p].list = Append(@, Told(First(rest)))]
  /\ UNCHANGED <<machine, address>>

\* DHAHELPER_PCI_FIND.  The kernel knows its functions, but reads a few registers.
Find(p) ==
  /\ scan[p].pc = "find"
  /\ LET rest == After(cursor) IN
     IF rest = {}
     THEN cursor' = None /\ scan' = [scan EXCEPT ![p].pc = "done"] /\ UNCHANGED address
     ELSE /\ cursor' = First(rest)
          /\ scan' = [scan EXCEPT ![p].list = Append(@, Told(First(rest)))]
          /\ address' = IF KernelPorts THEN First(rest) ELSE address
  /\ UNCHANGED machine

----------------------------------------------------------------------------
\* Without the helper.

Here(s) == <<s.buses[s.bus], s.card, s.func>>

NextBus(s) ==
  IF s.bus < Len(s.buses)
  THEN [s EXCEPT !.pc = "vendor", !.bus = @ + 1, !.card = 0, !.func = 0]
  ELSE [s EXCEPT !.pc = "done"]

NextCard(s) ==
  IF s.card + 1 < Slots
  THEN [s EXCEPT !.pc = "vendor", !.card = @ + 1, !.func = 0]
  ELSE NextBus(s)

\* Variant: the functions of a card are not counted.
NextFunctionSame(s, d) ==
  IF s.func # 0 \/ d.multi THEN [s EXCEPT !.pc = "vendor"] ELSE NextCard(s)

NextFunction(s, d) ==
  IF (s.func # 0 \/ d.multi) /\ s.func + 1 < Functions
  THEN [s EXCEPT !.pc = "vendor", !.func = @ + 1]
  ELSE NextCard(s)

\* A bridge that has numbered the bus behind it.
Leads(d) == d.kind = "bridge" /\ d.secondary > 0

\* A bridge adds the bus behind it.  Of the host bridges the first is bus 0;
\* another is taken for a bus of the next number.
Enter(s, d) ==
  CASE Leads(d) -> [s EXCEPT !.buses = Append(@, d.secondary)]
    [] d.kind = "host" ->
         [s EXCEPT !.hosts = @ + 1,
                   !.buses = IF s.hosts > 0 THEN Append(@, Len(@)) ELSE @]
    [] OTHER -> s

\* It does so without asking whether the table has room.  Behind the table lie
\* the type of the bus, the port and the very _cardnum the scan counts with.
Overruns(s, d) ==
  Len(s.buses) >= MaxBuses /\ (Leads(d) \/ (d.kind = "host" /\ s.hosts > 0))

\* identify_card
Identify(s, d, from, high) ==
  IF Len(s.list) >= MaxDevices THEN s
  ELSE [s EXCEPT !.list = Append(@,
         [at |-> Here(s), id |-> s.id, rest |-> from, io |-> d.io,
          base |-> [i \in 0 .. 5 |-> BaseOf(d.base, i, high)]])]

\* The first half of an access through the ports.
Select(p) ==
  /\ Via[p] = "ports" /\ scan[p].pc \in {"vendor", "rest"}
  /\ address' = Here(scan[p])
  /\ scan' = [scan EXCEPT ![p].pc = IF @ = "vendor" THEN "vendorData" ELSE "restData"]
  /\ UNCHANGED <<machine, cursor>>

\* Where an access reads: the place that is selected, or the file, which is
\* always that of function 0.
Reads(p) ==
  IF Via[p] = "ports" THEN address ELSE [Here(scan[p]) EXCEPT ![3] = 0]

\* pci_get_vendor: where nothing is, the card has no more functions.
ReadVendor(p) ==
  /\ scan[p].pc = IF Via[p] = "ports" THEN "vendorData" ELSE "vendor"
  /\ scan' = [scan EXCEPT ![p] =
       IF Reads(p) \in Present THEN [@ EXCEPT !.pc = "rest", !.id = Reads(p)]
       ELSE NextCard(@)]
  /\ UNCHANGED <<machine, cursor, address>>

\* The other registers; one access stands for that of each.  From a file four bytes
\* are read into a long of eight that nothing was assigned to.  A scan that has
\* written past its table is not followed further.
ReadRest(p) ==
  /\ scan[p].pc = IF Via[p] = "ports" THEN "restData" ELSE "rest"
  /\ \E high \in IF Via[p] = "proc" THEN SUBSET (0 .. 5) ELSE {{}} :
       LET d == Read(Reads(p)) IN
       scan' = [scan EXCEPT ![p] =
         IF Overruns(@, d) THEN [@ EXCEPT !.pc = "overrun"]
         ELSE NextFunction(Enter(Identify(@, d, Reads(p), high), d), d)]
  /\ UNCHANGED <<machine, cursor, address>>

----------------------------------------------------------------------------
Start(p) ==
  /\ scan[p].pc \in {"idle", "done"}
  /\ scan' = [scan EXCEPT ![p] =
       [Idle EXCEPT !.pc = IF Via[p] = "helper" THEN "find" ELSE "vendor"]]
  /\ UNCHANGED <<machine, cursor, address>>

\* A program is killed; what the kernel and the bus remember stays.
Kill(p) ==
  /\ p \in Kills /\ scan[p].pc # "idle"
  /\ scan' = [scan EXCEPT ![p] = Idle]
  /\ UNCHANGED <<machine, cursor, address>>

Step(p) == Find(p) \/ Select(p) \/ ReadVendor(p) \/ ReadRest(p)
Next    == \E p \in Procs : Start(p) \/ Kill(p) \/ Step(p)

\* A scan that was started goes on: nothing in it waits for anybody.
Spec == Init /\ [][Next]_vars /\ \A p \in Procs : WF_vars(Step(p))

----------------------------------------------------------------------------
\* Properties.

Done(p)    == scan[p].pc = "done"
Entries(p) == Range(scan[p].list)
Least(a, b) == IF a < b THEN a ELSE b

\* The buses of the machine: the first one and those that bridges lead to.
Buses ==
  {0} \cup {machine[a].secondary : a \in {b \in Present : Leads(machine[b])}}

\* A scan that has ended lists every function of the machine once, through the
\* ports as many as the list has room for; what the kernel tells is stored
\* without a limit.  A scan writes past its table only where there are more buses
\* than it holds: before that it finds room for each.
Complete ==
  \A p \in Procs :
    /\ Done(p) =>
         LET all == Cardinality(Present) IN
         /\ {e.at : e \in Entries(p)} \subseteq Present
         /\ Cardinality({e.at : e \in Entries(p)}) = Len(scan[p].list)
         /\ Len(scan[p].list) = IF Via[p] = "helper" THEN all ELSE Least(MaxDevices, all)
    /\ scan[p].pc = "overrun" => Cardinality(Buses) > MaxBuses

\* What an entry says of a function was read from that function: its identity,
\* its other registers, the addresses its base registers hold and, where the
\* program reads it itself, whether it answers to ports.
EntryFaithful ==
  \A p \in Procs : \A e \in Entries(p) :
    /\ e.id = e.at /\ e.rest = e.at
    /\ \A i \in 0 .. 5 : e.base[i] = ResourceOf(machine[e.at].base, i)
    /\ Via[p] = "ports" => e.io = machine[e.at].io

\* On the machines of the run a scan ends, is killed or has left its table.
Over(p) == scan[p].pc \in {"idle", "done", "overrun"}
Ends    == \A p \in Procs : ~Over(p) ~> Over(p)
=============================================================================
