---------------------------- MODULE PciScanProofs ----------------------------
(***************************************************************************)
(* Theorems about PciConfig, for any machines, programs, registers and     *)
(* kills, if one program uses the register pair: what a program knows of a *)
(* function, and what it does to it, is of that function; and a scan that  *)
(* has ended lists every function once. A scan is followed until it writes *)
(* past its table of buses, which the second theorem says happens only on  *)
(* machines of more buses than that holds. The invariant of the first says *)
(* for each half of an access that the address is still the one that was   *)
(* selected, that of the second that a list has the functions before the   *)
(* place where the scan is.                                                *)
(***************************************************************************)
EXTENDS PciConfig, FiniteSetTheorems, WellFoundedInduction, TLAPS

\* No other program and no kernel uses the register pair beside a program that does,
\* which is of i386, and base registers 3 to 5 are of the type of 0 to 2.
Undisturbed ==
  /\ ~KernelPorts
  /\ \A p \in Procs : Via[p] # "proc"
  /\ \A p, q \in Procs : Via[p] = "ports" /\ Via[q] = "ports" => p = q

SameTypes ==
  \A m \in Machines : \A a \in DOMAIN m : \A i \in 0 .. 5 :
    m[a].base[i] # 0 => m[a].base[i % 3] % 2 = m[a].base[i] % 2

-----------------------------------------------------------------------------
(***************************************************************************)
(* The invariant.                                                          *)
(***************************************************************************)

\* What a program may have been told of a function, and what it may have read itself.
Own(a) == [at |-> a, id |-> a, rest |-> a, io |-> machine[a].io,
           base |-> [i \in 0 .. 5 |-> BaseOf(machine[a].base, i, {})]]

EntrySet(p) ==
  IF Via[p] = "ports" THEN {Own(a) : a \in Present} ELSE {Told(a) : a \in Present}

Walking == {"vendor", "vendorData", "rest", "restData"}

ScanRecs(p) ==
  [pc : Walking \cup {"idle", "find", "done", "overrun"}, buses : Seq(Nat), bus : Nat, card : Nat,
   func : Nat, hosts : Nat, id : Present \cup {None}, list : Seq(EntrySet(p))]

AccessRecs ==
  [pc : {"none", "select", "data", "ioctl", "answered"}, op : {"read", "write"},
   at : Present \cup {None}, value : Values \cup {0, 255}, ok : BOOLEAN,
   expect : Values \cup {0}, left : 0 .. MaxAccesses]

ScanTyped == machine \in Machines /\ DOMAIN scan = Procs /\ \A p \in Procs : scan[p] \in ScanRecs(p)

AccessTyped == access \in [Procs -> AccessRecs] /\ space \in [Present -> Values]

\* Who walks the buses does so with the ports, selects what it reads, and has found the
\* function of which it reads the other registers.
WalkInv ==
  \A p \in Procs :
    /\ scan[p].pc \in Walking => Via[p] = "ports"
    /\ scan[p].pc = "find" => Via[p] = "helper"
    /\ scan[p].pc \in {"vendorData", "restData"} => address = Here(scan[p])
    /\ scan[p].pc \in {"rest", "restData"} => scan[p].id = Here(scan[p]) /\ scan[p].id \in Present

\* An access is made by a program that is not scanning, through the ports to what it
\* selected.
AccessInv ==
  \A p \in Procs :
    /\ Accessing(p) =>
         scan[p].pc = "done" /\ access[p].at \in Present /\ access[p].value \in Values
    /\ access[p].pc \in {"select", "data"} => Via[p] = "ports"
    /\ access[p].pc = "data" => address = access[p].at

IInv == ScanTyped /\ AccessTyped /\ WalkInv /\ AccessInv /\ AccessFaithful

-----------------------------------------------------------------------------
(***************************************************************************)
(* The kernel's next function is one of the machine.                       *)
(***************************************************************************)

LEMMA NatLeast ==
  ASSUME NEW S, S \subseteq Nat, S # {}
  PROVE  \E x \in S : \A y \in S : x <= y
  <1>1. PICK x \in S : \A y \in S : ~(<<y, x>> \in OpToRel(<, Nat))
    BY NatLessThanWellFounded, WFMin
  <1>2. \A y \in S : ~(y < x)
    BY <1>1 DEF OpToRel
  <1>3. \A y \in S : y \in Nat /\ x \in Nat
    OBVIOUS
  <1>4. QED
    BY <1>2, <1>3, SMT

\* In each component some place of T is least.
LEMMA LeastOf ==
  ASSUME NEW T, T \subseteq Nat \X Nat \X Nat, T # {}
  PROVE  /\ \E a \in T : \A b \in T : a[1] <= b[1]
         /\ \E a \in T : \A b \in T : a[2] <= b[2]
         /\ \E a \in T : \A b \in T : a[3] <= b[3]
  <1>1. ASSUME NEW k \in 1 .. 3, \A a \in T : a[k] \in Nat
        PROVE  \E a \in T : \A b \in T : a[k] <= b[k]
    <2> DEFINE S == {a[k] : a \in T}
    <2>1. S \subseteq Nat /\ S # {}
      BY <1>1
    <2> HIDE DEF S
    <2>2. PICK x \in S : \A y \in S : x <= y
      BY <2>1, NatLeast
    <2>3. QED
      BY <2>2 DEF S
  <1>2. \A a \in T : a[1] \in Nat /\ a[2] \in Nat /\ a[3] \in Nat
    OBVIOUS
  <1>3. \E a \in T : \A b \in T : a[1] <= b[1]
    BY <1>1, <1>2
  <1>4. \E a \in T : \A b \in T : a[2] <= b[2]
    BY <1>1, <1>2
  <1>5. \E a \in T : \A b \in T : a[3] <= b[3]
    BY <1>1, <1>2
  <1>6. QED
    BY <1>3, <1>4, <1>5

LEMMA FirstIsLeast ==
  ASSUME NEW T, T \subseteq Places, T # {}
  PROVE  First(T) \in T /\ \A b \in T \ {First(T)} : Before(First(T), b)
  <1>1. T \subseteq Nat \X Nat \X Nat
    BY SizesAssumption DEF Places
  <1>2. PICK a \in T : \A c \in T : a[1] <= c[1]
    BY <1>1, LeastOf
  <1> DEFINE T1 == {c \in T : c[1] = a[1]}
  <1>3. T1 \subseteq Nat \X Nat \X Nat /\ T1 # {}
    BY <1>1
  <1>4. PICK b \in T1 : \A c \in T1 : b[2] <= c[2]
    BY <1>3, LeastOf
  <1> DEFINE T2 == {c \in T1 : c[2] = b[2]}
  <1>5. T2 \subseteq Nat \X Nat \X Nat /\ T2 # {}
    BY <1>3
  <1>6. PICK d \in T2 : \A c \in T2 : d[3] <= c[3]
    BY <1>5, LeastOf
  <1>7. \A c \in T \ {d} : Before(d, c)
    <2> SUFFICES ASSUME NEW c \in T, c # d
                 PROVE  \E k \in 1 .. 3 : d[k] < c[k] /\ \A j \in 1 .. k - 1 : d[j] = c[j]
      BY DEF Before
    <2>1. d \in Nat \X Nat \X Nat /\ c \in Nat \X Nat \X Nat
      BY <1>1
    <2>2. d[1] <= c[1] /\ (c[1] = d[1] => d[2] <= c[2])
          /\ (c[1] = d[1] /\ c[2] = d[2] => d[3] <= c[3])
      BY <1>2, <1>4, <1>6
    <2>3. CASE d[1] # c[1]
      <3>1. 1 \in 1 .. 3 /\ d[1] < c[1] /\ \A j \in 1 .. 1 - 1 : d[j] = c[j]
        BY <2>1, <2>2, <2>3
      <3>2. QED
        BY <3>1
    <2>4. CASE d[1] = c[1] /\ d[2] # c[2]
      <3>1. \A j \in 1 .. 2 - 1 : j = 1
        OBVIOUS
      <3>2. 2 \in 1 .. 3 /\ d[2] < c[2] /\ \A j \in 1 .. 2 - 1 : d[j] = c[j]
        BY <2>1, <2>2, <2>4, <3>1
      <3>3. QED
        BY <3>2
    <2>5. CASE d[1] = c[1] /\ d[2] = c[2]
      <3>1. d[3] # c[3]
        BY <2>1, <2>5
      <3>2. \A j \in 1 .. 3 - 1 : j = 1 \/ j = 2
        OBVIOUS
      <3>3. 3 \in 1 .. 3 /\ d[3] < c[3] /\ \A j \in 1 .. 3 - 1 : d[j] = c[j]
        BY <2>1, <2>2, <2>5, <3>1, <3>2
      <3>4. QED
        BY <3>3
    <2>6. QED
      BY <2>3, <2>4, <2>5
  <1>8. QED
    BY <1>7 DEF First

-----------------------------------------------------------------------------
(***************************************************************************)
(* How a walk goes on.                                                     *)
(***************************************************************************)

\* After a function the walk looks for another one, or ends.
Onward(p, s) == s \in ScanRecs(p) /\ s.pc \in {"vendor", "done"}

LEMMA NextBusGoes ==
  ASSUME NEW p \in Procs, NEW s \in ScanRecs(p)
  PROVE  Onward(p, NextBus(s))
  <1>1. s.bus + 1 \in Nat
    BY DEF ScanRecs
  <1>2. [s EXCEPT !.pc = "vendor", !.bus = @ + 1, !.card = 0, !.func = 0] \in ScanRecs(p)
    BY <1>1 DEF ScanRecs, Walking
  <1>3. [s EXCEPT !.pc = "done"] \in ScanRecs(p)
    BY DEF ScanRecs, Walking
  <1>4. NextBus(s).pc \in {"vendor", "done"}
    BY DEF NextBus, ScanRecs
  <1>5. QED
    BY <1>2, <1>3, <1>4 DEF Onward, NextBus

LEMMA NextCardGoes ==
  ASSUME NEW p \in Procs, NEW s \in ScanRecs(p)
  PROVE  Onward(p, NextCard(s))
  <1>1. CASE s.card + 1 < Slots
    <2>1. s.card + 1 \in Nat
      BY DEF ScanRecs
    <2>2. [s EXCEPT !.pc = "vendor", !.card = @ + 1, !.func = 0] \in ScanRecs(p)
      BY <2>1 DEF ScanRecs, Walking
    <2>3. NextCard(s).pc = "vendor"
      BY <1>1 DEF NextCard, ScanRecs
    <2>4. QED
      BY <1>1, <2>2, <2>3 DEF Onward, NextCard
  <1>2. CASE ~(s.card + 1 < Slots)
    BY <1>2, NextBusGoes DEF NextCard
  <1>3. QED
    BY <1>1, <1>2

LEMMA NextFunctionGoes ==
  ASSUME NEW p \in Procs, NEW s \in ScanRecs(p), NEW d
  PROVE  Onward(p, NextFunction(s, d))
  <1>1. CASE (s.func # 0 \/ d.multi) /\ s.func + 1 < Functions
    <2>1. s.func + 1 \in Nat
      BY DEF ScanRecs
    <2>2. [s EXCEPT !.pc = "vendor", !.func = @ + 1] \in ScanRecs(p)
      BY <2>1 DEF ScanRecs, Walking
    <2>3. NextFunction(s, d).pc = "vendor"
      BY <1>1 DEF NextFunction, ScanRecs
    <2>4. QED
      BY <1>1, <2>2, <2>3 DEF Onward, NextFunction
  <1>2. CASE ~((s.func # 0 \/ d.multi) /\ s.func + 1 < Functions)
    BY <1>2, NextCardGoes DEF NextFunction
  <1>3. QED
    BY <1>1, <1>2

LEMMA EnterGoes ==
  ASSUME NEW p \in Procs, NEW s \in ScanRecs(p), NEW d, d.secondary \in Nat
  PROVE  Enter(s, d) \in ScanRecs(p)
  <1>1. /\ Append(s.buses, d.secondary) \in Seq(Nat)
        /\ Append(s.buses, Len(s.buses)) \in Seq(Nat)
        /\ s.hosts + 1 \in Nat
    BY DEF ScanRecs
  <1>2. CASE Leads(d)
    <2>1. Enter(s, d) = [s EXCEPT !.buses = Append(@, d.secondary)]
      BY <1>2 DEF Enter, Leads
    <2>2. QED
      BY <1>1, <2>1 DEF ScanRecs
  <1>3. CASE d.kind = "host"
    <2>1. Enter(s, d) = [s EXCEPT !.hosts = @ + 1,
                                  !.buses = IF s.hosts > 0 THEN Append(@, Len(@)) ELSE @]
      BY <1>3 DEF Enter, Leads
    <2>2. QED
      BY <1>1, <2>1 DEF ScanRecs
  <1>4. CASE ~Leads(d) /\ d.kind # "host"
    BY <1>4 DEF Enter
  <1>5. QED
    BY <1>2, <1>3, <1>4

\* An entry the program makes itself is of the function it read.
LEMMA IdentifyGoes ==
  ASSUME NEW p \in Procs, Via[p] = "ports", NEW s \in ScanRecs(p), NEW a \in Present,
         Here(s) = a, s.id = a
  PROVE  Identify(s, machine[a], a, {}) \in ScanRecs(p)
  <1> DEFINE b == machine[a].base
             e == [at |-> Here(s), id |-> s.id, rest |-> a, io |-> machine[a].io,
                   base |-> [i \in 0 .. 5 |-> BaseOf(b, i, {})]]
  <1>1. e = Own(a)
    BY DEF Own
  <1>2. e \in EntrySet(p)
    BY <1>1 DEF EntrySet
  <1> HIDE DEF e
  <1>3. Append(s.list, e) \in Seq(EntrySet(p))
    BY <1>2 DEF ScanRecs
  <1>4. Identify(s, machine[a], a, {}) \in {s, [s EXCEPT !.list = Append(s.list, e)]}
    BY DEF Identify, e
  <1>5. QED
    BY <1>3, <1>4 DEF ScanRecs

-----------------------------------------------------------------------------
(***************************************************************************)
(* What a step leaves alone.                                               *)
(***************************************************************************)

LEMMA SameMachine ==
  ASSUME machine' = machine
  PROVE  /\ Present' = Present /\ AccessRecs' = AccessRecs
         /\ \A p \in Procs : ScanRecs(p)' = ScanRecs(p)
  BY DEF Present, AccessRecs, ScanRecs, EntrySet, Own, Told

\* A program goes on scanning, or starts again, and has no access under way.
LEMMA ScanMoves ==
  ASSUME IInv, Undisturbed, UNCHANGED <<machine, space, meant>>,
         NEW p \in Procs, NEW s, s \in ScanRecs(p), scan' = [scan EXCEPT ![p] = s],
         \/ UNCHANGED access /\ ~Accessing(p)
         \/ access' = [access EXCEPT ![p] = NoAccess],
         UNCHANGED address \/ Via[p] = "ports",
         s.pc \in Walking => Via[p] = "ports",
         s.pc = "find" => Via[p] = "helper",
         s.pc \in {"vendorData", "restData"} => address' = Here(s),
         s.pc \in {"rest", "restData"} => s.id = Here(s) /\ s.id \in Present
  PROVE  IInv'
  <1>1. \A q \in Procs : scan'[q] = IF q = p THEN s ELSE scan[q]
    BY DEF IInv, ScanTyped
  <1>2. ScanTyped'
    BY <1>1, SameMachine DEF IInv, ScanTyped
  <1>3. NoAccess \in AccessRecs
    BY AccessesAssumption DEF NoAccess, AccessRecs
  <1>4. access' \in [Procs -> AccessRecs]
    BY <1>3 DEF IInv, AccessTyped
  <1>5. AccessTyped'
    BY <1>4, SameMachine DEF IInv, AccessTyped
  <1>6. \A q \in Procs : q # p /\ address' # address => Via[q] # "ports"
    BY DEF Undisturbed
  <1>7. WalkInv'
    <2> SUFFICES ASSUME NEW q \in Procs
        PROVE  /\ scan'[q].pc \in Walking => Via[q] = "ports"
               /\ scan'[q].pc = "find" => Via[q] = "helper"
               /\ scan'[q].pc \in {"vendorData", "restData"} => address' = Here(scan'[q])
               /\ scan'[q].pc \in {"rest", "restData"} =>
                    scan'[q].id = Here(scan'[q]) /\ scan'[q].id \in Present
      BY SameMachine DEF WalkInv
    <2>1. CASE q = p
      BY <1>1, <2>1
    <2>2. CASE q # p
      BY <1>1, <1>6, <2>2 DEF IInv, WalkInv, Walking
    <2>3. QED
      BY <2>1, <2>2
  <1>8. \A q \in Procs : \/ q # p /\ access'[q] = access[q] /\ scan'[q] = scan[q]
                         \/ access'[q].pc \notin {"select", "data", "ioctl"}
    BY <1>1, <1>3 DEF IInv, AccessTyped, Accessing, NoAccess
  <1>9. AccessInv'
    <2> SUFFICES ASSUME NEW q \in Procs
        PROVE  /\ Accessing(q)' => /\ scan'[q].pc = "done" /\ access'[q].at \in Present
                                   /\ access'[q].value \in Values
               /\ access'[q].pc \in {"select", "data"} => Via[q] = "ports"
               /\ access'[q].pc = "data" => address' = access'[q].at
      BY SameMachine DEF AccessInv
    <2>1. QED
      BY <1>6, <1>8 DEF IInv, AccessInv, Accessing
  <1>10. AccessFaithful'
    BY DEF IInv, AccessFaithful, AccessTyped, NoAccess
  <1>11. QED
    BY <1>2, <1>5, <1>7, <1>9, <1>10 DEF IInv

\* A program that is not scanning begins an access or goes on with one.
LEMMA AccessMoves ==
  ASSUME IInv, Undisturbed, UNCHANGED <<machine, scan>>,
         NEW p \in Procs, scan[p].pc = "done",
         NEW r \in AccessRecs, access' = [access EXCEPT ![p] = r],
         UNCHANGED address \/ Via[p] = "ports",
         space' \in [Present -> Values], space' = meant',
         r.pc \in {"select", "data", "ioctl"} => r.at \in Present /\ r.value \in Values,
         r.pc \in {"select", "data"} => Via[p] = "ports",
         r.pc = "data" => address' = r.at,
         r.pc = "answered" /\ r.op = "read" /\ r.ok => r.value = r.expect
  PROVE  IInv'
  <1>1. \A q \in Procs : access'[q] = IF q = p THEN r ELSE access[q]
    BY DEF IInv, AccessTyped
  <1>2. ScanTyped' /\ AccessTyped'
    BY SameMachine DEF IInv, ScanTyped, AccessTyped
  <1>3. \A q \in Procs : q # p /\ address' # address => Via[q] # "ports"
    BY DEF Undisturbed
  <1>4. WalkInv'
    <2> SUFFICES ASSUME NEW q \in Procs
        PROVE  /\ scan[q].pc \in Walking => Via[q] = "ports"
               /\ scan[q].pc = "find" => Via[q] = "helper"
               /\ scan[q].pc \in {"vendorData", "restData"} => address' = Here(scan[q])
               /\ scan[q].pc \in {"rest", "restData"} =>
                    scan[q].id = Here(scan[q]) /\ scan[q].id \in Present
      BY SameMachine DEF WalkInv
    <2>1. QED
      BY <1>3 DEF IInv, WalkInv, Walking
  <1>5. AccessInv'
    <2> SUFFICES ASSUME NEW q \in Procs
        PROVE  /\ Accessing(q)' => /\ scan[q].pc = "done" /\ access'[q].at \in Present
                                   /\ access'[q].value \in Values
               /\ access'[q].pc \in {"select", "data"} => Via[q] = "ports"
               /\ access'[q].pc = "data" => address' = access'[q].at
      BY SameMachine DEF AccessInv
    <2>1. QED
      BY <1>1, <1>3 DEF IInv, AccessInv, Accessing
  <1>6. AccessFaithful'
    BY <1>1 DEF IInv, AccessFaithful
  <1>7. QED
    BY <1>2, <1>4, <1>5, <1>6 DEF IInv

-----------------------------------------------------------------------------
(***************************************************************************)
(* The steps of a scan.                                                    *)
(***************************************************************************)

LEMMA FindHolds ==
  ASSUME IInv, Undisturbed, UNCHANGED <<space, meant, access>>, NEW p \in Procs, Find(p)
  PROVE  IInv'
  <1> DEFINE rest == After(cursor)
             found == [scan[p] EXCEPT !.list = Append(@, Told(First(rest)))]
             ended == [scan[p] EXCEPT !.pc = "done"]
  <1>1. /\ scan[p] \in ScanRecs(p) /\ scan[p].pc = "find" /\ Via[p] = "helper"
        /\ ~Accessing(p) /\ UNCHANGED <<machine, address>>
    BY DEF IInv, ScanTyped, WalkInv, AccessInv, Find, Undisturbed
  <1>2. \/ scan' = [scan EXCEPT ![p] = ended]
        \/ rest # {} /\ scan' = [scan EXCEPT ![p] = found]
    BY DEF Find
  <1>3. ended \in ScanRecs(p) /\ ended.pc = "done"
    BY <1>1 DEF ScanRecs, Walking
  <1>4. ASSUME rest # {} PROVE found \in ScanRecs(p) /\ found.pc = "find"
    <2>1. rest \subseteq Present /\ Present \subseteq Places
      BY MachinesAssumption DEF After, Present, IInv, ScanTyped, IsMachine
    <2>2. First(rest) \in Present
      BY <1>4, <2>1, FirstIsLeast
    <2>3. Told(First(rest)) \in EntrySet(p)
      BY <1>1, <2>2 DEF EntrySet
    <2>4. Append(scan[p].list, Told(First(rest))) \in Seq(EntrySet(p))
      BY <1>1, <2>3 DEF ScanRecs
    <2>5. QED
      BY <1>1, <2>4 DEF ScanRecs
  <1> HIDE DEF found, ended, rest
  <1>5. CASE scan' = [scan EXCEPT ![p] = ended]
    BY <1>1, <1>3, <1>5, ScanMoves DEF Walking
  <1>6. CASE rest # {} /\ scan' = [scan EXCEPT ![p] = found]
    BY <1>1, <1>4, <1>6, ScanMoves DEF Walking
  <1>7. QED
    BY <1>2, <1>5, <1>6

LEMMA SelectHolds ==
  ASSUME IInv, Undisturbed, UNCHANGED <<space, meant, access>>, NEW p \in Procs, Select(p)
  PROVE  IInv'
  <1> DEFINE l == IF scan[p].pc = "vendor" THEN "vendorData" ELSE "restData"
             s == [scan[p] EXCEPT !.pc = l]
  <1>1. /\ scan[p] \in ScanRecs(p) /\ scan[p].pc \in {"vendor", "rest"} /\ Via[p] = "ports"
        /\ ~Accessing(p) /\ machine' = machine /\ address' = Here(scan[p])
        /\ scan[p].pc = "rest" => scan[p].id = Here(scan[p]) /\ scan[p].id \in Present
    BY DEF IInv, ScanTyped, WalkInv, AccessInv, Select
  <1>2. scan' = [scan EXCEPT ![p] = s]
    BY DEF Select
  <1>3. s \in ScanRecs(p) /\ s.pc = l /\ Here(s) = Here(scan[p]) /\ s.id = scan[p].id
    BY <1>1 DEF ScanRecs, Walking, Here
  <1> HIDE DEF s
  <1>4. QED
    BY <1>1, <1>2, <1>3, ScanMoves DEF Walking

LEMMA ReadVendorHolds ==
  ASSUME IInv, Undisturbed, UNCHANGED <<space, meant, access>>, NEW p \in Procs, ReadVendor(p)
  PROVE  IInv'
  <1> DEFINE s == [scan[p] EXCEPT !.pc = "rest", !.id = address]
  <1>1. /\ scan[p] \in ScanRecs(p) /\ Via[p] = "ports" /\ scan[p].pc = "vendorData"
        /\ address = Here(scan[p])
        /\ ~Accessing(p) /\ UNCHANGED <<machine, address>>
    BY DEF IInv, ScanTyped, WalkInv, AccessInv, ReadVendor, Walking
  <1>2. \/ address \in Present /\ scan' = [scan EXCEPT ![p] = s]
        \/ scan' = [scan EXCEPT ![p] = NextCard(scan[p])]
    BY <1>1 DEF ReadVendor, Reads
  <1>3. CASE scan' = [scan EXCEPT ![p] = NextCard(scan[p])]
    <2>1. NextCard(scan[p]) \in ScanRecs(p) /\ NextCard(scan[p]).pc \in {"vendor", "done"}
      BY <1>1, NextCardGoes DEF Onward
    <2>2. QED
      BY <1>1, <1>3, <2>1, ScanMoves DEF Walking
  <1>4. CASE address \in Present /\ scan' = [scan EXCEPT ![p] = s]
    <2>1. s \in ScanRecs(p) /\ s.pc = "rest" /\ Here(s) = Here(scan[p]) /\ s.id = address
      BY <1>1, <1>4 DEF ScanRecs, Walking, Here
    <2> HIDE DEF s
    <2>2. QED
      BY <1>1, <1>4, <2>1, ScanMoves DEF Walking
  <1>5. QED
    BY <1>2, <1>3, <1>4

LEMMA ReadRestHolds ==
  ASSUME IInv, Undisturbed, UNCHANGED <<space, meant, access>>, NEW p \in Procs, ReadRest(p)
  PROVE  IInv'
  <1> DEFINE d == machine[address]
             t == Identify(scan[p], d, address, {})
             u == Enter(t, d)
             s == NextFunction(u, d)
             o == [scan[p] EXCEPT !.pc = "overrun"]
  <1>1. /\ scan[p] \in ScanRecs(p) /\ Via[p] = "ports" /\ scan[p].pc = "restData"
        /\ address = Here(scan[p]) /\ address \in Present /\ scan[p].id = address
        /\ ~Accessing(p) /\ UNCHANGED <<machine, address>> /\ machine \in Machines
    BY DEF IInv, ScanTyped, WalkInv, AccessInv, ReadRest, Walking
  <1>2. scan' = [scan EXCEPT ![p] = s] \/ scan' = [scan EXCEPT ![p] = o]
    <2>1. Read(Reads(p)) = d /\ Reads(p) = address
      BY <1>1 DEF Read, Reads
    <2>2. QED
      BY <1>1, <2>1 DEF ReadRest
  <1>3. d.secondary \in Nat
    BY <1>1, MachinesAssumption DEF IsMachine, Present
  <1>4. t \in ScanRecs(p)
    BY <1>1, IdentifyGoes
  <1> HIDE DEF t, d
  <1>5. u \in ScanRecs(p)
    BY <1>3, <1>4, EnterGoes
  <1> HIDE DEF u
  <1>6. s \in ScanRecs(p) /\ s.pc \in {"vendor", "done"}
    BY <1>5, NextFunctionGoes DEF Onward
  <1>7. o \in ScanRecs(p) /\ o.pc = "overrun"
    BY <1>1 DEF ScanRecs, Walking
  <1> HIDE DEF s, o
  <1>8. CASE scan' = [scan EXCEPT ![p] = s]
    BY <1>1, <1>6, <1>8, ScanMoves DEF Walking
  <1>9. CASE scan' = [scan EXCEPT ![p] = o]
    BY <1>1, <1>7, <1>9, ScanMoves DEF Walking
  <1>10. QED
    BY <1>2, <1>8, <1>9

LEMMA StartHolds ==
  ASSUME IInv, Undisturbed, UNCHANGED <<space, meant>>, NEW p \in Procs,
         access' = [access EXCEPT ![p] = NoAccess],
         Start(p) \/ Kill(p)
  PROVE  IInv'
  <1> DEFINE l == IF Via[p] = "helper" THEN "find" ELSE "vendor"
             s == [Idle EXCEPT !.pc = l]
  <1>1. Idle \in ScanRecs(p) /\ Idle.pc = "idle"
    <2>1. <<0>> \in Seq(Nat) /\ <<>> \in Seq(EntrySet(p)) /\ "idle" \in Walking \cup {"idle", "find", "done", "overrun"}
      OBVIOUS
    <2>2. 1 \in Nat /\ 0 \in Nat /\ None \in Present \cup {None}
      OBVIOUS
    <2>3. QED
      BY <2>1, <2>2 DEF Idle, ScanRecs
  <1>2. s \in ScanRecs(p) /\ s.pc = l
    BY <1>1 DEF ScanRecs, Walking
  <1>3. l = "find" => Via[p] = "helper"
    OBVIOUS
  <1>4. l = "vendor" => Via[p] = "ports"
    BY ViaAssumption DEF Undisturbed
  <1>5. CASE Start(p)
    <2>1. scan' = [scan EXCEPT ![p] = s] /\ UNCHANGED <<machine, address>>
      BY <1>5 DEF Start
    <2>2. l \in {"find", "vendor"}
      OBVIOUS
    <2> HIDE DEF s, l
    <2>3. QED
      BY <1>2, <1>3, <1>4, <2>1, <2>2, ScanMoves DEF Walking
  <1>6. CASE Kill(p)
    <2>1. scan' = [scan EXCEPT ![p] = Idle] /\ UNCHANGED <<machine, address>>
      BY <1>6 DEF Kill
    <2>2. /\ Idle.pc \notin Walking /\ Idle.pc # "find"
          /\ Idle.pc \notin {"vendorData", "restData", "rest"}
      BY <1>1 DEF Walking
    <2>3. QED
      BY <1>1, <2>1, <2>2, ScanMoves
  <1>7. QED
    BY <1>5, <1>6

-----------------------------------------------------------------------------
(***************************************************************************)
(* The steps of an access.                                                 *)
(***************************************************************************)

\* What a program knows a place from is an entry of its list.
LEMMA EntriesPresent ==
  ASSUME IInv, NEW p \in Procs, NEW e \in Entries(p)
  PROVE  e.at \in Present
  <1>1. scan[p].list \in Seq(EntrySet(p))
    BY DEF IInv, ScanTyped, ScanRecs
  <1>2. e \in EntrySet(p)
    BY <1>1 DEF Entries, Range
  <1>3. QED
    BY <1>2 DEF EntrySet, Own, Told

LEMMA AccessHolds ==
  ASSUME IInv, Undisturbed, NEW p \in Procs, NEW op \in {"read", "write"},
         NEW e \in Entries(p), NEW v \in Values, Access(p, op, e.at, v)
  PROVE  IInv'
  <1> DEFINE l == IF Via[p] = "helper" THEN "ioctl" ELSE "select"
             r == [pc |-> l, op |-> op, at |-> e.at, value |-> v, ok |-> FALSE, expect |-> 0,
                   left |-> access[p].left - 1]
  <1>1. e.at \in Present
    BY EntriesPresent
  <1>2. /\ scan[p].pc = "done" /\ access' = [access EXCEPT ![p] = r]
        /\ UNCHANGED <<machine, scan, address, space, meant>>
    BY DEF Access, vars
  <1>3. access[p].left \in 0 .. MaxAccesses /\ access[p].left > 0
    BY DEF IInv, AccessTyped, AccessRecs, Access
  <1>4. r \in AccessRecs
    BY <1>1, <1>3, AccessesAssumption DEF AccessRecs
  <1>5. l = "select" => Via[p] = "ports"
    BY ViaAssumption DEF Undisturbed
  <1>6. r.pc = l /\ r.at = e.at /\ r.value = v /\ l \in {"ioctl", "select"}
    OBVIOUS
  <1>7. space' \in [Present -> Values] /\ space' = meant'
    BY <1>2 DEF IInv, AccessTyped, AccessFaithful
  <1> HIDE DEF r, l
  <1>8. QED
    BY <1>1, <1>2, <1>4, <1>5, <1>6, <1>7, AccessMoves

LEMMA SelectRegisterHolds ==
  ASSUME IInv, Undisturbed, NEW p \in Procs, SelectRegister(p)
  PROVE  IInv'
  <1> DEFINE r == [access[p] EXCEPT !.pc = "data"]
  <1>1. /\ access[p] \in AccessRecs /\ access[p].at \in Present /\ scan[p].pc = "done"
        /\ access[p].value \in Values /\ Via[p] = "ports"
    BY DEF IInv, AccessTyped, AccessInv, Accessing, SelectRegister
  <1>2. /\ access' = [access EXCEPT ![p] = r] /\ address' = access[p].at
        /\ UNCHANGED <<machine, scan, space, meant>>
    BY DEF SelectRegister
  <1>3. r \in AccessRecs /\ r.pc = "data" /\ r.at = access[p].at /\ r.value = access[p].value
    BY <1>1 DEF AccessRecs
  <1>4. space' \in [Present -> Values] /\ space' = meant'
    BY <1>2 DEF IInv, AccessTyped, AccessFaithful
  <1> HIDE DEF r
  <1>5. QED
    BY <1>1, <1>2, <1>3, <1>4, AccessMoves

\* An answer ends an access; the registers are as the programs say.
LEMMA AnswerHolds ==
  ASSUME IInv, Undisturbed, UNCHANGED <<machine, scan, address>>, NEW p \in Procs, Accessing(p),
         NEW v \in Values, NEW ok \in BOOLEAN, Answer(p, v, ok),
         space' \in [Present -> Values], space' = meant',
         access[p].op = "read" /\ ok => v = meant[access[p].at]
  PROVE  IInv'
  <1> DEFINE x == meant[access[p].at]
             r == [access[p] EXCEPT !.pc = "answered", !.value = v, !.ok = ok, !.expect = x]
  <1>1. access[p] \in AccessRecs /\ access[p].at \in Present /\ scan[p].pc = "done"
    BY DEF IInv, AccessTyped, AccessInv
  <1>2. x \in Values
    BY <1>1 DEF IInv, AccessTyped, AccessFaithful
  <1>3. access' = [access EXCEPT ![p] = r]
    BY DEF Answer
  <1> HIDE DEF x
  <1>4. /\ r \in AccessRecs /\ r.pc = "answered" /\ r.op = access[p].op
        /\ r.value = v /\ r.ok = ok /\ r.expect = x
    BY <1>1, <1>2, ZenonT(40) DEF AccessRecs
  <1> HIDE DEF r
  <1>5. QED
    BY <1>1, <1>3, <1>4, AccessMoves DEF x

\* A write reaches the register it names in both accounts.
LEMMA StoreHolds ==
  ASSUME IInv, NEW a \in Present, NEW v \in Values
  PROVE  Store(space, a, v) = Store(meant, a, v) /\ Store(space, a, v) \in [Present -> Values]
  BY DEF IInv, AccessTyped, AccessFaithful, Store

LEMMA ReadRegisterHolds ==
  ASSUME IInv, Undisturbed, NEW p \in Procs, ReadRegister(p)
  PROVE  IInv'
  <1>1. /\ Accessing(p) /\ address = access[p].at /\ address \in Present
        /\ UNCHANGED <<machine, scan, address, space, meant>>
        /\ Answer(p, IF address \in Present THEN space[address] ELSE 255, TRUE)
    BY DEF IInv, AccessInv, Accessing, ReadRegister, vars
  <1>2. space[address] \in Values /\ space[address] = meant[access[p].at]
    BY <1>1 DEF IInv, AccessTyped, AccessFaithful
  <1>3. Answer(p, space[address], TRUE)
    BY <1>1
  <1>4. space' \in [Present -> Values] /\ space' = meant'
    BY <1>1 DEF IInv, AccessTyped, AccessFaithful
  <1>5. QED
    BY <1>1, <1>2, <1>3, <1>4, AnswerHolds

LEMMA WriteRegisterHolds ==
  ASSUME IInv, Undisturbed, NEW p \in Procs, WriteRegister(p)
  PROVE  IInv'
  <1>1. /\ Accessing(p) /\ address = access[p].at /\ address \in Present
        /\ UNCHANGED <<machine, scan, address>>
        /\ access[p].op = "write" /\ access[p].value \in Values
        /\ Answer(p, access[p].value, TRUE)
        /\ space' = Store(space, address, access[p].value)
        /\ meant' = Store(meant, access[p].at, access[p].value)
    BY DEF IInv, AccessInv, Accessing, WriteRegister, vars
  <1>2. space' \in [Present -> Values] /\ space' = meant'
    BY <1>1, StoreHolds
  <1>3. QED
    BY <1>1, <1>2, AnswerHolds

\* The kernel gives a register back what was read from it.
LEMMA IoctlHolds ==
  ASSUME IInv, Undisturbed, NEW p \in Procs, Ioctl(p)
  PROVE  IInv'
  <1> DEFINE a == access[p].at
             w == access[p].value
  <1>1. /\ Accessing(p) /\ a \in Present /\ w \in Values
        /\ UNCHANGED <<machine, scan, address>>
    BY DEF IInv, AccessInv, Accessing, Ioctl, Undisturbed
  <1>2. space[a] \in Values /\ Store(space, a, space[a]) = space /\ space = meant
    BY <1>1 DEF IInv, AccessTyped, AccessFaithful, Store
  <1>3. CASE /\ space' = Store(space, a, space[a]) /\ meant' = meant
             /\ \E left \in Values : Answer(p, left, FALSE)
    <2>1. PICK left \in Values : Answer(p, left, FALSE)
      BY <1>3
    <2>2. space' \in [Present -> Values] /\ space' = meant'
      BY <1>2, <1>3 DEF IInv, AccessTyped
    <2>3. QED
      BY <1>1, <2>1, <2>2, AnswerHolds
  <1>4. CASE /\ space' = Store(space, a, w) /\ meant' = Store(meant, a, w)
             /\ Answer(p, w, FALSE)
    <2>1. space' \in [Present -> Values] /\ space' = meant'
      BY <1>1, <1>4, StoreHolds
    <2>2. QED
      BY <1>1, <1>4, <2>1, AnswerHolds
  <1>5. QED
    BY <1>3, <1>4 DEF Ioctl

-----------------------------------------------------------------------------
(***************************************************************************)
(* The invariant holds.                                                    *)
(***************************************************************************)

LEMMA InitHolds ==
  ASSUME ConfigInit
  PROVE  IInv
  <1>1. /\ machine \in Machines /\ scan = [p \in Procs |-> Idle]
        /\ access = [p \in Procs |-> NoAccess]
    BY DEF ConfigInit, Init
  <1>2. \A p \in Procs : Idle \in ScanRecs(p)
    <2> TAKE p \in Procs
    <2>1. <<0>> \in Seq(Nat) /\ <<>> \in Seq(EntrySet(p))
      OBVIOUS
    <2>2. QED
      BY <2>1 DEF Idle, ScanRecs
  <1>3. Idle.pc = "idle"
    BY DEF Idle
  <1>4. NoAccess \in AccessRecs /\ NoAccess.pc = "none"
    BY AccessesAssumption DEF NoAccess, AccessRecs
  <1>5. space \in [Present -> Values] /\ space = meant
    BY DEF ConfigInit
  <1>6. ScanTyped /\ AccessTyped
    BY <1>1, <1>2, <1>4, <1>5 DEF ScanTyped, AccessTyped
  <1>7. WalkInv
    BY <1>1, <1>3 DEF WalkInv, Walking
  <1>8. AccessInv /\ AccessFaithful
    BY <1>1, <1>4, <1>5 DEF AccessInv, Accessing, AccessFaithful
  <1>9. QED
    BY <1>6, <1>7, <1>8 DEF IInv

LEMMA StutterHolds ==
  ASSUME IInv, UNCHANGED configVars
  PROVE  IInv'
  <1>1. UNCHANGED <<machine, cursor, address, scan, space, meant, access>>
    BY DEF configVars, vars
  <1>2. (ScanTyped /\ AccessTyped)'
    BY <1>1, SameMachine DEF IInv, ScanTyped, AccessTyped
  <1>3. (WalkInv /\ AccessInv /\ AccessFaithful)'
    BY <1>1, SameMachine DEF IInv, WalkInv, AccessInv, AccessFaithful, Accessing, Here
  <1>4. QED
    BY <1>2, <1>3 DEF IInv

LEMMA Inductive ==
  ASSUME IInv, Undisturbed, [ConfigNext]_configVars
  PROVE  IInv'
  <1>1. ASSUME NEW p \in Procs, Scanning(p)
        PROVE  IInv'
    <2>1. CASE Step(p) /\ UNCHANGED <<space, meant, access>>
      BY <2>1, FindHolds, SelectHolds, ReadVendorHolds, ReadRestHolds DEF Step
    <2>2. CASE /\ Kill(p) \/ Start(p)
               /\ access' = [access EXCEPT ![p] = NoAccess]
               /\ UNCHANGED <<space, meant>>
      BY <2>2, StartHolds
    <2>3. QED
      BY <1>1, <2>1, <2>2 DEF Scanning
  <1>2. ASSUME NEW p \in Procs, ConfigStep(p)
        PROVE  IInv'
    BY <1>2, SelectRegisterHolds, ReadRegisterHolds, WriteRegisterHolds, IoctlHolds
       DEF ConfigStep
  <1>3. ASSUME NEW p \in Procs, NEW op \in {"read", "write"}, NEW e \in Entries(p),
               NEW v \in Values, Access(p, op, e.at, v)
        PROVE  IInv'
    BY <1>3, AccessHolds
  <1>4. CASE UNCHANGED configVars
    BY <1>4, StutterHolds
  <1>5. QED
    BY <1>1, <1>2, <1>3, <1>4 DEF ConfigNext

LEMMA Implies ==
  ASSUME IInv, Undisturbed, SameTypes
  PROVE  Faithful
  <1>1. ASSUME NEW p \in Procs, NEW e \in Entries(p)
        PROVE  /\ e.id = e.at /\ e.rest = e.at
               /\ \A i \in 0 .. 5 : e.base[i] = ResourceOf(machine[e.at].base, i)
               /\ Via[p] = "ports" => e.io = machine[e.at].io
    <2>1. scan[p].list \in Seq(EntrySet(p))
      BY DEF IInv, ScanTyped, ScanRecs
    <2>2. e \in EntrySet(p)
      BY <2>1 DEF Entries, Range
    <2>3. \A a \in Present : \A i \in 0 .. 5 :
            BaseOf(machine[a].base, i, {}) = ResourceOf(machine[a].base, i)
      BY DEF IInv, ScanTyped, SameTypes, Present, BaseOf, ResourceOf
    <2>4. QED
      BY <2>2, <2>3 DEF EntrySet, Own, Told
  <1>2. QED
    BY <1>1 DEF IInv, Faithful, EntryFaithful

\* What a program knows of a function and what it does to it is of that function: of an
\* entry of its list pci_scan read the identity and the registers from the place it files
\* it under, and pci_config_read and pci_config_write reach the register they name.
THEOREM FaithfulCorrect ==
  ASSUME Undisturbed, SameTypes
  PROVE  ConfigSpec => []Faithful
  <1>1. ConfigInit => IInv
    BY InitHolds
  <1>2. IInv /\ [ConfigNext]_configVars => IInv'
    BY Inductive
  <1>3. IInv => Faithful
    BY Implies
  <1>4. QED
    BY <1>1, <1>2, <1>3, PTL DEF ConfigSpec

-----------------------------------------------------------------------------
(***************************************************************************)
(* What the second theorem asks of programs and machines.                  *)
(***************************************************************************)

\* One program uses the helper, and is not killed.
OneHelper ==
  /\ \A p, q \in Procs : Via[p] = "helper" /\ Via[q] = "helper" => p = q
  /\ \A p \in Kills : Via[p] # "helper"

\* The buses are a tree: each but bus 0 is behind one bridge, on a bus of a lower
\* number.  There is one host bridge, and the functions of a card are numbered without a
\* gap, function 0 telling whether there are more.
WellNumbered(m) ==
  /\ \A a \in DOMAIN m :
       a[1] = 0 \/ \E b \in DOMAIN m : Leads(m[b]) /\ m[b].secondary = a[1] /\ b[1] < a[1]
  /\ \A a, b \in DOMAIN m :
       Leads(m[a]) /\ Leads(m[b]) /\ m[a].secondary = m[b].secondary => a = b
  /\ \A a, b \in DOMAIN m : m[a].kind = "host" /\ m[b].kind = "host" => a = b
  /\ \A a \in DOMAIN m : \A f \in 0 .. a[3] : <<a[1], a[2], f>> \in DOMAIN m
  /\ \A a \in DOMAIN m : a[3] > 0 => m[<<a[1], a[2], 0>>].multi

Trees == \A m \in Machines : WellNumbered(m)

-----------------------------------------------------------------------------
(***************************************************************************)
(* How far a scan has got.                                                 *)
(***************************************************************************)

\* The places a list names are those of V, each once, as long as there is room.
Ats(list) == {e.at : e \in Range(list)}
Listed(list, V, most) ==
  /\ Ats(list) \subseteq V /\ IsFiniteSet(V) /\ V \subseteq Present
  /\ Cardinality(Ats(list)) = Len(list) /\ Len(list) = most

\* What a walk has been to: the functions before its place.
Met(s) ==
  {a \in Present : \E k \in 1 .. s.bus :
     /\ a[1] = s.buses[k]
     /\ \/ s.pc = "done" \/ k < s.bus \/ a[2] < s.card
        \/ a[2] = s.card /\ a[3] < s.func}

\* The table of buses has bus 0 and those behind the bridges met, each once.
Charted(buses, V) ==
  /\ Len(buses) > 0 /\ buses[1] = 0
  /\ \A k, j \in 1 .. Len(buses) : buses[k] = buses[j] => k = j
  /\ \A k \in 2 .. Len(buses) : \E a \in V : Leads(machine[a]) /\ machine[a].secondary = buses[k]
  /\ \A a \in V : Leads(machine[a]) => \E k \in 1 .. Len(buses) : machine[a].secondary = buses[k]

Placed(s) ==
  /\ s.bus \in 1 .. Len(s.buses) /\ s.card \in 0 .. Slots - 1 /\ s.func \in 0 .. Functions - 1
  /\ s.pc = "done" => s.bus = Len(s.buses)

Walked(s) ==
  /\ Placed(s) /\ Charted(s.buses, Met(s))
  /\ s.hosts > 0 => \E a \in Met(s) : machine[a].kind = "host"
  /\ Listed(s.list, Met(s), Least(MaxDevices, Cardinality(Met(s))))

\* What the kernel has told: the functions up to its cursor.
Asked(s) ==
  LET told == Present \ After(cursor)
  IN /\ s.pc = "find" => Listed(s.list, told, Cardinality(told))
     /\ s.pc # "find" => cursor = None
     /\ s.pc = "done" => Listed(s.list, Present, Cardinality(Present))

Counted(p) ==
  IF Via[p] = "helper" THEN cursor \in Present \cup {None} /\ Asked(scan[p])
  ELSE scan[p].pc # "idle" => Walked(scan[p])

\* Who has written past the table had no room for a bus.
Crowded == \A p \in Procs : scan[p].pc = "overrun" => Cardinality(Buses) > MaxBuses

CompleteInv == \A p \in Procs : Counted(p)

-----------------------------------------------------------------------------
(***************************************************************************)
(* A list that grows, and the order in which the kernel tells.             *)
(***************************************************************************)

LEMMA AtsAppend ==
  ASSUME NEW S, NEW list \in Seq(S), NEW e \in S
  PROVE  /\ Ats(Append(list, e)) = Ats(list) \cup {e.at}
         /\ Len(Append(list, e)) = Len(list) + 1 /\ Len(list) \in Nat
  <1> DEFINE l == Append(list, e)
  <1>1. /\ DOMAIN list = 1 .. Len(list) /\ DOMAIN l = 1 .. Len(list) + 1 /\ Len(list) \in Nat
        /\ \A k \in 1 .. Len(list) : l[k] = list[k]
        /\ l[Len(list) + 1] = e /\ Len(l) = Len(list) + 1
    OBVIOUS
  <1> HIDE DEF l
  <1>2. Range(l) = Range(list) \cup {e}
    BY <1>1 DEF Range
  <1>3. QED
    BY <1>1, <1>2 DEF Ats, l

LEMMA ListedGrows ==
  ASSUME NEW S, NEW list \in Seq(S), NEW e \in S, NEW V, e.at \in Present, e.at \notin V,
         NEW most, Listed(list, V, most)
  PROVE  Listed(Append(list, e), V \cup {e.at}, most + 1)
  <1>1. IsFiniteSet(V \cup {e.at}) /\ V \cup {e.at} \subseteq Present
    BY FS_AddElement DEF Listed
  <1>2. IsFiniteSet(Ats(list)) /\ e.at \notin Ats(list)
    BY FS_Subset DEF Listed
  <1>3. Cardinality(Ats(list) \cup {e.at}) = Cardinality(Ats(list)) + 1
    BY <1>2, FS_AddElement
  <1>4. /\ Ats(Append(list, e)) = Ats(list) \cup {e.at}
        /\ Len(Append(list, e)) = Len(list) + 1
    BY AtsAppend
  <1>5. QED
    BY <1>1, <1>3, <1>4 DEF Listed

LEMMA ListedStays ==
  ASSUME NEW list, NEW V, NEW a \in Present, NEW most, Listed(list, V, most)
  PROVE  Listed(list, V \cup {a}, most)
  BY FS_AddElement DEF Listed

\* The order of the kernel's functions.
LEMMA BeforeOrder ==
  ASSUME NEW a \in Places, NEW b \in Places, NEW c \in Places
  PROVE  /\ ~Before(a, a)
         /\ Before(a, b) /\ Before(b, c) => Before(a, c)
  <1>1. /\ a \in Nat \X Nat \X Nat /\ b \in Nat \X Nat \X Nat /\ c \in Nat \X Nat \X Nat
    BY SizesAssumption DEF Places
  <1>2. ASSUME NEW x \in Nat \X Nat \X Nat, NEW y \in Nat \X Nat \X Nat
        PROVE  Before(x, y) <=> \/ x[1] < y[1]
                                \/ x[1] = y[1] /\ x[2] < y[2]
                                \/ x[1] = y[1] /\ x[2] = y[2] /\ x[3] < y[3]
    <2>1. 1 .. 1 - 1 = {} /\ 1 .. 2 - 1 = {1} /\ 1 .. 3 - 1 = {1, 2} /\ 1 .. 3 = {1, 2, 3}
      BY SMT
    <2>2. QED
      BY <2>1 DEF Before
  <1>3. QED
    BY <1>1, <1>2, SMT

\* The kernel tells the functions one after the other.
LEMMA AfterFirst ==
  ASSUME Present \subseteq Places, cursor \in Present \cup {None}, After(cursor) # {}
  PROVE  LET f == First(After(cursor))
         IN  /\ f \in After(cursor) /\ f \in Present /\ f # None
             /\ After(f) = After(cursor) \ {f}
  <1> DEFINE T == After(cursor)
             f == First(T)
  <1>1. T \subseteq Present /\ T \subseteq Places /\ T # {}
    BY DEF After
  <1>2. f \in T /\ \A b \in T \ {f} : Before(f, b)
    BY <1>1, FirstIsLeast
  <1>3. f \in Places /\ f # None
    BY <1>1, <1>2 DEF Places, None
  <1> HIDE DEF f, T
  <1>4. \A a \in Present : Before(f, a) <=> a \in T \ {f}
    <2> TAKE a \in Present
    <2>1. ASSUME Before(f, a) PROVE a \in T
      <3>1. CASE cursor = None
        BY <3>1 DEF T, After
      <3>2. CASE cursor # None
        <4>1. Before(cursor, f)
          BY <1>2, <3>2 DEF T, After
        <4>2. Before(cursor, a)
          BY <1>3, <2>1, <3>2, <4>1, BeforeOrder
        <4>3. QED
          BY <4>2 DEF T, After
      <3>3. QED
        BY <3>1, <3>2
    <2>2. ~Before(f, f)
      BY <1>3, BeforeOrder
    <2>3. QED
      BY <1>2, <2>1, <2>2
  <1>5. After(f) = {a \in Present : Before(f, a)}
    BY <1>3 DEF After
  <1>6. QED
    BY <1>1, <1>2, <1>3, <1>4, <1>5 DEF f, T

-----------------------------------------------------------------------------
(***************************************************************************)
(* Where a walk goes on, and what it has met then.                         *)
(***************************************************************************)

\* What is left of a card.
Rest(s) == {a \in Present : a[1] = s.buses[s.bus] /\ a[2] = s.card /\ a[3] >= s.func}

Keeps(s, t) == t.buses = s.buses /\ t.hosts = s.hosts /\ t.list = s.list

PlacesKnown == Present \subseteq Places

LEMMA PlaceNumbers ==
  ASSUME PlacesKnown, NEW a \in Present
  PROVE  /\ a[1] \in Nat /\ a[2] \in Nat /\ a[2] < Slots /\ a[3] \in Nat /\ a[3] < Functions
         /\ a = <<a[1], a[2], a[3]>>
         /\ Slots \in Nat /\ Functions \in Nat
  <1>1. a \in Nat \X (0 .. Slots - 1) \X (0 .. Functions - 1)
    BY DEF PlacesKnown, Places
  <1>2. QED
    BY <1>1, SizesAssumption

\* On the last card of a bus, what is left of it ends the bus.
LEMMA UpToHere ==
  ASSUME PlacesKnown, NEW p \in Procs, NEW s \in ScanRecs(p), Placed(s), s.pc # "done",
         NEW a \in Present, a[2] <= s.card
  PROVE  (\E k \in 1 .. s.bus : a[1] = s.buses[k]) <=> a \in Met(s) \/ a \in Rest(s)
  <1>1. s.bus \in Nat /\ s.bus >= 1 /\ s.card \in Nat /\ s.func \in Nat
    BY DEF Placed, ScanRecs
  <1>2. a[2] \in Nat /\ a[3] \in Nat
    BY PlaceNumbers
  <1>3. s.bus \in 1 .. s.bus
    BY <1>1
  <1>4. ASSUME NEW k \in 1 .. s.bus, a[1] = s.buses[k] PROVE a \in Met(s) \/ a \in Rest(s)
    <2>1. CASE k < s.bus \/ a[2] < s.card \/ (a[2] = s.card /\ a[3] < s.func)
      BY <1>4, <2>1 DEF Met
    <2>2. CASE k = s.bus /\ a[2] = s.card /\ a[3] >= s.func
      BY <1>4, <2>2 DEF Rest
    <2>3. QED
      BY <1>1, <1>2, <2>1, <2>2
  <1>5. QED
    BY <1>3, <1>4 DEF Met, Rest

LEMMA NextBusMet ==
  ASSUME PlacesKnown, NEW p \in Procs, NEW s \in ScanRecs(p), Placed(s), s.pc # "done",
         s.card + 1 >= Slots
  PROVE  LET t == NextBus(s)
         IN  Met(t) = Met(s) \cup Rest(s) /\ Placed(t) /\ Keeps(s, t)
  <1>1. /\ s.bus \in Nat /\ s.bus >= 1 /\ s.bus <= Len(s.buses) /\ Len(s.buses) \in Nat
        /\ s.card \in Nat /\ s.func \in Nat /\ Slots \in Nat \ {0} /\ Functions \in Nat \ {0}
    BY SizesAssumption DEF Placed, ScanRecs
  <1>2. \A a \in Present : a[2] \in Nat /\ a[3] \in Nat /\ a[2] <= s.card
    BY <1>1, PlaceNumbers
  <1>3. CASE s.bus < Len(s.buses)
    <2> DEFINE t == [s EXCEPT !.pc = "vendor", !.bus = @ + 1, !.card = 0, !.func = 0]
    <2>1. /\ t.pc = "vendor" /\ t.bus = s.bus + 1 /\ t.card = 0 /\ t.func = 0
          /\ t.buses = s.buses /\ t.hosts = s.hosts /\ t.list = s.list
      BY DEF ScanRecs
    <2> HIDE DEF t
    <2>2. Placed(t) /\ Keeps(s, t)
      BY <1>1, <1>3, <2>1 DEF Placed, Keeps
    <2>3. ASSUME NEW a \in Present
          PROVE  (\E k \in 1 .. t.bus : /\ a[1] = t.buses[k]
                                        /\ \/ t.pc = "done" \/ k < t.bus \/ a[2] < t.card
                                           \/ a[2] = t.card /\ a[3] < t.func)
                 <=> \E k \in 1 .. s.bus : a[1] = s.buses[k]
      <3>1. a[2] \in Nat /\ a[3] \in Nat
        BY <1>2
      <3>2. \A k \in 1 .. s.bus + 1 : k < s.bus + 1 <=> k \in 1 .. s.bus
        BY <1>1
      <3>3. 1 .. s.bus \subseteq 1 .. s.bus + 1
        BY <1>1
      <3>4. ~(a[2] < 0) /\ ~(a[3] < 0)
        BY <3>1
      <3>5. QED
        BY <2>1, <3>2, <3>3, <3>4
    <2>4. \A a \in Present : (\E k \in 1 .. s.bus : a[1] = s.buses[k]) <=> a \in Met(s) \/ a \in Rest(s)
      BY <1>2, UpToHere
    <2>5. Met(t) = Met(s) \cup Rest(s)
      BY <2>3, <2>4 DEF Met, Rest
    <2>6. QED
      BY <1>3, <2>2, <2>5 DEF NextBus, t
  <1>4. CASE ~(s.bus < Len(s.buses))
    <2> DEFINE t == [s EXCEPT !.pc = "done"]
    <2>1. /\ t.pc = "done" /\ t.bus = s.bus /\ t.card = s.card /\ t.func = s.func
          /\ t.buses = s.buses /\ t.hosts = s.hosts /\ t.list = s.list
      BY DEF ScanRecs
    <2> HIDE DEF t
    <2>2. Placed(t) /\ Keeps(s, t)
      BY <1>1, <1>4, <2>1 DEF Placed, Keeps
    <2>3. \A a \in Present : (\E k \in 1 .. s.bus : a[1] = s.buses[k]) <=> a \in Met(s) \/ a \in Rest(s)
      BY <1>2, UpToHere
    <2>4. Met(t) = Met(s) \cup Rest(s)
      BY <2>1, <2>3 DEF Met, Rest
    <2>5. QED
      BY <1>4, <2>2, <2>4 DEF NextBus, t
  <1>5. QED
    BY <1>3, <1>4

LEMMA NextCardMet ==
  ASSUME PlacesKnown, NEW p \in Procs, NEW s \in ScanRecs(p), Placed(s), s.pc # "done"
  PROVE  LET t == NextCard(s)
         IN  Met(t) = Met(s) \cup Rest(s) /\ Placed(t) /\ Keeps(s, t)
  <1>1. /\ s.bus \in Nat /\ s.bus >= 1 /\ s.bus <= Len(s.buses) /\ Len(s.buses) \in Nat
        /\ s.card \in Nat /\ s.func \in Nat /\ Slots \in Nat \ {0} /\ Functions \in Nat \ {0}
    BY SizesAssumption DEF Placed, ScanRecs
  <1>2. CASE s.card + 1 < Slots
    <2> DEFINE t == [s EXCEPT !.pc = "vendor", !.card = @ + 1, !.func = 0]
    <2>1. /\ t.pc = "vendor" /\ t.bus = s.bus /\ t.card = s.card + 1 /\ t.func = 0
          /\ t.buses = s.buses /\ t.hosts = s.hosts /\ t.list = s.list
      BY DEF ScanRecs
    <2> HIDE DEF t
    <2>2. Placed(t) /\ Keeps(s, t)
      BY <1>1, <1>2, <2>1 DEF Placed, Keeps
    <2>3. ASSUME NEW a \in Present PROVE a \in Met(t) <=> a \in Met(s) \/ a \in Rest(s)
      <3>1. a[2] \in Nat /\ a[3] \in Nat
        BY PlaceNumbers
      <3>2. a[2] < s.card + 1 \/ (a[2] = s.card + 1 /\ a[3] < 0)
            <=> a[2] < s.card \/ (a[2] = s.card /\ a[3] < s.func) \/ (a[2] = s.card /\ a[3] >= s.func)
        BY <1>1, <3>1, SMTT(20)
      <3>3. \A k \in 1 .. s.bus : k < s.bus \/ k = s.bus
        BY <1>1
      <3>4. s.bus \in 1 .. s.bus
        BY <1>1
      <3>5. QED
        BY <2>1, <3>2, <3>3, <3>4 DEF Met, Rest
    <2>4. Met(t) = Met(s) \cup Rest(s)
      BY <2>3 DEF Met, Rest
    <2>5. QED
      BY <1>2, <2>2, <2>4 DEF NextCard, t
  <1>3. CASE ~(s.card + 1 < Slots)
    <2>1. s.card + 1 >= Slots
      BY <1>1, <1>3
    <2>2. QED
      BY <1>3, <2>1, NextBusMet DEF NextCard
  <1>4. QED
    BY <1>2, <1>3

\* Behind a function there are others of its card, or the next card.
LEMMA NextFunctionMet ==
  ASSUME PlacesKnown, WellNumbered(machine), NEW p \in Procs, NEW s \in ScanRecs(p), Placed(s),
         s.pc # "done", Here(s) \in Present
  PROVE  LET t == NextFunction(s, machine[Here(s)])
         IN  Met(t) = Met(s) \cup {Here(s)} /\ Placed(t) /\ Keeps(s, t)
  <1> DEFINE h == Here(s)
             d == machine[h]
  <1>1. /\ s.bus \in Nat /\ s.bus >= 1 /\ s.bus <= Len(s.buses) /\ Len(s.buses) \in Nat
        /\ s.card \in Nat /\ s.func \in Nat /\ Slots \in Nat \ {0} /\ Functions \in Nat \ {0}
    BY SizesAssumption DEF Placed, ScanRecs
  <1>2. h = <<s.buses[s.bus], s.card, s.func>> /\ h \in Present
    BY DEF Here
  <1>3. \A a \in Present : a[1] = h[1] /\ a[2] = h[2] /\ a[3] = h[3] => a = h
    BY PlaceNumbers
  <1>4. h[1] = s.buses[s.bus] /\ h[2] = s.card /\ h[3] = s.func
    BY <1>2
  <1> HIDE DEF h
  <1>5. CASE (s.func # 0 \/ d.multi) /\ s.func + 1 < Functions
    <2> DEFINE t == [s EXCEPT !.pc = "vendor", !.func = @ + 1]
    <2>1. /\ t.pc = "vendor" /\ t.bus = s.bus /\ t.card = s.card /\ t.func = s.func + 1
          /\ t.buses = s.buses /\ t.hosts = s.hosts /\ t.list = s.list
      BY DEF ScanRecs
    <2> HIDE DEF t
    <2>2. Placed(t) /\ Keeps(s, t)
      BY <1>1, <1>5, <2>1 DEF Placed, Keeps
    <2>3. ASSUME NEW a \in Present PROVE a \in Met(t) <=> a \in Met(s) \/ a = h
      <3>1. a[2] \in Nat /\ a[3] \in Nat
        BY PlaceNumbers
      <3>2. a[3] < s.func + 1 <=> a[3] < s.func \/ a[3] = s.func
        BY <1>1, <3>1
      <3>3. \A k \in 1 .. s.bus : k < s.bus \/ k = s.bus
        BY <1>1
      <3>4. s.bus \in 1 .. s.bus
        BY <1>1
      <3>5. a = h => a[1] = s.buses[s.bus] /\ a[2] = s.card /\ a[3] = s.func
        BY <1>4
      <3>6. a[1] = s.buses[s.bus] /\ a[2] = s.card /\ a[3] = s.func => a = h
        BY <1>3, <1>4
      <3>7. QED
        BY <2>1, <3>2, <3>3, <3>4, <3>5, <3>6 DEF Met
    <2>4. Met(t) = Met(s) \cup {h}
      BY <1>2, <2>3 DEF Met
    <2>5. QED
      BY <1>5, <2>2, <2>4 DEF NextFunction, t, h
  <1>6. CASE ~((s.func # 0 \/ d.multi) /\ s.func + 1 < Functions)
    <2>1. Rest(s) = {h}
      <3>1. h \in Rest(s)
        BY <1>1, <1>2, <1>4 DEF Rest
      <3>2. ASSUME NEW a \in Rest(s) PROVE a = h
        <4>1. a \in Present /\ a[1] = h[1] /\ a[2] = h[2] /\ a[3] >= s.func
          BY <1>4 DEF Rest
        <4>2. a[3] \in Nat /\ a[3] < Functions
          BY <4>1, PlaceNumbers
        <4>3. CASE ~(s.func + 1 < Functions)
          BY <1>1, <1>3, <1>4, <4>1, <4>2, <4>3
        <4>4. CASE s.func = 0 /\ ~d.multi
          <5>1. h = <<a[1], a[2], 0>>
            BY <1>2, <1>4, <4>1, <4>4
          <5>2. ~(a[3] > 0)
            BY <4>1, <4>4, <5>1 DEF WellNumbered, Present
          <5>3. QED
            BY <1>3, <1>4, <4>1, <4>2, <4>4, <5>2
        <4>5. QED
          BY <1>6, <4>3, <4>4
      <3>3. QED
        BY <3>1, <3>2
    <2>2. NextFunction(s, d) = NextCard(s)
      BY <1>6 DEF NextFunction
    <2>3. QED
      BY <2>1, <2>2, NextCardMet DEF h
  <1>7. QED
    BY <1>5, <1>6

\* Where nothing is, the card has no more functions.
LEMMA NothingMet ==
  ASSUME PlacesKnown, WellNumbered(machine), NEW p \in Procs, NEW s \in ScanRecs(p), Placed(s),
         Here(s) \notin Present
  PROVE  Rest(s) = {}
  <1>1. s.func \in Nat
    BY DEF ScanRecs
  <1> SUFFICES ASSUME NEW a \in Rest(s) PROVE FALSE
    OBVIOUS
  <1>2. a \in Present /\ a[1] = s.buses[s.bus] /\ a[2] = s.card /\ a[3] >= s.func
    BY DEF Rest
  <1>3. a[3] \in Nat
    BY <1>2, PlaceNumbers
  <1>4. s.func \in 0 .. a[3]
    BY <1>1, <1>2, <1>3
  <1>5. <<a[1], a[2], s.func>> \in Present
    BY <1>2, <1>4 DEF WellNumbered, Present
  <1>6. QED
    BY <1>2, <1>5 DEF Here

\* A place is met once.
LEMMA HereNotMet ==
  ASSUME PlacesKnown, NEW p \in Procs, NEW s \in ScanRecs(p), Placed(s), s.pc # "done",
         Charted(s.buses, Met(s)), Here(s) \in Present
  PROVE  Here(s) \notin Met(s)
  <1> DEFINE h == Here(s)
  <1>1. h[1] = s.buses[s.bus] /\ h[2] = s.card /\ h[3] = s.func
    BY DEF Here
  <1>2. s.card \in Nat /\ s.func \in Nat /\ s.bus \in 1 .. Len(s.buses) /\ Len(s.buses) \in Nat
    BY DEF ScanRecs, Placed
  <1>3. \A k \in 1 .. s.bus : s.buses[k] = s.buses[s.bus] => k = s.bus
    BY <1>2 DEF Charted
  <1> HIDE DEF h
  <1>4. h \notin Met(s)
    BY <1>1, <1>2, <1>3 DEF Met
  <1>5. QED
    BY <1>4 DEF h

-----------------------------------------------------------------------------
(***************************************************************************)
(* What a walk does at a place.                                            *)
(***************************************************************************)

\* The bus behind a bridge is not in the table before the bridge is met.
LEMMA BusIsNew ==
  ASSUME WellNumbered(machine), NEW buses \in Seq(Nat), NEW V, V \subseteq Present,
         NEW h \in Present, h \notin V, Charted(buses, V), Leads(machine[h]),
         machine[h].secondary \in Nat
  PROVE  Charted(Append(buses, machine[h].secondary), V \cup {h})
  <1> DEFINE n == Len(buses)
             b == machine[h].secondary
             c == Append(buses, b)
  <1>1. n \in Nat /\ n > 0 /\ Len(c) = n + 1 /\ c[n + 1] = b /\ \A k \in 1 .. n : c[k] = buses[k]
    BY DEF Charted
  <1>2. \A k \in 1 .. n : buses[k] # b
    <2> SUFFICES ASSUME NEW k \in 1 .. n, buses[k] = b PROVE FALSE
      OBVIOUS
    <2>1. k # 1
      BY DEF Charted, Leads
    <2>2. PICK a \in V : Leads(machine[a]) /\ machine[a].secondary = b
      BY <1>1, <2>1 DEF Charted
    <2>3. a = h
      BY <2>2 DEF WellNumbered, Present
    <2>4. QED
      BY <2>2, <2>3
  <1>3. \A k, j \in 1 .. n : buses[k] = buses[j] => k = j
    BY DEF Charted
  <1>4. \A k \in 2 .. n : \E a \in V : Leads(machine[a]) /\ machine[a].secondary = buses[k]
    BY DEF Charted
  <1>5. \A a \in V : Leads(machine[a]) => \E k \in 1 .. n : machine[a].secondary = buses[k]
    BY DEF Charted
  <1>6. buses[1] = 0
    BY DEF Charted
  <1> HIDE DEF n, c, b
  <1>7. \A k \in 1 .. n + 1 : k \in 1 .. n \/ k = n + 1
    BY <1>1
  <1>8. \A k, j \in 1 .. n + 1 : c[k] = c[j] => k = j
    BY <1>1, <1>2, <1>3, <1>7
  <1>9. \A k \in 2 .. n + 1 : \E a \in V \cup {h} :
          Leads(machine[a]) /\ machine[a].secondary = c[k]
    <2> TAKE k \in 2 .. n + 1
    <2>1. CASE k = n + 1
      BY <1>1, <2>1 DEF b
    <2>2. CASE k # n + 1
      <3>1. k \in 2 .. n /\ k \in 1 .. n
        BY <1>1, <2>2
      <3>2. QED
        BY <1>1, <1>4, <3>1
    <2>3. QED
      BY <2>1, <2>2
  <1>10. \A a \in V \cup {h} : Leads(machine[a]) =>
           \E k \in 1 .. n + 1 : machine[a].secondary = c[k]
    <2> SUFFICES ASSUME NEW a \in V \cup {h}, Leads(machine[a])
                 PROVE  \E k \in 1 .. n + 1 : machine[a].secondary = c[k]
      OBVIOUS
    <2>1. n + 1 \in 1 .. n + 1 /\ 1 .. n \subseteq 1 .. n + 1
      BY <1>1
    <2>2. CASE a = h
      BY <1>1, <2>1, <2>2 DEF b
    <2>3. CASE a \in V
      <3>1. PICK k \in 1 .. n : machine[a].secondary = buses[k]
        BY <1>5, <2>3
      <3>2. QED
        BY <1>1, <2>1, <3>1
    <2>4. QED
      BY <2>2, <2>3
  <1>11. 1 \in 1 .. n
    BY <1>1
  <1>12. Charted(c, V \cup {h})
    BY <1>1, <1>6, <1>8, <1>9, <1>10, <1>11 DEF Charted
  <1>13. QED
    BY <1>12 DEF b, c

\* What leads nowhere adds no bus.
LEMMA NoBusIsNew ==
  ASSUME NEW buses, NEW V, NEW h, Charted(buses, V), ~Leads(machine[h])
  PROVE  Charted(buses, V \cup {h})
  BY DEF Charted

\* A bridge, the host bridge or a device.
LEMMA EnterMet ==
  ASSUME PlacesKnown, WellNumbered(machine), NEW p \in Procs, NEW s \in ScanRecs(p), Placed(s),
         s.pc # "done", Here(s) \in Present, machine[Here(s)].secondary \in Nat,
         Charted(s.buses, Met(s)),
         s.hosts > 0 => \E a \in Met(s) : machine[a].kind = "host"
  PROVE  LET u == Enter(s, machine[Here(s)])
             V == Met(s) \cup {Here(s)}
         IN  /\ u.pc = s.pc /\ u.list = s.list /\ Placed(u) /\ Here(u) = Here(s)
             /\ Met(u) = Met(s) /\ Charted(u.buses, V)
             /\ u.hosts > 0 => \E a \in V : machine[a].kind = "host"
  <1> DEFINE h == Here(s)
             d == machine[h]
             V == Met(s) \cup {h}
  <1>1. h \in Present /\ h \notin Met(s) /\ Met(s) \subseteq Present
    BY HereNotMet DEF Met
  <1>2. s.buses \in Seq(Nat) /\ s.bus \in 1 .. Len(s.buses) /\ Len(s.buses) \in Nat
    BY DEF ScanRecs, Placed
  <1>3. CASE Leads(d)
    <2> DEFINE u == [s EXCEPT !.buses = Append(@, d.secondary)]
    <2>1. Enter(s, d) = u
      BY <1>3 DEF Enter, Leads
    <2>2. /\ u.pc = s.pc /\ u.list = s.list /\ u.bus = s.bus /\ u.card = s.card /\ u.func = s.func
          /\ u.hosts = s.hosts /\ u.buses = Append(s.buses, d.secondary)
      BY DEF ScanRecs
    <2>3. Charted(u.buses, V)
      BY <1>1, <1>2, <1>3, <2>2, BusIsNew
    <2>4. Len(u.buses) = Len(s.buses) + 1 /\ \A k \in 1 .. Len(s.buses) : u.buses[k] = s.buses[k]
      BY <1>2, <2>2
    <2> HIDE DEF u, d, h
    <2>5. \A k \in 1 .. s.bus : u.buses[k] = s.buses[k]
      BY <1>2, <2>4
    <2>6. Placed(u)
      BY <1>2, <2>2, <2>4 DEF Placed
    <2>7. Met(u) = Met(s)
      BY <2>2, <2>5 DEF Met
    <2>8. Here(u) = Here(s)
      BY <1>2, <2>2, <2>5 DEF Here
    <2>9. QED
      BY <2>1, <2>2, <2>3, <2>6, <2>7, <2>8 DEF h, d
  <1>4. CASE d.kind = "host"
    <2>1. ~(s.hosts > 0)
      <3> SUFFICES ASSUME s.hosts > 0 PROVE FALSE
        OBVIOUS
      <3>1. PICK a \in Met(s) : machine[a].kind = "host"
        OBVIOUS
      <3>2. a = h
        BY <1>1, <1>4, <3>1 DEF WellNumbered, Present
      <3>3. QED
        BY <1>1, <3>2
    <2> DEFINE u == [s EXCEPT !.hosts = @ + 1, !.buses = s.buses]
    <2>2. Enter(s, d) = u
      BY <1>4, <2>1 DEF Enter, Leads
    <2>3. /\ u.pc = s.pc /\ u.list = s.list /\ u.bus = s.bus /\ u.card = s.card /\ u.func = s.func
          /\ u.buses = s.buses
      BY DEF ScanRecs
    <2>4. ~Leads(d)
      BY <1>4 DEF Leads
    <2>5. \E a \in V : machine[a].kind = "host"
      BY <1>4
    <2>6. Charted(s.buses, V)
      BY <2>4, NoBusIsNew
    <2> HIDE DEF u, d, h
    <2>7. Placed(u) /\ Met(u) = Met(s) /\ Here(u) = Here(s)
      BY <2>3 DEF Placed, Met, Here
    <2>8. QED
      BY <2>2, <2>3, <2>5, <2>6, <2>7 DEF h, d
  <1>5. CASE ~Leads(d) /\ d.kind # "host"
    <2>1. Enter(s, d) = s
      BY <1>5 DEF Enter
    <2>2. Charted(s.buses, V)
      BY <1>5, NoBusIsNew
    <2> HIDE DEF d, h
    <2>3. QED
      BY <2>1, <2>2 DEF h, d
  <1>6. QED
    BY <1>3, <1>4, <1>5

LEMMA LeastGrows ==
  ASSUME NEW n \in Nat
  PROVE  /\ n < MaxDevices => Least(MaxDevices, n) = n /\ Least(MaxDevices, n + 1) = n + 1
         /\ n >= MaxDevices => /\ Least(MaxDevices, n) = MaxDevices
                               /\ Least(MaxDevices, n + 1) = MaxDevices
  BY SizesAssumption DEF Least

LEMMA IdentifyListed ==
  ASSUME NEW p \in Procs, Via[p] = "ports", NEW s \in ScanRecs(p), Here(s) \in Present,
         s.id = Here(s), Here(s) \notin Met(s),
         Listed(s.list, Met(s), Least(MaxDevices, Cardinality(Met(s))))
  PROVE  LET h == Here(s)
             t == Identify(s, machine[h], h, {})
         IN  /\ t.buses = s.buses /\ t.bus = s.bus /\ t.card = s.card /\ t.func = s.func
             /\ t.hosts = s.hosts /\ t.pc = s.pc
             /\ Listed(t.list, Met(s) \cup {h}, Least(MaxDevices, Cardinality(Met(s) \cup {h})))
  <1> DEFINE h == Here(s)
             e == [at |-> h, id |-> s.id, rest |-> h, io |-> machine[h].io,
                   base |-> [i \in 0 .. 5 |-> BaseOf(machine[h].base, i, {})]]
             n == Cardinality(Met(s))
  <1>1. n \in Nat /\ Cardinality(Met(s) \cup {h}) = n + 1
    BY FS_CardinalityType, FS_AddElement DEF Listed
  <1>2. e.at = h /\ e \in EntrySet(p)
    <2>1. e = Own(h)
      BY DEF Own
    <2>2. QED
      BY <2>1 DEF EntrySet
  <1> HIDE DEF e
  <1>3. s.list \in Seq(EntrySet(p))
    BY DEF ScanRecs
  <1>4. Len(s.list) = Least(MaxDevices, n)
    BY DEF Listed
  <1>5. CASE n >= MaxDevices
    <2>1. Identify(s, machine[h], h, {}) = s
      BY <1>1, <1>4, <1>5, LeastGrows, SizesAssumption DEF Identify
    <2>2. Listed(s.list, Met(s) \cup {h}, Least(MaxDevices, n))
      BY ListedStays
    <2>3. Least(MaxDevices, n) = Least(MaxDevices, n + 1)
      BY <1>1, <1>5, LeastGrows
    <2> HIDE DEF h, n
    <2>4. QED
      BY <1>1, <2>1, <2>2, <2>3 DEF h
  <1>6. CASE n < MaxDevices
    <2> DEFINE t == [s EXCEPT !.list = Append(s.list, e)]
    <2>1. Least(MaxDevices, n) = n /\ Least(MaxDevices, n + 1) = n + 1
      BY <1>1, <1>6, LeastGrows
    <2>2. Identify(s, machine[h], h, {}) = t
      BY <1>1, <1>4, <1>6, <2>1, SizesAssumption DEF Identify, e
    <2>3. Listed(Append(s.list, e), Met(s) \cup {h}, n + 1)
      BY <1>2, <1>3, <2>1, ListedGrows
    <2>4. /\ t.buses = s.buses /\ t.bus = s.bus /\ t.card = s.card /\ t.func = s.func
          /\ t.hosts = s.hosts /\ t.pc = s.pc /\ t.list = Append(s.list, e)
      BY DEF ScanRecs
    <2> HIDE DEF h, n, t
    <2>5. QED
      BY <1>1, <2>1, <2>2, <2>3, <2>4 DEF h
  <1>7. QED
    BY <1>1, <1>5, <1>6, SizesAssumption

\* A function is read, and the walk goes on.
LEMMA RestWalked ==
  ASSUME PlacesKnown, WellNumbered(machine), NEW p \in Procs, Via[p] = "ports",
         NEW s \in ScanRecs(p), Walked(s), s.pc = "restData", Here(s) \in Present,
         s.id = Here(s), machine[Here(s)].secondary \in Nat
  PROVE  LET d == machine[Here(s)]
         IN  Walked(NextFunction(Enter(Identify(s, d, Here(s), {}), d), d))
  <1> DEFINE h == Here(s)
             d == machine[h]
             t == Identify(s, d, h, {})
             u == Enter(t, d)
             w == NextFunction(u, d)
             V == Met(s) \cup {h}
  <1>1. h \in Present /\ h \notin Met(s)
    BY HereNotMet DEF Walked
  <1>2. t \in ScanRecs(p)
    BY IdentifyGoes
  <1>3. /\ t.buses = s.buses /\ t.bus = s.bus /\ t.card = s.card /\ t.func = s.func
        /\ t.hosts = s.hosts /\ t.pc = s.pc
        /\ Listed(t.list, V, Least(MaxDevices, Cardinality(V)))
    BY <1>1, IdentifyListed DEF Walked
  <1> HIDE DEF t
  <1>4. Here(t) = h /\ Met(t) = Met(s) /\ Placed(t)
    BY <1>3 DEF Here, Met, Placed, Walked
  <1>5. u \in ScanRecs(p)
    BY <1>2, EnterGoes
  <1>6. /\ u.pc = t.pc /\ u.list = t.list /\ Placed(u) /\ Here(u) = h
        /\ Met(u) = Met(s) /\ Charted(u.buses, V)
        /\ u.hosts > 0 => \E a \in V : machine[a].kind = "host"
    BY <1>1, <1>2, <1>3, <1>4, EnterMet DEF Walked
  <1> HIDE DEF u
  <1>7. Met(w) = V /\ Placed(w) /\ Keeps(u, w)
    BY <1>1, <1>3, <1>5, <1>6, NextFunctionMet
  <1> HIDE DEF w, V
  <1>8. Walked(w)
    BY <1>3, <1>6, <1>7 DEF Walked, Keeps
  <1>9. QED
    BY <1>8 DEF w, u, t

\* There is no function, and the walk goes on.
LEMMA NothingWalked ==
  ASSUME PlacesKnown, WellNumbered(machine), NEW p \in Procs, NEW s \in ScanRecs(p), Walked(s),
         s.pc # "done", Here(s) \notin Present
  PROVE  Walked(NextCard(s))
  <1>1. Placed(s) /\ Rest(s) = {}
    BY NothingMet DEF Walked
  <1> DEFINE t == NextCard(s)
  <1>2. Met(t) = Met(s) /\ Placed(t) /\ Keeps(s, t)
    BY <1>1, NextCardMet
  <1> HIDE DEF t
  <1>3. Walked(t)
    BY <1>2 DEF Walked, Keeps
  <1>4. QED
    BY <1>3 DEF t

\* A walk of a tree that has ended has been to every function: the function of the lowest
\* bus it has not been to would be behind a bridge it has met.
LEMMA AllMet ==
  ASSUME PlacesKnown, WellNumbered(machine), NEW s, Walked(s), s.pc = "done"
  PROVE  Met(s) = Present
  <1> DEFINE left == Present \ Met(s)
             S == {a[1] : a \in left}
  <1>1. Met(s) \subseteq Present
    BY DEF Met
  <1>2. CASE left = {}
    BY <1>1, <1>2
  <1>3. CASE left # {}
    <2>1. S \subseteq Nat /\ S # {}
      BY <1>3, PlaceNumbers
    <2> HIDE DEF S
    <2>2. PICK x \in S : \A y \in S : x <= y
      BY <2>1, NatLeast
    <2>3. PICK a \in left : a[1] = x
      BY <2>2 DEF S
    <2>4. \A k \in 1 .. Len(s.buses) : a[1] # s.buses[k]
      BY <2>3 DEF Met, Walked, Placed
    <2>5. a[1] # 0
      BY <2>4 DEF Walked, Charted, Placed
    <2>6. PICK b \in Present : Leads(machine[b]) /\ machine[b].secondary = a[1] /\ b[1] < a[1]
      BY <2>3, <2>5 DEF WellNumbered, Present
    <2>7. b \notin left
      <3>1. ASSUME b \in left PROVE FALSE
        <4>1. b[1] \in S
          BY <3>1 DEF S
        <4>2. b[1] \in Nat /\ a[1] \in Nat /\ x <= b[1]
          BY <2>1, <2>2, <2>3, <4>1
        <4>3. QED
          BY <2>3, <2>6, <4>2
      <3>2. QED
        BY <3>1
    <2>8. \E k \in 1 .. Len(s.buses) : s.buses[k] = a[1]
      BY <2>6, <2>7 DEF Walked, Charted
    <2>9. QED
      BY <2>4, <2>8
  <1>4. QED
    BY <1>2, <1>3

LEMMA ImpliesComplete ==
  ASSUME IInv, CompleteInv, Crowded, Undisturbed, Trees
  PROVE  Complete
  <1> SUFFICES ASSUME NEW p \in Procs, Done(p)
      PROVE  LET all == Cardinality(Present) IN
             /\ Ats(scan[p].list) \subseteq Present
             /\ Cardinality(Ats(scan[p].list)) = Len(scan[p].list)
             /\ Len(scan[p].list) = IF Via[p] = "helper" THEN all ELSE Least(MaxDevices, all)
    BY DEF Complete, Crowded, Ats, Entries
  <1>1. Counted(p) /\ scan[p].pc = "done"
    BY DEF CompleteInv, Done
  <1>2. CASE Via[p] = "helper"
    BY <1>1, <1>2 DEF Counted, Asked, Listed
  <1>3. CASE Via[p] # "helper"
    <2>1. Walked(scan[p])
      BY <1>1, <1>3 DEF Counted
    <2>2. PlacesKnown /\ WellNumbered(machine)
      BY MachinesAssumption DEF IInv, ScanTyped, Trees, IsMachine, PlacesKnown, Present
    <2>3. Met(scan[p]) = Present
      BY <1>1, <2>1, <2>2, AllMet
    <2>4. QED
      BY <1>3, <2>1, <2>3 DEF Walked, Listed
  <1>4. QED
    BY <1>2, <1>3

-----------------------------------------------------------------------------
(***************************************************************************)
(* The steps, counted.                                                     *)
(***************************************************************************)

LEMMA SameWalk ==
  ASSUME machine' = machine, NEW p \in Procs, NEW r, scan'[p] = r
  PROVE  Walked(scan[p])' <=> Walked(r)
  <1>1. Present' = Present
    BY DEF Present
  <1>2. Met(scan[p])' = Met(r)
    BY <1>1 DEF Met
  <1>3. Listed(scan[p].list, Met(scan[p]), Least(MaxDevices, Cardinality(Met(scan[p]))))'
        <=> Listed(r.list, Met(r), Least(MaxDevices, Cardinality(Met(r))))
    BY <1>1, <1>2 DEF Listed
  <1>4. Charted(scan[p].buses, Met(scan[p]))' <=> Charted(r.buses, Met(r))
    BY <1>2 DEF Charted
  <1>5. QED
    BY <1>2, <1>3, <1>4 DEF Walked, Placed

\* Others count what they counted.
LEMMA CountMoves ==
  ASSUME IInv, CompleteInv, OneHelper, machine' = machine,
         NEW p \in Procs, NEW r, scan' = [scan EXCEPT ![p] = r],
         cursor' = cursor \/ Via[p] = "helper",
         Counted(p)'
  PROVE  CompleteInv'
  <1> SUFFICES ASSUME NEW q \in Procs PROVE Counted(q)'
    BY DEF CompleteInv
  <1>1. CASE q = p
    BY <1>1
  <1>2. CASE q # p
    <2>1. scan'[q] = scan[q]
      BY <1>2 DEF IInv, ScanTyped
    <2>2. Counted(q)
      BY DEF CompleteInv
    <2>3. Present' = Present
      BY DEF Present
    <2>4. CASE Via[q] = "helper"
      <3>1. cursor' = cursor
        BY <1>2, <2>4 DEF OneHelper
      <3>2. (Present \ After(cursor))' = Present \ After(cursor)
        BY <2>3, <3>1 DEF After
      <3>3. Asked(scan[q])' <=> Asked(scan[q])
        BY <2>1, <2>3, <3>1, <3>2 DEF Asked, Listed
      <3>4. QED
        BY <2>2, <2>3, <2>4, <3>1, <3>3 DEF Counted
    <2>5. CASE Via[q] # "helper"
      BY <2>1, <2>2, <2>5, SameWalk DEF Counted
    <2>6. QED
      BY <2>4, <2>5
  <1>3. QED
    BY <1>1, <1>2

\* A walk by itself.
LEMMA WalkMoves ==
  ASSUME IInv, CompleteInv, OneHelper, UNCHANGED <<machine, cursor>>,
         NEW p \in Procs, Via[p] # "helper", NEW r, scan' = [scan EXCEPT ![p] = r],
         r.pc # "idle" => Walked(r)
  PROVE  CompleteInv'
  <1>1. scan'[p] = r
    BY DEF IInv, ScanTyped
  <1>2. Counted(p)'
    BY <1>1, SameWalk DEF Counted
  <1>3. QED
    BY <1>2, CountMoves

LEMMA FindCounted ==
  ASSUME IInv, CompleteInv, Undisturbed, OneHelper, NEW p \in Procs, Find(p)
  PROVE  CompleteInv'
  <1> DEFINE told == Present \ After(cursor)
  <1>1. /\ Via[p] = "helper" /\ scan[p] \in ScanRecs(p) /\ scan[p].pc = "find"
        /\ machine' = machine
    BY DEF IInv, WalkInv, ScanTyped, Find
  <1>2. cursor \in Present \cup {None} /\ Listed(scan[p].list, told, Cardinality(told))
    BY <1>1 DEF CompleteInv, Counted, Asked
  <1>3. Present \subseteq Places /\ IsFiniteSet(Present)
    BY MachinesAssumption DEF IInv, ScanTyped, IsMachine, Present
  <1>4. Present' = Present
    BY <1>1 DEF Present
  <1>5. CASE After(cursor) = {}
    <2> DEFINE r == [scan[p] EXCEPT !.pc = "done"]
    <2>1. cursor' = None /\ scan' = [scan EXCEPT ![p] = r]
      BY <1>5 DEF Find
    <2>2. r.pc = "done" /\ r.list = scan[p].list
      BY <1>1 DEF ScanRecs
    <2> HIDE DEF r
    <2>3. scan'[p] = r
      BY <2>1 DEF IInv, ScanTyped
    <2>4. told = Present
      BY <1>5
    <2>5. Listed(r.list, Present, Cardinality(Present))
      BY <1>2, <2>2, <2>4
    <2>6. Listed(scan[p].list, Present, Cardinality(Present))'
      BY <1>4, <2>3, <2>5 DEF Listed
    <2>7. Asked(scan[p])'
      BY <2>1, <2>2, <2>3, <2>6 DEF Asked
    <2>8. Counted(p)'
      BY <1>1, <2>1, <2>7 DEF Counted
    <2>9. QED
      BY <1>1, <2>1, <2>8, CountMoves
  <1>6. CASE After(cursor) # {}
    <2> DEFINE f == First(After(cursor))
               r == [scan[p] EXCEPT !.list = Append(@, Told(f))]
               now == Present \ After(f)
    <2>1. cursor' = f /\ scan' = [scan EXCEPT ![p] = r]
      BY <1>6 DEF Find
    <2>2. f \in After(cursor) /\ f \in Present /\ f # None /\ After(f) = After(cursor) \ {f}
      BY <1>2, <1>3, <1>6, AfterFirst
    <2>3. Told(f) \in EntrySet(p) /\ Told(f).at = f
      BY <1>1, <2>2 DEF EntrySet, Told
    <2>4. r.pc = "find" /\ r.list = Append(scan[p].list, Told(f)) /\ scan[p].list \in Seq(EntrySet(p))
      BY <1>1 DEF ScanRecs
    <2>5. now = told \cup {f} /\ f \notin told
      BY <2>2
    <2>6. Cardinality(now) = Cardinality(told) + 1
      <3>1. IsFiniteSet(told)
        BY <1>2 DEF Listed
      <3> HIDE DEF told, now, f
      <3>2. Cardinality(told \cup {f}) = Cardinality(told) + 1
        BY <2>5, <3>1, FS_AddElement
      <3>3. QED
        BY <2>5, <3>2
    <2>7. Listed(r.list, now, Cardinality(now))
      BY <1>2, <2>2, <2>3, <2>4, <2>5, <2>6, ListedGrows
    <2> HIDE DEF r, f
    <2>8. scan'[p] = r
      BY <2>1 DEF IInv, ScanTyped
    <2>9. (Present \ After(cursor))' = now
      <3>1. After(cursor)' = After(f)
        BY <1>4, <2>1, Zenon DEF After
      <3>2. QED
        BY <1>4, <3>1
    <2>10. Listed(scan[p].list, Present \ After(cursor), Cardinality(Present \ After(cursor)))'
      BY <1>4, <2>7, <2>8, <2>9 DEF Listed
    <2>11. Asked(scan[p])'
      BY <2>4, <2>8, <2>10 DEF Asked
    <2>12. Counted(p)'
      BY <1>1, <1>4, <2>1, <2>2, <2>11 DEF Counted
    <2>13. QED
      BY <1>1, <2>1, <2>12, CountMoves
  <1>7. QED
    BY <1>5, <1>6

LEMMA SelectCounted ==
  ASSUME IInv, CompleteInv, OneHelper, NEW p \in Procs, Select(p)
  PROVE  CompleteInv'
  <1> DEFINE r == [scan[p] EXCEPT !.pc = IF @ = "vendor" THEN "vendorData" ELSE "restData"]
  <1>1. /\ Via[p] = "ports" /\ scan[p].pc \in {"vendor", "rest"} /\ scan' = [scan EXCEPT ![p] = r]
        /\ UNCHANGED <<machine, cursor>> /\ scan[p] \in ScanRecs(p)
    BY DEF Select, IInv, ScanTyped
  <1>2. Walked(scan[p])
    BY <1>1 DEF CompleteInv, Counted
  <1>3. /\ r.pc \in {"vendorData", "restData"} /\ r.buses = scan[p].buses /\ r.bus = scan[p].bus
        /\ r.card = scan[p].card /\ r.func = scan[p].func /\ r.hosts = scan[p].hosts
        /\ r.list = scan[p].list
    BY <1>1 DEF ScanRecs
  <1> HIDE DEF r
  <1>4. Met(r) = Met(scan[p])
    BY <1>1, <1>3 DEF Met
  <1>5. Walked(r)
    BY <1>2, <1>3, <1>4 DEF Walked, Placed
  <1>6. QED
    BY <1>1, <1>5, WalkMoves

LEMMA VendorCounted ==
  ASSUME IInv, CompleteInv, Undisturbed, OneHelper, Trees, NEW p \in Procs, ReadVendor(p)
  PROVE  CompleteInv'
  <1>1. /\ scan[p] \in ScanRecs(p) /\ Via[p] = "ports" /\ scan[p].pc = "vendorData"
        /\ address = Here(scan[p]) /\ UNCHANGED <<machine, cursor>>
    BY DEF IInv, ScanTyped, WalkInv, ReadVendor, Walking
  <1>2. Walked(scan[p])
    BY <1>1 DEF CompleteInv, Counted
  <1>3. PlacesKnown /\ WellNumbered(machine)
    BY MachinesAssumption DEF IInv, ScanTyped, Trees, IsMachine, PlacesKnown, Present
  <1>4. CASE address \in Present
    <2> DEFINE r == [scan[p] EXCEPT !.pc = "rest", !.id = address]
    <2>1. scan' = [scan EXCEPT ![p] = r]
      BY <1>1, <1>4 DEF ReadVendor, Reads
    <2>2. /\ r.pc = "rest" /\ r.buses = scan[p].buses /\ r.bus = scan[p].bus
          /\ r.card = scan[p].card /\ r.func = scan[p].func /\ r.hosts = scan[p].hosts
          /\ r.list = scan[p].list
      BY <1>1 DEF ScanRecs
    <2> HIDE DEF r
    <2>3. Met(r) = Met(scan[p])
      BY <1>1, <2>2 DEF Met
    <2>4. Walked(r)
      BY <1>2, <2>2, <2>3 DEF Walked, Placed
    <2>5. QED
      BY <1>1, <2>1, <2>4, WalkMoves
  <1>5. CASE address \notin Present
    <2>1. scan' = [scan EXCEPT ![p] = NextCard(scan[p])]
      BY <1>1, <1>5 DEF ReadVendor, Reads
    <2>2. Walked(NextCard(scan[p]))
      BY <1>1, <1>2, <1>3, <1>5, NothingWalked
    <2>3. QED
      BY <1>1, <2>1, <2>2, WalkMoves
  <1>6. QED
    BY <1>4, <1>5

LEMMA RestCounted ==
  ASSUME IInv, CompleteInv, Undisturbed, OneHelper, Trees, NEW p \in Procs, ReadRest(p)
  PROVE  CompleteInv'
  <1> DEFINE h == Here(scan[p])
             d == machine[h]
             r == NextFunction(Enter(Identify(scan[p], d, h, {}), d), d)
             o == [scan[p] EXCEPT !.pc = "overrun"]
  <1>1. /\ scan[p] \in ScanRecs(p) /\ Via[p] = "ports" /\ scan[p].pc = "restData"
        /\ address = h /\ h \in Present /\ scan[p].id = h
        /\ UNCHANGED <<machine, cursor>> /\ machine \in Machines
    BY DEF IInv, ScanTyped, WalkInv, ReadRest, Walking
  <1>2. Walked(scan[p])
    BY <1>1 DEF CompleteInv, Counted
  <1>3. PlacesKnown /\ WellNumbered(machine) /\ d.secondary \in Nat
    BY <1>1, MachinesAssumption DEF Trees, IsMachine, PlacesKnown, Present
  <1>4. scan' = [scan EXCEPT ![p] = r] \/ scan' = [scan EXCEPT ![p] = o]
    <2>1. Read(Reads(p)) = d /\ Reads(p) = h
      BY <1>1 DEF Read, Reads
    <2>2. QED
      BY <1>1, <2>1 DEF ReadRest
  <1>5. Walked(r)
    BY <1>1, <1>2, <1>3, RestWalked
  <1>6. /\ o.pc = "overrun" /\ o.buses = scan[p].buses /\ o.bus = scan[p].bus
        /\ o.card = scan[p].card /\ o.func = scan[p].func /\ o.hosts = scan[p].hosts
        /\ o.list = scan[p].list
    BY <1>1 DEF ScanRecs
  <1> HIDE DEF r, o
  <1>7. Met(o) = Met(scan[p])
    BY <1>1, <1>6 DEF Met
  <1>8. Walked(o)
    BY <1>2, <1>6, <1>7 DEF Walked, Placed
  <1>9. QED
    BY <1>1, <1>4, <1>5, <1>8, WalkMoves

\* Nothing is met before the first place.
Fresh(s) ==
  /\ s.pc # "done" /\ s.buses = <<0>> /\ s.bus = 1 /\ s.card = 0 /\ s.func = 0
  /\ s.hosts = 0 /\ s.list = <<>>

LEMMA NothingYet ==
  ASSUME PlacesKnown, NEW s, Fresh(s)
  PROVE  Walked(s) /\ Listed(s.list, {}, 0)
  <1> USE DEF Fresh
  <1>1. Met(s) = {}
    <2> SUFFICES ASSUME NEW a \in Met(s) PROVE FALSE
      OBVIOUS
    <2>1. a \in Present /\ \E k \in 1 .. 1 : k < 1 \/ a[2] < 0 \/ a[3] < 0
      BY DEF Met
    <2>2. a[2] \in Nat /\ a[3] \in Nat
      BY <2>1, PlaceNumbers
    <2>3. QED
      BY <2>1, <2>2
  <1>2. Ats(<<>>) = {}
    BY DEF Ats, Range
  <1>3. IsFiniteSet({}) /\ Cardinality({}) = 0
    BY FS_EmptySet
  <1>4. Listed(<<>>, {}, 0)
    BY <1>2, <1>3 DEF Listed
  <1>5. Least(MaxDevices, 0) = 0
    BY SizesAssumption DEF Least
  <1>6. Placed(s)
    BY SizesAssumption DEF Placed
  <1>7. Charted(<<0>>, {})
    BY DEF Charted
  <1>8. QED
    BY <1>1, <1>3, <1>4, <1>5, <1>6, <1>7 DEF Walked

LEMMA StartCounted ==
  ASSUME IInv, CompleteInv, Undisturbed, OneHelper, NEW p \in Procs, Start(p) \/ Kill(p)
  PROVE  CompleteInv'
  <1> DEFINE l == IF Via[p] = "helper" THEN "find" ELSE "vendor"
             r == [Idle EXCEPT !.pc = l]
  <1>1. /\ scan' = [scan EXCEPT ![p] = IF Start(p) THEN r ELSE Idle]
        /\ UNCHANGED <<machine, cursor>>
    BY DEF Start, Kill
  <1>2. PlacesKnown
    BY MachinesAssumption DEF IInv, ScanTyped, IsMachine, PlacesKnown, Present
  <1>3. /\ r.pc = l /\ r.buses = <<0>> /\ r.bus = 1 /\ r.card = 0 /\ r.func = 0
        /\ r.hosts = 0 /\ r.list = <<>> /\ Idle.pc = "idle" /\ l \in {"find", "vendor"}
    BY DEF Idle
  <1>4. Walked(r) /\ Listed(r.list, {}, 0)
    BY <1>2, <1>3, NothingYet DEF Fresh
  <1> HIDE DEF r
  <1>5. CASE Via[p] # "helper"
    BY <1>1, <1>3, <1>4, <1>5, WalkMoves
  <1>6. CASE Via[p] = "helper"
    <2>1. Start(p)
      BY <1>6 DEF OneHelper, Kill
    <2>2. scan' = [scan EXCEPT ![p] = r] /\ scan[p].pc # "find"
      BY <1>1, <2>1 DEF Start
    <2>3. scan'[p] = r /\ r.pc = "find"
      BY <1>3, <1>6, <2>2 DEF IInv, ScanTyped
    <2>4. cursor = None /\ cursor' = None
      BY <1>1, <1>6, <2>2 DEF CompleteInv, Counted, Asked
    <2>5. (Present \ After(cursor))' = {}
      BY <2>4 DEF After, Present
    <2>6. Listed(scan[p].list, Present \ After(cursor), Cardinality(Present \ After(cursor)))'
      <3>1. Listed(r.list, {}, Cardinality({}))
        BY <1>4, FS_EmptySet
      <3>2. Present' = Present
        BY <1>1 DEF Present
      <3>3. QED
        BY <2>3, <2>5, <3>1, <3>2 DEF Listed
    <2>7. Asked(scan[p])'
      BY <2>3, <2>6 DEF Asked
    <2>8. Counted(p)'
      BY <1>6, <2>4, <2>7 DEF Counted
    <2>9. QED
      BY <1>1, <1>6, <2>2, <2>8, CountMoves
  <1>7. QED
    BY <1>5, <1>6

LEMMA InitCounted == ConfigInit => CompleteInv
  <1> SUFFICES ASSUME ConfigInit PROVE CompleteInv
    OBVIOUS
  <1>1. cursor = None /\ scan = [p \in Procs |-> Idle] /\ Idle.pc = "idle"
    BY DEF ConfigInit, Init, Idle
  <1>2. QED
    BY <1>1 DEF CompleteInv, Counted, Asked

\* What is not a step of a scan.
LEMMA CountKept ==
  ASSUME CompleteInv, UNCHANGED <<machine, cursor, scan>>
  PROVE  CompleteInv'
  <1> SUFFICES ASSUME NEW p \in Procs PROVE Counted(p)'
    BY DEF CompleteInv
  <1>1. Counted(p)
    BY DEF CompleteInv
  <1>2. Present' = Present
    BY DEF Present
  <1>3. (Present \ After(cursor))' = Present \ After(cursor)
    BY <1>2 DEF After
  <1>4. Asked(scan[p])' <=> Asked(scan[p])
    BY <1>2, <1>3 DEF Asked, Listed
  <1>5. Walked(scan[p])' <=> Walked(scan[p])
    BY SameWalk
  <1>6. QED
    BY <1>1, <1>2, <1>4, <1>5 DEF Counted

LEMMA InductiveCount ==
  ASSUME IInv, CompleteInv, Undisturbed, OneHelper, Trees, [ConfigNext]_configVars
  PROVE  CompleteInv'
  <1>1. ASSUME NEW p \in Procs, Scanning(p)
        PROVE  CompleteInv'
    BY <1>1, FindCounted, SelectCounted, VendorCounted, RestCounted, StartCounted
       DEF Scanning, Step
  <1>2. ASSUME NEW p \in Procs, ConfigStep(p)
        PROVE  CompleteInv'
    <2>1. UNCHANGED <<machine, cursor, scan>>
      BY <1>2 DEF ConfigStep, SelectRegister, ReadRegister, WriteRegister, Ioctl, vars
    <2>2. QED
      BY <2>1, CountKept
  <1>3. ASSUME NEW p \in Procs, NEW op \in {"read", "write"}, NEW e \in Entries(p),
               NEW v \in Values, Access(p, op, e.at, v)
        PROVE  CompleteInv'
    <2>1. UNCHANGED <<machine, cursor, scan>>
      BY <1>3 DEF Access, vars
    <2>2. QED
      BY <2>1, CountKept
  <1>4. CASE UNCHANGED configVars
    BY <1>4, CountKept DEF configVars, vars
  <1>5. QED
    BY <1>1, <1>2, <1>3, <1>4 DEF ConfigNext

-----------------------------------------------------------------------------
(***************************************************************************)
(* The table of buses.                                                     *)
(***************************************************************************)

\* The buses of a machine can be counted.
LEMMA BusesFinite ==
  ASSUME IsFiniteSet(Present)
  PROVE  IsFiniteSet(Buses)
  <1> DEFINE B == {b \in Present : Leads(machine[b])}
             T == {machine[a].secondary : a \in B}
             f == [a \in B |-> machine[a].secondary]
  <1>1. IsFiniteSet(B)
    BY FS_Subset
  <1>2. f \in Surjection(B, T)
    BY DEF Surjection
  <1>3. IsFiniteSet(T)
    <2> HIDE DEF B, T, f
    <2>1. QED
      BY <1>1, <1>2, FS_Surjection
  <1>4. IsFiniteSet(T \cup {0})
    <2> HIDE DEF T
    <2>1. QED
      BY <1>3, FS_AddElement
  <1>5. Buses = T \cup {0}
    BY DEF Buses
  <1>6. QED
    BY <1>4, <1>5

\* The entries of a table that is charted are as many buses.
LEMMA ChartedBuses ==
  ASSUME IsFiniteSet(Present), NEW buses \in Seq(Nat), NEW V, V \subseteq Present,
         Charted(buses, V)
  PROVE  Len(buses) <= Cardinality(Buses)
  <1> DEFINE n == Len(buses)
  <1>1. n \in Nat /\ n > 0 /\ buses \in [1 .. n -> Nat]
    BY DEF Charted
  <1>2. \A k \in 1 .. n : buses[k] \in Buses
    <2> TAKE k \in 1 .. n
    <2>1. CASE k = 1
      BY <2>1 DEF Charted, Buses
    <2>2. CASE k # 1
      <3>1. PICK a \in V : Leads(machine[a]) /\ machine[a].secondary = buses[k]
        BY <1>1, <2>2 DEF Charted
      <3>2. QED
        BY <3>1 DEF Buses
    <2>3. QED
      BY <2>1, <2>2
  <1>3. buses \in Injection(1 .. n, Buses)
    <2>1. \A k, j \in 1 .. n : buses[k] = buses[j] => k = j
      BY DEF Charted
    <2>2. buses \in [1 .. n -> Buses] /\ DOMAIN buses = 1 .. n
      BY <1>1, <1>2
    <2>3. QED
      BY <2>1, <2>2 DEF Injection, IsInjective
  <1>4. Cardinality(1 .. n) = n
    BY <1>1, FS_Interval
  <1>5. Cardinality(1 .. n) <= Cardinality(Buses)
    BY <1>3, BusesFinite, FS_Injection
  <1>6. QED
    BY <1>4, <1>5

\* In a tree a walk finds its table full only at a bus it has no entry for.
LEMMA FullTable ==
  ASSUME PlacesKnown, IsFiniteSet(Present), WellNumbered(machine), NEW p \in Procs,
         NEW s \in ScanRecs(p), Walked(s), s.pc # "done", Here(s) \in Present,
         machine[Here(s)].secondary \in Nat, Overruns(s, machine[Here(s)])
  PROVE  Cardinality(Buses) > MaxBuses
  <1> DEFINE h == Here(s)
             V == Met(s) \cup {h}
             c == Append(s.buses, machine[h].secondary)
  <1>1. h \in Present /\ h \notin Met(s) /\ Met(s) \subseteq Present
    BY HereNotMet DEF Walked, Met
  <1>2. s.buses \in Seq(Nat) /\ Len(s.buses) \in Nat /\ Len(s.buses) >= MaxBuses
    BY DEF ScanRecs, Overruns
  <1>3. Leads(machine[h])
    <2> SUFFICES ASSUME machine[h].kind = "host", s.hosts > 0 PROVE FALSE
      BY DEF Overruns
    <2>1. PICK a \in Met(s) : machine[a].kind = "host"
      BY DEF Walked
    <2>2. a = h
      BY <1>1, <2>1 DEF WellNumbered, Present
    <2>3. QED
      BY <1>1, <2>2
  <1>4. Charted(c, V)
    BY <1>1, <1>2, <1>3, BusIsNew DEF Walked
  <1>5. c \in Seq(Nat) /\ Len(c) = Len(s.buses) + 1 /\ V \subseteq Present
    BY <1>1, <1>2
  <1> HIDE DEF c, V, h
  <1>6. Len(c) <= Cardinality(Buses)
    BY <1>4, <1>5, ChartedBuses
  <1>7. Cardinality(Buses) \in Nat /\ MaxBuses \in Nat
    BY BusesFinite, FS_CardinalityType, SizesAssumption
  <1>8. QED
    BY <1>2, <1>5, <1>6, <1>7

\* A scan leaves its table when it reads a function.
LEMMA OverrunReads ==
  ASSUME IInv, Undisturbed, [ConfigNext]_configVars, NEW q \in Procs,
         scan'[q].pc = "overrun", scan[q].pc # "overrun"
  PROVE  /\ scan[q].pc = "restData" /\ Here(scan[q]) \in Present
         /\ Overruns(scan[q], machine[Here(scan[q])])
  <1>1. DOMAIN scan = Procs /\ \A p \in Procs : scan[p] \in ScanRecs(p)
    BY DEF IInv, ScanTyped
  <1>2. ASSUME NEW p \in Procs, NEW r, scan' = [scan EXCEPT ![p] = r]
        PROVE  p = q /\ r.pc = "overrun"
    BY <1>1, <1>2
  <1>3. ASSUME NEW p \in Procs, Find(p)
        PROVE  FALSE
    <2> DEFINE e == [scan[p] EXCEPT !.pc = "done"]
               f == [scan[p] EXCEPT !.list = Append(@, Told(First(After(cursor))))]
    <2>1. scan' = [scan EXCEPT ![p] = e] \/ scan' = [scan EXCEPT ![p] = f]
      BY <1>3 DEF Find
    <2>2. e.pc # "overrun" /\ f.pc = scan[p].pc
      BY <1>1 DEF ScanRecs
    <2> HIDE DEF e, f
    <2>3. QED
      BY <1>2, <2>1, <2>2
  <1>4. ASSUME NEW p \in Procs, Select(p)
        PROVE  FALSE
    <2> DEFINE r == [scan[p] EXCEPT !.pc = IF @ = "vendor" THEN "vendorData" ELSE "restData"]
    <2>1. scan' = [scan EXCEPT ![p] = r]
      BY <1>4 DEF Select
    <2>2. r.pc # "overrun"
      BY <1>1 DEF ScanRecs
    <2> HIDE DEF r
    <2>3. QED
      BY <1>2, <2>1, <2>2
  <1>5. ASSUME NEW p \in Procs, ReadVendor(p)
        PROVE  FALSE
    <2> DEFINE r == [scan[p] EXCEPT !.pc = "rest", !.id = Reads(p)]
               n == NextCard(scan[p])
    <2>1. scan' = [scan EXCEPT ![p] = r] \/ scan' = [scan EXCEPT ![p] = n]
      BY <1>5 DEF ReadVendor
    <2>2. r.pc # "overrun"
      BY <1>1 DEF ScanRecs
    <2>3. n.pc # "overrun"
      BY <1>1, NextCardGoes DEF Onward
    <2> HIDE DEF r, n
    <2>4. QED
      BY <1>2, <2>1, <2>2, <2>3
  <1>6. ASSUME NEW p \in Procs, Start(p) \/ Kill(p)
        PROVE  FALSE
    <2> DEFINE r == [Idle EXCEPT !.pc = IF Via[p] = "helper" THEN "find" ELSE "vendor"]
    <2>1. scan' = [scan EXCEPT ![p] = r] \/ scan' = [scan EXCEPT ![p] = Idle]
      BY <1>6 DEF Start, Kill
    <2>2. r.pc # "overrun" /\ Idle.pc # "overrun"
      BY DEF Idle
    <2> HIDE DEF r
    <2>3. QED
      BY <1>2, <2>1, <2>2
  <1>7. scan' # scan
    OBVIOUS
  <1>8. PICK p \in Procs : ReadRest(p)
    BY <1>3, <1>4, <1>5, <1>6, <1>7
       DEF ConfigNext, Scanning, Step, ConfigStep, SelectRegister, ReadRegister, WriteRegister,
           Ioctl, Access, configVars, vars
  <1> DEFINE d == machine[Here(scan[p])]
             r == NextFunction(Enter(Identify(scan[p], d, Here(scan[p]), {}), d), d)
             o == [scan[p] EXCEPT !.pc = "overrun"]
  <1>9. /\ scan[p] \in ScanRecs(p) /\ Via[p] = "ports" /\ scan[p].pc = "restData"
        /\ address = Here(scan[p]) /\ address \in Present /\ scan[p].id = address
        /\ d.secondary \in Nat
    BY <1>8, MachinesAssumption
       DEF IInv, ScanTyped, WalkInv, ReadRest, Walking, IsMachine, Present
  <1>10. scan' = [scan EXCEPT ![p] = IF Overruns(scan[p], d) THEN o ELSE r]
    <2>1. Read(Reads(p)) = d /\ Reads(p) = Here(scan[p])
      BY <1>9 DEF Read, Reads
    <2>2. QED
      BY <1>8, <1>9, <2>1 DEF ReadRest
  <1>11. r.pc # "overrun"
    BY <1>9, IdentifyGoes, EnterGoes, NextFunctionGoes DEF Onward
  <1> HIDE DEF r, o
  <1>12. QED
    BY <1>2, <1>9, <1>10, <1>11

LEMMA CrowdedHolds ==
  ASSUME IInv, CompleteInv, Crowded, Undisturbed, Trees, [ConfigNext]_configVars
  PROVE  Crowded'
  <1>1. machine' = machine
    BY DEF ConfigNext, Scanning, Step, Find, Select, ReadVendor, ReadRest, Start, Kill,
           ConfigStep, SelectRegister, ReadRegister, WriteRegister, Ioctl, Access, configVars, vars
  <1>2. Buses' = Buses
    BY <1>1 DEF Buses, Present
  <1> SUFFICES ASSUME NEW q \in Procs, scan'[q].pc = "overrun"
               PROVE  Cardinality(Buses) > MaxBuses
    BY <1>2 DEF Crowded
  <1>3. CASE scan[q].pc = "overrun"
    BY <1>3 DEF Crowded
  <1>4. CASE scan[q].pc # "overrun"
    <2>1. /\ scan[q].pc = "restData" /\ Here(scan[q]) \in Present
          /\ Overruns(scan[q], machine[Here(scan[q])])
      BY <1>4, OverrunReads
    <2>2. scan[q] \in ScanRecs(q) /\ Via[q] = "ports"
      BY <2>1 DEF IInv, ScanTyped, WalkInv, Walking
    <2>3. Walked(scan[q])
      BY <2>1, <2>2 DEF CompleteInv, Counted
    <2>4. /\ PlacesKnown /\ WellNumbered(machine) /\ IsFiniteSet(Present)
          /\ machine[Here(scan[q])].secondary \in Nat
      BY <2>1, MachinesAssumption DEF IInv, ScanTyped, Trees, IsMachine, PlacesKnown, Present
    <2>5. QED
      BY <2>1, <2>2, <2>3, <2>4, FullTable
  <1>5. QED
    BY <1>3, <1>4

\* A scan that has ended has listed every function of the machine once, through the ports
\* as far as the list has room: __pci_scan follows the bridges of a tree of buses to each of
\* them, and the slots and functions of each bus to the last, whatever other programs do and
\* wherever a walk before it was killed; the cursor of DHAHELPER_PCI_FIND starts anew.  It
\* writes past _pcibuses on machines with more buses than that holds, and on no others.
THEOREM CompleteCorrect ==
  ASSUME Undisturbed, OneHelper, Trees
  PROVE  ConfigSpec => []Complete
  <1>1. ConfigInit => IInv /\ CompleteInv /\ Crowded
    <2>1. ConfigInit => Crowded
      BY DEF ConfigInit, Init, Crowded, Idle
    <2>2. QED
      BY <2>1, InitHolds, InitCounted
  <1>2. IInv /\ CompleteInv /\ Crowded /\ [ConfigNext]_configVars
          => IInv' /\ CompleteInv' /\ Crowded'
    BY Inductive, InductiveCount, CrowdedHolds
  <1>3. IInv /\ CompleteInv /\ Crowded => Complete
    BY ImpliesComplete
  <1>4. QED
    BY <1>1, <1>2, <1>3, PTL DEF ConfigSpec
=============================================================================
