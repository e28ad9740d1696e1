------------------------------ MODULE PciConfig ------------------------------
(***************************************************************************)
(* pci_config_read and pci_config_write: a program that has scanned the    *)
(* buses reads and writes registers of the functions it found, with the    *)
(* helper by DHAHELPER_PCI_CONFIG, without it through the register pair    *)
(* the scan uses as well.  One register of a function that keeps what is   *)
(* written to it stands for all; a status register, of which a written one *)
(* clears a bit, is left out.                                              *)
(***************************************************************************)
EXTENDS PciScan

CONSTANTS
  Configs,      \* programs that access registers
  Values,       \* what a register holds
  MaxAccesses   \* accesses of a program between two scans

ASSUME ConfigsAssumption  == Configs \subseteq {p \in Procs : Via[p] \in {"helper", "ports"}}
ASSUME AccessesAssumption == MaxAccesses \in Nat

VARIABLES
  space,        \* the register of each function
  meant,        \* history: as the programs said it should be
  access        \* the access of each program

configVars == <<vars, space, meant, access>>

\* left: accesses the program may still make; expect: what the register it named held
\* when it was read.
NoAccess == [pc |-> "none", op |-> "read", at |-> None, value |-> 0, ok |-> FALSE,
             expect |-> 0, left |-> MaxAccesses]

ConfigInit ==
  /\ Init
  /\ space \in {[a \in Present |-> v] : v \in Values}
  /\ meant = space
  /\ access = [p \in Procs |-> NoAccess]

Accessing(p) == access[p].pc \in {"select", "data", "ioctl"}

\* The places a program knows are those of its list.
Access(p, op, a, v) ==
  /\ p \in Configs /\ scan[p].pc = "done" /\ ~Accessing(p) /\ access[p].left > 0
  /\ access' = [access EXCEPT ![p] =
       [pc |-> IF Via[p] = "helper" THEN "ioctl" ELSE "select", op |-> op, at |-> a, value |-> v,
        ok |-> FALSE, expect |-> 0, left |-> @.left - 1]]
  /\ UNCHANGED <<vars, space, meant>>

----------------------------------------------------------------------------
\* Without the helper.

\* Variant: the address of the last access is taken to be still there.
SelectRegisterOnce(p) ==
  /\ access[p].pc = "select"
  /\ address' = IF address = None THEN access[p].at ELSE address
  /\ access' = [access EXCEPT ![p].pc = "data"]
  /\ UNCHANGED <<machine, cursor, scan, space, meant>>

SelectRegister(p) ==
  /\ access[p].pc = "select"
  /\ address' = access[p].at
  /\ access' = [access EXCEPT ![p].pc = "data"]
  /\ UNCHANGED <<machine, cursor, scan, space, meant>>

\* The program has an answer: what a read found, or what was written.
Answer(p, value, ok) ==
  access' = [access EXCEPT ![p].pc = "answered", ![p].value = value, ![p].ok = ok,
                           ![p].expect = meant[access[p].at]]

Store(f, a, v) == IF a \in DOMAIN f THEN [f EXCEPT ![a] = v] ELSE f

ReadRegister(p) ==
  /\ access[p].pc = "data" /\ access[p].op = "read"
  /\ Answer(p, IF address \in Present THEN space[address] ELSE 255, TRUE)
  /\ UNCHANGED <<vars, space, meant>>

WriteRegister(p) ==
  /\ access[p].pc = "data" /\ access[p].op = "write"
  /\ space' = Store(space, address, access[p].value)
  /\ meant' = Store(meant, access[p].at, access[p].value)
  /\ Answer(p, access[p].value, TRUE)
  /\ UNCHANGED vars

----------------------------------------------------------------------------
\* With the helper.

\* DHAHELPER_PCI_CONFIG.  Reading falls through to writing, which gives the register
\* back what was read from it, and writing to the error of an unknown operation; what
\* was read is not copied out, and the program takes what its own stack held.
Ioctl(p) ==
  /\ access[p].pc = "ioctl"
  /\ LET s == access[p] IN
     \/ /\ s.op = "read"
        /\ space' = Store(space, s.at, space[s.at])
        /\ meant' = meant
        /\ \E left \in Values : Answer(p, left, FALSE)
     \/ /\ s.op = "write"
        /\ space' = Store(space, s.at, s.value)
        /\ meant' = Store(meant, s.at, s.value)
        /\ Answer(p, s.value, FALSE)
  /\ IF KernelPorts THEN address' = access[p].at ELSE UNCHANGED address
  /\ UNCHANGED <<machine, cursor, scan>>

----------------------------------------------------------------------------
ConfigStep(p) == SelectRegister(p) \/ ReadRegister(p) \/ WriteRegister(p) \/ Ioctl(p)

\* A program does one thing at a time; one that scans again or is killed has forgotten
\* its accesses.
Scanning(p) ==
  \/ Step(p) /\ UNCHANGED <<space, meant, access>>
  \/ /\ Kill(p) \/ (~Accessing(p) /\ Start(p))
     /\ access' = [access EXCEPT ![p] = NoAccess]
     /\ UNCHANGED <<space, meant>>

ConfigNext ==
  \E p \in Procs :
    \/ Scanning(p) \/ ConfigStep(p)
    \/ \E op \in {"read", "write"}, e \in Entries(p), v \in Values : Access(p, op, e.at, v)

\* Nothing in a scan or an access that was started waits for anybody.
StepsGoOn ==
  \A p \in Procs : /\ WF_configVars(Step(p) /\ UNCHANGED <<space, meant, access>>)
                   /\ WF_configVars(ConfigStep(p))

ConfigSpec == ConfigInit /\ [][ConfigNext]_configVars /\ StepsGoOn

----------------------------------------------------------------------------
\* Properties.

ConfigTypeOK ==
  /\ TypeOK
  /\ {space, meant} \subseteq [Present -> Values]
  /\ \A p \in Procs : access[p].at \in Present \cup {None} /\ access[p].left \in 0..MaxAccesses

\* An access is of the function it names, although address and data are two accesses to
\* registers everybody shares: registers hold what was last written to them, and a read
\* that is reported to have succeeded gave what the register held.  (With the helper
\* none is.)
AccessFaithful ==
  /\ space = meant
  /\ \A p \in Procs :
       access[p].pc = "answered" /\ access[p].op = "read" /\ access[p].ok =>
         access[p].value = access[p].expect

\* What a program knows of a function, and what it does to it, is of that function:
\* the entries of its list and the accesses it makes.
Faithful == EntryFaithful /\ AccessFaithful
=============================================================================
