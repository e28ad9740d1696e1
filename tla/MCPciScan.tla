------------------------------ MODULE MCPciScan ------------------------------
(* Machines of up to three buses of two slots for scans and accesses, and    *)
(* one of four, which is more than the table of the run holds.               *)
EXTENDS PciConfig, TLC

CONSTANTS ports, helper, file

\* What may be in a slot, as the configuration spaces of its functions.
Zero == [i \in 0 .. 5 |-> 0]
Memory == [Zero EXCEPT ![0] = 40, ![3] = 64]
Ports  == [Zero EXCEPT ![0] = 21, ![3] = 13]

Func(kind, secondary, multi, base) ==
  [kind |-> kind, secondary |-> secondary, multi |-> multi, io |-> multi,
   base |-> base]

Empty     == <<>>
One       == 0 :> Func("device", 0, FALSE, Memory)
Two       == 0 :> Func("device", 0, TRUE, Memory) @@ 1 :> Func("device", 0, TRUE, Ports)
Host      == 0 :> Func("host", 0, FALSE, Zero)
BridgeTo(b) == 0 :> Func("bridge", b, FALSE, Zero)

\* The machine of a table of slots.
Built(slots) ==
  [a \in {<<s[1], s[2], f>> : s \in DOMAIN slots, f \in 0 .. 2} \cap
          UNION {{<<s[1], s[2], f>> : f \in DOMAIN slots[s]} : s \in DOMAIN slots}
     |-> slots[<<a[1], a[2]>>][a[3]]]

Table(b, s) == (0 .. b - 1) \X (0 .. s - 1)

\* A bus is numbered by one bridge, on a bus of a lower number.
Numbered(slots) ==
  LET to(s) == IF slots[s] = Empty THEN 0 ELSE slots[s][0].secondary
      behind(b) == {s \in DOMAIN slots : to(s) = b}
  IN /\ slots[<<0, 0>>] = Host
     /\ \A b \in 1 .. 2 : \A s \in behind(b) : s[1] < b /\ behind(b) = {s}
     /\ \A s \in DOMAIN slots : s[1] > 0 /\ slots[s] # Empty => behind(s[1]) # {}

Narrow ==
  {Built(t) : t \in {t \in [Table(3, 2) -> {Empty, One, Two, Host} \cup {BridgeTo(1), BridgeTo(2)}] :
     Numbered(t) /\ Cardinality({s \in DOMAIN t : t[s] = Host}) = 1}}

\* Three bridges, one of them behind another.
Wide ==
  {Built(<<0, 0>> :> Host @@ <<0, 1>> :> BridgeTo(1)
         @@ <<1, 0>> :> BridgeTo(2) @@ <<1, 1>> :> BridgeTo(3)
         @@ <<2, 0>> :> One @@ <<3, 0>> :> One)}

\* One card of two functions, every base register in use.
Filled == [i \in 0 .. 5 |-> 32]
Small ==
  {Built(<<0, 0>> :> (0 :> Func("host", 0, FALSE, Filled))
         @@ <<0, 1>> :> (0 :> Func("device", 0, TRUE, Filled)
                         @@ 1 :> Func("device", 0, TRUE, Filled)))}

Full == Narrow \cup Wide

\* Registers are accessed on the machines of one bus.
OneBus == \A a \in Present : a[1] = 0
MCNext == ConfigNext /\ (OneBus \/ \A p \in Procs : access'[p].left = MaxAccesses)

MCSpec == ConfigInit /\ [][MCNext]_configVars /\ StepsGoOn

ByHelperAndPorts == helper :> "helper" @@ ports :> "ports"
ByFile == [p \in Procs |-> "proc"]
=============================================================================
