------------------------------- MODULE Pm3Dma -------------------------------
(***************************************************************************)
(* Frame transfers of the Permedia3 driver (vidix/drivers/pm3_vid.c): the  *)
(* program's calls of vixInit, vixPlaybackCopyFrame and vixDestroy, the    *)
(* bus-master engine of the card, and the interrupt that tells the end of  *)
(* a transfer.  The kernel helper stands here as the event channel it      *)
(* implements: hwirq_wait takes an event, however many have joined it.     *)
(***************************************************************************)
EXTENDS Naturals

CONSTANTS
  Slots,        \* values of dma->idx
  Srcs,         \* source buffers, with dma->dest_offset
  None,         \* no command list, no source
  Line,         \* pci_info.irq
  Careful,      \* the program awaits every transfer exactly once, and rebuilds a
                \* list (no BM_DMA_FIXED_BUFFS) only when none is owed
  Faults,       \* what the kernel may do to the driver, see FaultKinds
  MaxTransfers  \* bound: transfers per initialisation

\* hwirq_install is refused; bm_virt_to_bus fails; a signal ends hwirq_wait.
FaultKinds == {"refuse", "translate", "signal"}

ASSUME NoneAssumption == None \notin Slots /\ None \notin Srcs
ASSUME ModeAssumption == Careful \in BOOLEAN /\ Faults \subseteq FaultKinds
ASSUME BoundAssumption == MaxTransfers \in Nat

VARIABLES
  up,           \* vixInit was called and vixDestroy was not
  call,         \* the vixPlaybackCopyFrame in progress
  internal,     \* dma->internal: what the command list of a slot describes
  freed,        \* slots whose command list was freed and is still referred to
  engine,       \* PM3ByDMAReadMode_Active, the list, PM3IntEnable, PM3IntFlags
  owed,         \* history: transfers nobody waited for
  active, pending, seen, taken   \* the event channel of the helper

channel == <<active, pending, seen, taken>>
vars    == <<up, call, internal, freed, engine, owed, channel>>

Channel == INSTANCE IrqChannel WITH Irqs <- {Line}

Calls == [at : {"none", "setup", "sync", "start", "block"},
          slot : Slots \cup {None}, src : Srcs \cup {None},
          sync : BOOLEAN, block : BOOLEAN, fixed : BOOLEAN]
Engines == [busy : BOOLEAN, list : Slots \cup {None},
            enabled : BOOLEAN, flag : BOOLEAN]

At(label) == call.at = label

\* The driver, the engine and the channel; a busy engine has a list.
TypeOK ==
  /\ up \in BOOLEAN
  /\ call \in Calls
  /\ internal \in [Slots -> Srcs \cup {None}]
  /\ freed \subseteq Slots
  /\ engine \in Engines
  /\ owed \in Nat
  /\ ~At("none") => up /\ call.slot # None
  /\ engine.busy <=> engine.list # None
  /\ {active, pending} \subseteq [{Line} -> BOOLEAN]
  /\ {seen, taken} \subseteq [{Line} -> Nat]

NoCall == [at |-> "none", slot |-> None, src |-> None, sync |-> FALSE,
           block |-> FALSE, fixed |-> FALSE]

Init ==
  /\ up = FALSE
  /\ call = NoCall
  /\ internal = [s \in Slots |-> None]
  /\ freed = {}
  /\ engine = [busy |-> FALSE, list |-> None, enabled |-> FALSE, flag |-> FALSE]
  /\ owed = 0
  /\ Channel!ChanInit

GoTo(next) == call' = [call EXCEPT !.at = next]
Return     == call' = NoCall
Idle       == up /\ At("none")

----------------------------------------------------------------------------
\* INSTALL_IRQ prepares the line; it may then refuse the registration, which
\* vixInit does not look at.
Prepare ==
  /\ ~up
  /\ Channel!Prepare(Line)
  /\ UNCHANGED <<up, call, internal, freed, engine, owed>>

\* Variant: the interrupt of the card stays disabled.
VixInitDisabled ==
  /\ ~up
  /\ up' = TRUE
  /\ Channel!Activate(Line)
  /\ owed' = 0
  /\ UNCHANGED <<call, internal, freed, engine>>

\* vixInit: hwirq_install, whose result it does not look at, then PM3IntEnable.
VixInit ==
  /\ ~up
  /\ up' = TRUE
  /\ \/ Channel!Activate(Line)
     \/ "refuse" \in Faults /\ UNCHANGED channel
  /\ engine' = [engine EXCEPT !.enabled = TRUE]
  /\ owed' = 0
  /\ UNCHANGED <<call, internal, freed>>

\* vixDestroy: the interrupt is disabled first; a transfer goes on.  A careful
\* program has seen vixQueryDMAStatus answer 0 and the last interrupt is over.
VixDestroy ==
  /\ Idle
  /\ Careful => ~engine.busy /\ ~engine.flag
  /\ up' = FALSE
  /\ engine' = [engine EXCEPT !.enabled = FALSE]
  /\ IF active[Line] THEN Channel!Deactivate(Line) ELSE UNCHANGED channel
  /\ UNCHANGED <<call, internal, freed, owed>>

----------------------------------------------------------------------------
\* The flags a program that awaits every transfer once may pass: it asks for a
\* previous transfer exactly when one is owed, and has the list built anew only
\* when none is.
May(sync, fixed) == Careful => (sync <=> owed > 0) /\ (fixed \/ owed = 0)

CopyFrame(slot, src, sync, block, fixed) ==
  /\ Idle /\ May(sync, fixed)
  /\ seen[Line] + owed < MaxTransfers
  /\ call' = [at |-> "setup", slot |-> slot, src |-> src, sync |-> sync,
              block |-> block, fixed |-> fixed]
  /\ UNCHANGED <<up, internal, freed, engine, owed, channel>>

AfterSetup == IF call.sync THEN "sync" ELSE "start"

\* Variant: a list is built on every call.
SetupAlways ==
  /\ At("setup")
  /\ internal' = [internal EXCEPT ![call.slot] = call.src]
  /\ GoTo(AfterSetup)
  /\ UNCHANGED <<up, freed, engine, owed, channel>>

\* The slot's command list serves again when the buffers are fixed.
Reuse == internal[call.slot] # None /\ call.fixed

\* Otherwise it is built, in place if there is one; and that before the previous
\* transfer is awaited.
Setup ==
  /\ At("setup")
  /\ IF Reuse THEN UNCHANGED internal
              ELSE internal' = [internal EXCEPT ![call.slot] = call.src]
  /\ GoTo(AfterSetup)
  /\ UNCHANGED <<up, freed, engine, owed, channel>>

\* A page of the source has no bus address: nothing is built.  The list has none:
\* it is freed, also when the slot already refers to it.
SetupFails ==
  /\ At("setup") /\ ~Reuse /\ "translate" \in Faults
  /\ \/ UNCHANGED <<internal, freed>>
     \/ /\ internal[call.slot] # None
        /\ internal' = [internal EXCEPT ![call.slot] = call.src]
        /\ freed' = freed \cup {call.slot}
  /\ Return
  /\ UNCHANGED <<up, engine, owed, channel>>

\* hwirq_wait: takes an event, or fails at once on a line without owner, or on a
\* signal; its result is not looked at.
Wait ==
  /\ \/ Channel!Take(Line) /\ owed' = IF owed > 0 THEN owed - 1 ELSE 0
     \/ (~active[Line] \/ "signal" \in Faults) /\ UNCHANGED <<owed, channel>>
  /\ UNCHANGED <<up, internal, freed, engine>>

\* Variant: the transfer is started before the previous one is awaited.
SyncLate ==
  At("sync") /\ GoTo("start") /\ UNCHANGED <<up, internal, freed, engine, owed, channel>>

Sync == At("sync") /\ Wait /\ GoTo("start")

\* The engine is set going, on top of what it does.
Start ==
  /\ At("start")
  /\ engine' = [engine EXCEPT !.busy = TRUE, !.list = call.slot]
  /\ owed' = owed + 1
  /\ IF call.block THEN GoTo("block") ELSE Return
  /\ UNCHANGED <<up, internal, freed, channel>>

\* Variant: the end of the transfer is not awaited.
BlockNot ==
  At("block") /\ Return /\ UNCHANGED <<up, internal, freed, engine, owed, channel>>

Block == At("block") /\ Wait /\ Return

----------------------------------------------------------------------------
\* The card: the end of a transfer sets the interrupt flag; whether it does so
\* while the interrupt is disabled is left open.
Complete ==
  /\ engine.busy
  /\ \E flag \in {engine.flag, TRUE} :
       /\ engine.enabled => flag
       /\ engine' = [engine EXCEPT !.busy = FALSE, !.list = None, !.flag = flag]
  /\ UNCHANGED <<up, call, internal, freed, owed, channel>>

\* The handler of the helper tells the channel and acknowledges.
Interrupt ==
  /\ engine.flag /\ engine.enabled
  /\ Channel!Event(Line)
  /\ engine' = [engine EXCEPT !.flag = FALSE]
  /\ UNCHANGED <<up, call, internal, freed, owed>>

----------------------------------------------------------------------------
Driver == Setup \/ SetupFails \/ Sync \/ Start \/ Block
Card   == Complete \/ Interrupt

Next ==
  \/ Prepare \/ VixInit \/ VixDestroy
  \/ \E slot \in Slots, src \in Srcs, sync, block, fixed \in BOOLEAN :
       CopyFrame(slot, src, sync, block, fixed)
  \/ Driver \/ Card

Spec == Init /\ [][Next]_vars

\* The calling thread runs on; the card ends every transfer and its interrupt is
\* delivered.
FairSpec == Spec /\ WF_vars(Driver) /\ WF_vars(Complete) /\ WF_vars(Interrupt)

----------------------------------------------------------------------------
\* Properties.

\* Where the interrupt could be installed, the flags mean what vidix_enums.h says:
\* with BM_DMA_SYNC the previous transfer is over when the next is set going, with
\* BM_DMA_BLOCK the transfer itself is over when the call returns.
FlagsHonoured ==
  [][active[Line] =>
     /\ Start /\ call.sync => ~engine.busy
     /\ At("block") /\ call' = NoCall => ~engine.busy]_vars

\* The command list the engine reads is neither rewritten nor freed under it; the
\* program knows when it may be from BM_DMA_SYNC, so this too needs the interrupt.
ListStable ==
  [][active[Line] /\ engine.busy /\ engine'.busy /\ engine'.list = engine.list =>
       /\ internal'[engine.list] = internal[engine.list]
       /\ engine.list \in freed' => engine.list \in freed]_vars

\* Events and transfers stay in step: of each transfer nobody waited for, the
\* engine, the interrupt flag or the channel knows, and only one of them, where the
\* interrupt could be installed.
OwedOnce ==
  up /\ active[Line] =>
    owed = (IF engine.busy THEN 1 ELSE 0) + (IF engine.flag THEN 1 ELSE 0)
             + (IF pending[Line] THEN 1 ELSE 0)

\* Every vixPlaybackCopyFrame returns.
CallReturns == ~At("none") ~> At("none")
=============================================================================
