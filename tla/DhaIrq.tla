------------------------------- MODULE DhaIrq -------------------------------
(***************************************************************************)
(* The interrupt table of the Linux kernel helper (libdha/kernelhelper/    *)
(* dhahelper.c): dha_irqs[256], the interrupt handler, and the ioctls      *)
(* INSTALL_IRQ, ACK_IRQ and FREE_IRQ, with the device node's open and      *)
(* release and the module's init and exit.                                 *)
(*                                                                         *)
(* Processes run inside the ioctls; interrupt handlers run between, and on *)
(* a multiprocessor beside, the steps of a process.  The entry point is    *)
(* the `ioctl' member of file_operations, so the kernel holds its big lock *)
(* (bkl) around a call and drops it while the caller sleeps in schedule(). *)
(*                                                                         *)
(* Next to the definitions that model code stand variants of some of them  *)
(* with a plausible slip; the text above each says which.                  *)
(***************************************************************************)
EXTENDS Naturals, FiniteSets

CONSTANTS
  Procs,        \* processes that open /dev/dhahelper
  NoProc,       \* "nobody"
  Irqs,         \* interrupt lines, the indices of dha_irqs that are used
  Devs,         \* PCI functions that pci_find_slot can find
  NoDev,        \* a null struct pci_dev *, a null ack_addr
  IrqOf,        \* pci->irq of each device
  SMP,          \* the kernel is built for more than one processor
  CopyFaults,   \* copy_to_user may fail
  MaxCount,     \* bound: interrupts taken per installation
  MaxReg        \* bound: registrations of the handler per device

ASSUME ProcsAssumption == NoProc \notin Procs
ASSUME DevsAssumption == NoDev \notin Devs
ASSUME IrqOfAssumption == IrqOf \in [Devs -> Irqs]
ASSUME FlagsAssumption == SMP \in BOOLEAN /\ CopyFaults \in BOOLEAN
ASSUME BoundsAssumption == MaxCount \in Nat /\ MaxReg \in Nat

VARIABLES
  irq,          \* struct dha_irq dha_irqs[]
  proc,         \* the process in the ioctl: its locals and task state
  opened,       \* processes with an open descriptor
  bkl,          \* holder of the big kernel lock
  reg,          \* how often dhahelper_irq_handler is registered for a device
  hpc,          \* program counter of the handler on each line
  asserted,     \* devices that hold their (level-triggered) line
  module,       \* state of the helper module
  toFree        \* lines that exit_dhahelper still has to visit

kernel == <<opened, bkl, reg, hpc, asserted, module, toFree>>
vars   == <<irq, proc, kernel>>

\* flags is the saved interrupt-enable state, one field for every taker of
\* the lock.  got is history: ACK_IRQ calls answered 0 since the installation.
DhaIrqs == [lock : BOOLEAN, flags : BOOLEAN, handled : BOOLEAN, rcvd : BOOLEAN,
            ack_addr : Devs \cup {NoDev}, dev : Devs \cup {NoDev},
            wait : SUBSET Procs, count : Nat, got : Nat]

NoCall == [op |-> "none"]
Calls  == [op : {"inst"}, dev : Devs, ack : BOOLEAN, irq : Irqs]
            \cup [op : {"free"}, dev : Devs, irq : Irqs]
            \cup [op : {"ack"}, irq : Irqs]

\* ie: interrupts are enabled where the process runs; asleep: its state is
\* TASK_INTERRUPTIBLE; sig: signal_pending(current).
Tasks == [pc : {"user", "save", "spin", "crit", "req", "copy", "sync",
                "unlock", "test", "sleep"},
          call : Calls \cup {NoCall}, ie : BOOLEAN, asleep : BOOLEAN,
          r : BOOLEAN, sig : BOOLEAN]

\* The table, the processes, the handlers and the counters hold values the code
\* gives them; in particular no registration is counted below zero.
TypeOK ==
  /\ irq \in [Irqs -> DhaIrqs]
  /\ proc \in [Procs -> Tasks]
  /\ opened \in SUBSET Procs
  /\ bkl \in Procs \cup {NoProc}
  /\ reg \in [Devs -> Nat]
  /\ hpc \in [Irqs -> {"idle", "spin", "crit", "wake", "unlock"}]
  /\ asserted \in SUBSET Devs
  /\ module \in {"loaded", "exiting", "unloaded"}
  /\ toFree \in SUBSET Irqs

----------------------------------------------------------------------------
\* memset(dha_irqs, 0, ...) of init_dhahelper
Zeroed == [lock |-> FALSE, flags |-> FALSE, handled |-> FALSE, rcvd |-> FALSE,
           ack_addr |-> NoDev, dev |-> NoDev, wait |-> {}, count |-> 0, got |-> 0]

InUser == [pc |-> "user", call |-> NoCall, ie |-> TRUE, asleep |-> FALSE,
           r |-> FALSE, sig |-> FALSE]

Init ==
  /\ irq = [i \in Irqs |-> Zeroed]
  /\ proc = [p \in Procs |-> InUser]
  /\ opened = {}
  /\ bkl = NoProc
  /\ reg = [d \in Devs |-> 0]
  /\ hpc = [i \in Irqs |-> "idle"]
  /\ asserted = {}
  /\ module = "loaded"
  /\ toFree = {}

\* On one processor a handler runs to its end before a process continues.
CpuFree == SMP \/ \A i \in Irqs : hpc[i] = "idle"

SetIrq(i, entry) == irq' = [irq EXCEPT ![i] = entry]
SetProc(p, task) == proc' = [proc EXCEPT ![p] = task]

At(p, label)   == CpuFree /\ proc[p].pc = label
InCall(p, op)  == At(p, "crit") /\ proc[p].call.op = op
Goto(p, label) == SetProc(p, [proc[p] EXCEPT !.pc = label])
Line(p)        == proc[p].call.irq
Device(p)      == proc[p].call.dev
Entry(p)       == irq[Line(p)]

----------------------------------------------------------------------------
\* dhahelper_open, dhahelper_release: release gives nothing back.
Open(p) ==
  /\ CpuFree /\ module = "loaded" /\ p \notin opened
  /\ opened' = opened \cup {p}
  /\ UNCHANGED <<irq, proc, bkl, reg, hpc, asserted, module, toFree>>

Release(p) ==
  /\ At(p, "user") /\ p \in opened
  /\ opened' = opened \ {p}
  /\ UNCHANGED <<irq, proc, bkl, reg, hpc, asserted, module, toFree>>

\* Entry of dhahelper_ioctl under the big kernel lock.
Ioctl(p) ==
  /\ At(p, "user") /\ p \in opened
  /\ bkl = NoProc
  /\ bkl' = p
  /\ UNCHANGED <<opened, reg, hpc, asserted, module, toFree>>

\* The ioctls up to their first spin_lock_irqsave.  Calls with a device or an
\* offset that does not exist return before that and change nothing.
InstallCall(p, d, ack) ==
  /\ Ioctl(p)
  /\ SetProc(p, [proc[p] EXCEPT !.pc = "save",
       !.call = [op |-> "inst", dev |-> d, ack |-> ack, irq |-> IrqOf[d]]])
  /\ UNCHANGED irq

FreeCall(p, d) ==
  /\ Ioctl(p)
  /\ SetProc(p, [proc[p] EXCEPT !.pc = "save",
       !.call = [op |-> "free", dev |-> d, irq |-> IrqOf[d]]])
  /\ UNCHANGED irq

\* An ACK_IRQ for a line that is not handled returns -ESRCH.
AckCall(p, i) ==
  /\ irq[i].handled
  /\ Ioctl(p)
  /\ SetProc(p, [proc[p] EXCEPT !.pc = "save", !.asleep = TRUE,
       !.call = [op |-> "ack", irq |-> i]])
  /\ SetIrq(i, [irq[i] EXCEPT !.wait = @ \cup {p}])

\* The return to user space, where interrupts are enabled.
Return(p) ==
  /\ SetProc(p, InUser)
  /\ bkl' = NoProc
  /\ UNCHANGED <<opened, reg, hpc, asserted, module, toFree>>

----------------------------------------------------------------------------
\* Variant: interrupts are disabled before their state is saved.
SaveLate(p) ==
  /\ At(p, "save")
  /\ SetIrq(Line(p), [Entry(p) EXCEPT !.flags = FALSE])
  /\ SetProc(p, [proc[p] EXCEPT !.pc = "spin", !.ie = FALSE])
  /\ UNCHANGED kernel

\* spin_lock_irqsave: the interrupt state goes to the shared flags before the
\* lock is taken.
Save(p) ==
  /\ At(p, "save")
  /\ SetIrq(Line(p), [Entry(p) EXCEPT !.flags = proc[p].ie])
  /\ SetProc(p, [proc[p] EXCEPT !.pc = "spin", !.ie = FALSE])
  /\ UNCHANGED kernel

\* On one processor the spinlock is compiled away.
Acquire(i) ==
  /\ ~irq[i].lock
  /\ SetIrq(i, [irq[i] EXCEPT !.lock = SMP])

Lock(p) ==
  /\ At(p, "spin")
  /\ Acquire(Line(p))
  /\ Goto(p, "crit")
  /\ UNCHANGED kernel

\* spin_unlock_irqrestore; INSTALL_IRQ and FREE_IRQ end with it.
UnlockReturn(p) ==
  /\ At(p, "unlock") /\ proc[p].call.op # "ack"
  /\ SetIrq(Line(p), [Entry(p) EXCEPT !.lock = FALSE])
  /\ Return(p)

UnlockAck(p) ==
  /\ At(p, "unlock") /\ proc[p].call.op = "ack"
  /\ SetIrq(Line(p), [Entry(p) EXCEPT !.lock = FALSE])
  /\ SetProc(p, [proc[p] EXCEPT !.pc = "test", !.ie = Entry(p).flags])
  /\ UNCHANGED kernel

----------------------------------------------------------------------------
\* Variant: the lock stays taken.
InstallBusyKeepsLock(p) ==
  InCall(p, "inst") /\ Entry(p).handled /\ Return(p) /\ UNCHANGED irq

\* dhahelper_install_irq inside the lock: -EBUSY
InstallBusy(p) ==
  /\ InCall(p, "inst") /\ Entry(p).handled
  /\ Goto(p, "unlock")
  /\ UNCHANGED <<irq, kernel>>

\* Variant: an interrupt that nobody took survives the set-up.
InstallResetKeepsRcvd(p) ==
  /\ InCall(p, "inst") /\ ~Entry(p).handled
  /\ SetIrq(Line(p), [Zeroed EXCEPT
       !.ack_addr = IF proc[p].call.ack THEN Device(p) ELSE NoDev,
       !.dev = Device(p), !.rcvd = Entry(p).rcvd])
  /\ Goto(p, "req")
  /\ UNCHANGED kernel

\* The entry is set up from nothing, its lock and the saved flags included,
\* although the caller holds the lock.
InstallReset(p) ==
  /\ InCall(p, "inst") /\ ~Entry(p).handled
  /\ SetIrq(Line(p), [Zeroed EXCEPT
       !.ack_addr = IF proc[p].call.ack THEN Device(p) ELSE NoDev,
       !.dev = Device(p)])
  /\ Goto(p, "req")
  /\ UNCHANGED kernel

InstallRequest(p) ==
  /\ At(p, "req") /\ reg[Device(p)] < MaxReg
  /\ reg' = [reg EXCEPT ![Device(p)] = @ + 1]
  /\ Goto(p, "copy")
  /\ UNCHANGED <<irq, opened, bkl, hpc, asserted, module, toFree>>

\* Variant: the result of request_irq is not looked at.
InstallRefusedIgnored(p) ==
  /\ At(p, "req")
  /\ SetIrq(Line(p), [Entry(p) EXCEPT !.handled = TRUE])
  /\ Goto(p, "unlock")
  /\ UNCHANGED kernel

\* request_irq fails.
InstallRefused(p) ==
  /\ At(p, "req")
  /\ Goto(p, "unlock")
  /\ UNCHANGED <<irq, kernel>>

\* Variant: handled is not set.
InstallDoneUnmarked(p) ==
  At(p, "copy") /\ Goto(p, "unlock") /\ UNCHANGED <<irq, kernel>>

\* The line number is copied to the caller, or the copy faults.
InstallDone(p) ==
  /\ At(p, "copy")
  /\ SetIrq(Line(p), [Entry(p) EXCEPT !.handled = TRUE])
  /\ Goto(p, "unlock")
  /\ UNCHANGED kernel

InstallFault(p) ==
  /\ At(p, "copy") /\ CopyFaults
  /\ Goto(p, "unlock")
  /\ UNCHANGED <<irq, kernel>>

----------------------------------------------------------------------------
\* dhahelper_free_irq inside the lock.  free_irq is asked for the device of the
\* argument; when it finds a registration it waits for a running handler.
FreeUnhandled(p) ==
  /\ InCall(p, "free") /\ ~Entry(p).handled
  /\ Goto(p, "unlock")
  /\ UNCHANGED <<irq, kernel>>

\* Variant: free_irq gives back without looking for a registration.
FreeUnregisteredAnyway(p) ==
  /\ InCall(p, "free") /\ Entry(p).handled /\ reg[Device(p)] = 0
  /\ reg' = [reg EXCEPT ![Device(p)] = @ - 1]
  /\ Goto(p, "sync")
  /\ UNCHANGED <<irq, opened, bkl, hpc, asserted, module, toFree>>

FreeUnregistered(p) ==
  /\ InCall(p, "free") /\ Entry(p).handled /\ reg[Device(p)] = 0
  /\ SetIrq(Line(p), [Entry(p) EXCEPT !.handled = FALSE])
  /\ Goto(p, "unlock")
  /\ UNCHANGED kernel

FreeRegistered(p) ==
  /\ InCall(p, "free") /\ Entry(p).handled /\ reg[Device(p)] > 0
  /\ reg' = [reg EXCEPT ![Device(p)] = @ - 1]
  /\ Goto(p, "sync")
  /\ UNCHANGED <<irq, opened, bkl, hpc, asserted, module, toFree>>

FreeSync(p) ==
  /\ At(p, "sync") /\ hpc[Line(p)] = "idle"
  /\ SetIrq(Line(p), [Entry(p) EXCEPT !.handled = FALSE])
  /\ Goto(p, "unlock")
  /\ UNCHANGED kernel

----------------------------------------------------------------------------
\* The loop of dhahelper_ack_irq.
AckRead(p) ==
  /\ InCall(p, "ack")
  /\ SetProc(p, [proc[p] EXCEPT !.pc = "unlock", !.r = Entry(p).rcvd])
  /\ UNCHANGED <<irq, kernel>>

\* rcvd is cleared outside the lock.
AckTake(p) ==
  /\ At(p, "test") /\ proc[p].r
  /\ SetIrq(Line(p), [Entry(p) EXCEPT !.rcvd = FALSE, !.got = @ + 1,
                        !.wait = @ \ {p}])
  /\ Return(p)

\* Variant: the signal counts only when there is an interrupt to take.
AckInterruptedLate(p) ==
  /\ At(p, "test") /\ proc[p].r /\ proc[p].sig
  /\ SetIrq(Line(p), [Entry(p) EXCEPT !.wait = @ \ {p}])
  /\ Return(p)

AckInterrupted(p) ==
  /\ At(p, "test") /\ ~proc[p].r /\ proc[p].sig
  /\ SetIrq(Line(p), [Entry(p) EXCEPT !.wait = @ \ {p}])
  /\ Return(p)

\* Variant: the task state is set after rcvd was read.
AckScheduleLate(p) ==
  /\ At(p, "test") /\ ~proc[p].r /\ ~proc[p].sig
  /\ SetProc(p, [proc[p] EXCEPT !.pc = "sleep", !.asleep = TRUE])
  /\ bkl' = NoProc
  /\ UNCHANGED <<irq, opened, reg, hpc, asserted, module, toFree>>

\* schedule() gives the processor and the big kernel lock away.  The state of
\* the task is set once, before the loop: after a wake-up that found nothing
\* the process comes back without sleeping.
AckSchedule(p) ==
  /\ At(p, "test") /\ ~proc[p].r /\ ~proc[p].sig
  /\ Goto(p, "sleep")
  /\ bkl' = NoProc
  /\ UNCHANGED <<irq, opened, reg, hpc, asserted, module, toFree>>

\* Variant: the big kernel lock is not taken again.
AckResumeUnlocked(p) ==
  At(p, "sleep") /\ ~proc[p].asleep /\ Goto(p, "save") /\ UNCHANGED <<irq, kernel>>

AckResume(p) ==
  /\ At(p, "sleep") /\ ~proc[p].asleep
  /\ bkl = NoProc
  /\ bkl' = p
  /\ Goto(p, "save")
  /\ UNCHANGED <<irq, opened, reg, hpc, asserted, module, toFree>>

\* A signal wakes an interruptible sleeper.
Signal(p) ==
  /\ CpuFree /\ proc[p].call.op = "ack" /\ ~proc[p].sig
  /\ SetProc(p, [proc[p] EXCEPT !.sig = TRUE, !.asleep = FALSE])
  /\ UNCHANGED <<irq, kernel>>

----------------------------------------------------------------------------
\* The device raises its line, or a program clears it through the device's own
\* registers.
DevToggle(d) ==
  /\ asserted' = IF d \in asserted THEN asserted \ {d} ELSE asserted \cup {d}
  /\ UNCHANGED <<irq, proc, opened, bkl, reg, hpc, module, toFree>>

HGoto(i, from, to) ==
  /\ hpc[i] = from
  /\ hpc' = [hpc EXCEPT ![i] = to]
  /\ UNCHANGED <<opened, bkl, reg, module, toFree>>

\* dhahelper_irq_handler.  The kernel calls it when a device holds the line and
\* the handler is registered on it; it is registered without SA_INTERRUPT, so
\* it starts, and saves, with interrupts enabled.
HandlerEnter(i) ==
  /\ \E d \in asserted : IrqOf[d] = i
  /\ \E d \in Devs : IrqOf[d] = i /\ reg[d] > 0
  /\ ~SMP /\ bkl \in Procs => proc[bkl].ie
  /\ irq[i].count < MaxCount
  /\ HGoto(i, "idle", "spin")
  /\ SetIrq(i, [irq[i] EXCEPT !.flags = TRUE])
  /\ UNCHANGED <<proc, asserted>>

HandlerLock(i) ==
  /\ HGoto(i, "spin", "crit")
  /\ Acquire(i)
  /\ UNCHANGED <<proc, asserted>>

HandlerMark(i) ==
  /\ irq[i].handled
  /\ HGoto(i, "crit", "wake")
  /\ SetIrq(i, [irq[i] EXCEPT !.rcvd = TRUE, !.count = @ + 1])
  /\ asserted' = asserted \ {irq[i].ack_addr}
  /\ UNCHANGED proc

HandlerIgnore(i) ==
  /\ ~irq[i].handled
  /\ HGoto(i, "crit", "unlock")
  /\ UNCHANGED <<irq, proc, asserted>>

\* Variant: nobody is woken.
HandlerWakeNobody(i) ==
  HGoto(i, "wake", "unlock") /\ UNCHANGED <<irq, proc, asserted>>

HandlerWake(i) ==
  /\ HGoto(i, "wake", "unlock")
  /\ proc' = [p \in Procs |->
       [proc[p] EXCEPT !.asleep = @ /\ p \notin irq[i].wait]]
  /\ UNCHANGED <<irq, asserted>>

HandlerUnlock(i) ==
  /\ HGoto(i, "unlock", "idle")
  /\ SetIrq(i, [irq[i] EXCEPT !.lock = FALSE])
  /\ UNCHANGED <<proc, asserted>>

----------------------------------------------------------------------------
\* exit_dhahelper: the module's use count lets it start only when no descriptor
\* is open; it frees the handled lines one after the other, with the device of
\* the table.
ExitBegin ==
  /\ CpuFree /\ module = "loaded" /\ opened = {}
  /\ module' = "exiting"
  /\ toFree' = Irqs
  /\ UNCHANGED <<irq, proc, opened, bkl, reg, hpc, asserted>>

\* Does free_irq find a registration when exit visits the line?
ExitFinds(i) == irq[i].handled /\ reg[irq[i].dev] > 0

ExitFree(i) ==
  /\ CpuFree /\ module = "exiting" /\ i \in toFree
  /\ ExitFinds(i) => hpc[i] = "idle"
  /\ toFree' = toFree \ {i}
  /\ reg' = [d \in Devs |-> IF ExitFinds(i) /\ d = irq[i].dev THEN reg[d] - 1
                                                              ELSE reg[d]]
  /\ UNCHANGED <<irq, proc, opened, bkl, hpc, asserted, module>>

ExitEnd ==
  /\ CpuFree /\ module = "exiting" /\ toFree = {}
  /\ module' = "unloaded"
  /\ UNCHANGED <<irq, proc, opened, bkl, reg, hpc, asserted, toFree>>

InitModule ==
  /\ CpuFree /\ module = "unloaded"
  /\ module' = "loaded"
  /\ irq' = [i \in Irqs |-> Zeroed]
  /\ UNCHANGED <<proc, opened, bkl, reg, hpc, asserted, toFree>>

----------------------------------------------------------------------------
\* The steps the kernel takes once a process has called it.
KernelStep(p) ==
  \/ Save(p) \/ Lock(p) \/ UnlockReturn(p) \/ UnlockAck(p)
  \/ InstallBusy(p) \/ InstallReset(p) \/ InstallRequest(p) \/ InstallRefused(p)
  \/ InstallDone(p) \/ InstallFault(p)
  \/ FreeUnhandled(p) \/ FreeUnregistered(p) \/ FreeRegistered(p) \/ FreeSync(p)
  \/ AckRead(p) \/ AckTake(p) \/ AckInterrupted(p) \/ AckSchedule(p) \/ AckResume(p)

UserStep(p) ==
  \/ Open(p) \/ Release(p) \/ Signal(p)
  \/ \E d \in Devs, ack \in BOOLEAN : InstallCall(p, d, ack)
  \/ \E d \in Devs : FreeCall(p, d)
  \/ \E i \in Irqs : AckCall(p, i)

HandlerStep(i) == HandlerLock(i) \/ HandlerMark(i) \/ HandlerIgnore(i)
                    \/ HandlerWake(i) \/ HandlerUnlock(i)

ModuleStep == ExitBegin \/ (\E i \in Irqs : ExitFree(i)) \/ ExitEnd \/ InitModule

Next ==
  \/ \E p \in Procs : UserStep(p) \/ KernelStep(p)
  \/ \E i \in Irqs : HandlerEnter(i) \/ HandlerStep(i)
  \/ \E d \in Devs : DevToggle(d)
  \/ ModuleStep

Spec == Init /\ [][Next]_vars

\* A handler that has started goes on; a process inside the kernel is scheduled
\* again and again, however often interrupts and other holders of the big
\* kernel lock come between.
FairSpec ==
  /\ Spec
  /\ \A i \in Irqs : WF_vars(HandlerStep(i))
  /\ \A p \in Procs : SF_vars(KernelStep(p))

----------------------------------------------------------------------------
\* Properties.

Inside(p, i) ==
  proc[p].pc \in {"crit", "req", "copy", "sync", "unlock"} /\ Line(p) = i

\* A process that sleeps in ACK_IRQ on the wait queue of a line has nothing to
\* take there, or the handler is about to wake it: dhahelper_ack_irq goes to
\* sleep state before it reads rcvd, the handler sets rcvd before it wakes.
NoLostWakeup ==
  \A p \in Procs : \A i \in Irqs :
    /\ proc[p].pc = "sleep" /\ proc[p].asleep
    /\ p \in irq[i].wait /\ irq[i].rcvd
    => hpc[i] = "wake"

\* Every ACK_IRQ answered 0 stands for an interrupt of its own since the last
\* installation, and a pending one is not counted among the answered ones, even
\* though rcvd is cleared outside the lock.
PendingAccounted ==
  \A i \in Irqs : irq[i].got + (IF irq[i].rcvd THEN 1 ELSE 0) <= irq[i].count

\* dhahelper_ack_irq calls schedule() with interrupts enabled, although the
\* state it restores passes through the flags field all takers share.
NoSleepWithIrqsOff == \A p \in Procs : proc[p].pc = "sleep" => proc[p].ie

\* While a line is handled its entry and the kernel agree: the handler is
\* registered for the device of the installation, except while FREE_IRQ or exit
\* is taking it away, and acknowledges in the register of that device and of no
\* other, whatever requests were refused since.
EntryMatchesKernel ==
  \A i \in Irqs : irq[i].handled =>
    /\ \/ irq[i].dev \in Devs /\ reg[irq[i].dev] > 0
       \/ \E p \in Procs : proc[p].pc = "sync" /\ Line(p) = i
       \/ module # "loaded"
    /\ irq[i].ack_addr \in {NoDev, irq[i].dev}

\* A taken spinlock has an actor inside that will give it back, although
\* INSTALL_IRQ reinitialises the lock it holds.
LockHasHolder ==
  \A i \in Irqs : irq[i].lock =>
    (\E p \in Procs : Inside(p, i)) \/ hpc[i] \in {"crit", "wake", "unlock"}

\* After exit_dhahelper no registration points into the removed module, even
\* when an owner closed its descriptor, or died, without FREE_IRQ.
UnloadClean == module = "unloaded" => \A d \in Devs : reg[d] = 0

\* INSTALL_IRQ and FREE_IRQ return, and a signal ends a wait, also that of a process
\* whose line was freed and installed again, so that it is on no wait queue.
CallsReturn ==
  \A p \in Procs :
    /\ (proc[p].call.op \in {"inst", "free"}) ~> (proc[p].pc = "user")
    /\ proc[p].sig ~> (proc[p].pc = "user")

\* A pending interrupt with someone on the wait queue is taken (or the queue
\* empties).
PendingTaken ==
  \A i \in Irqs : (irq[i].rcvd /\ irq[i].wait # {})
                    ~> (~irq[i].rcvd \/ irq[i].wait = {})

\* The helper implements the event channel.
Channel == INSTANCE IrqChannel WITH
  active  <- [i \in Irqs |-> irq[i].handled],
  pending <- [i \in Irqs |-> irq[i].rcvd],
  seen    <- [i \in Irqs |-> irq[i].count],
  taken   <- [i \in Irqs |-> irq[i].got]
ImplementsChannel == Channel!ChanSpec
=============================================================================
