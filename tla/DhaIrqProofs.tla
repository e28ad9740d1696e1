---------------------------- MODULE DhaIrqProofs ----------------------------
(***************************************************************************)
(* Theorems about DhaIrq for every set of processes, lines and devices,    *)
(* every number of processors and every bound.                             *)
(*                                                                         *)
(* The inductive invariant IInv says what the big kernel lock is worth:    *)
(* one process at a time is between its system call and schedule(), so     *)
(* what a process read stays true until it sleeps or leaves.  TableInv,    *)
(* in the last part, adds what the entries of dha_irqs say.                *)
(***************************************************************************)
EXTENDS DhaIrq, TLAPS

\* The label of a process fits the call it is in.
CallInv ==
  \A p \in Procs :
    /\ proc[p].pc = "user" => proc[p] = InUser
    /\ proc[p].pc # "user" => proc[p].call \in Calls /\ p \in opened
    /\ proc[p].pc \in {"req", "copy"} => proc[p].call.op = "inst"
    /\ proc[p].pc = "sync" => proc[p].call.op = "free"
    /\ proc[p].pc \in {"test", "sleep"} => proc[p].call.op = "ack"

\* Who is inside a call and not asleep holds the big kernel lock.
BklInv == \A p \in Procs : proc[p].pc \notin {"user", "sleep"} => bkl = p

\* The module goes away only when nobody has a descriptor.
ModuleInv == module # "loaded" => opened = {}

\* A process waits on the queue of the line it called for and of no other.
WaitInv ==
  \A p \in Procs : \A i \in Irqs : p \in irq[i].wait =>
    proc[p].pc # "user" /\ proc[p].call.op = "ack" /\ Line(p) = i

\* What a process read in rcvd is still there.
ReadInv ==
  \A p \in Procs : proc[p].r =>
    /\ proc[p].pc \in {"unlock", "test"}
    /\ proc[p].call.op = "ack"
    /\ irq[Line(p)].rcvd

\* An entry under set-up has seen no interrupt.
SetupInv ==
  \A p \in Procs : proc[p].pc \in {"req", "copy"} =>
    /\ ~irq[Line(p)].handled /\ ~irq[Line(p)].rcvd
    /\ irq[Line(p)].count = 0 /\ irq[Line(p)].got = 0

\* Interrupts are enabled around ACK_IRQ's critical section, and the shared
\* flags say so while it lasts.
EnabledInv ==
  \A p \in Procs :
    /\ proc[p].pc \in {"user", "save", "test", "sleep"} => proc[p].ie
    /\ proc[p].pc \in {"spin", "crit", "unlock"} /\ proc[p].call.op = "ack"
         => irq[Line(p)].flags

\* A waiter that has looked and found nothing: nothing came since, or the
\* handler is about to wake it, or it is awake.
WakeInv ==
  \A p \in Procs : \A i \in Irqs :
    /\ proc[p].pc \in {"unlock", "test", "sleep"} /\ ~proc[p].r
    /\ proc[p].asleep /\ p \in irq[i].wait /\ irq[i].rcvd
    => hpc[i] = "wake"

IInv == /\ TypeOK /\ CallInv /\ BklInv /\ ModuleInv /\ WaitInv /\ ReadInv
        /\ SetupInv /\ EnabledInv /\ WakeInv /\ PendingAccounted

----------------------------------------------------------------------------
\* Typing of the two tables.

LEMMA ProcType ==
  ASSUME proc \in [Procs -> Tasks], NEW p \in Procs, NEW t \in Tasks, SetProc(p, t)
  PROVE  proc' \in [Procs -> Tasks]
  BY DEF SetProc

LEMMA IrqType ==
  ASSUME irq \in [Irqs -> DhaIrqs], NEW i \in Irqs, NEW e \in DhaIrqs, SetIrq(i, e)
  PROVE  irq' \in [Irqs -> DhaIrqs]
  BY DEF SetIrq

LEMMA GotoType ==
  ASSUME proc \in [Procs -> Tasks], NEW p \in Procs,
         NEW l \in {"user", "save", "spin", "crit", "req", "copy", "sync",
                    "unlock", "test", "sleep"}, Goto(p, l)
  PROVE  proc' \in [Procs -> Tasks]
  <1>1. [proc[p] EXCEPT !.pc = l] \in Tasks BY DEF Tasks
  <1> QED BY <1>1, ProcType DEF Goto

LEMMA InUserType == InUser \in Tasks
  BY DEF InUser, Tasks

\* The line and the device of a process inside a call.
LEMMA CallType ==
  ASSUME TypeOK, CallInv, NEW p \in Procs, proc[p].pc # "user"
  PROVE  /\ Line(p) \in Irqs /\ Entry(p) \in DhaIrqs
         /\ proc[p].call.op \in {"inst", "free"} => Device(p) \in Devs
         /\ proc[p].call.op = "inst" => proc[p].call.ack \in BOOLEAN
  <1>1. proc[p].call \in Calls BY DEF CallInv
  <1> QED BY <1>1 DEF TypeOK, Calls, Line, Entry, Device

\* What the handler and a successful ACK_IRQ leave of an entry.
LEMMA MarkType ==
  ASSUME NEW e \in DhaIrqs
  PROVE  [e EXCEPT !.rcvd = TRUE, !.count = @ + 1] \in DhaIrqs
  <1>1. e.count + 1 \in Nat BY DEF DhaIrqs
  <1>2. [e EXCEPT !.rcvd = TRUE].count = e.count BY DEF DhaIrqs
  <1> QED BY <1>1, <1>2 DEF DhaIrqs

LEMMA TakeType ==
  ASSUME NEW e \in DhaIrqs, NEW p \in Procs
  PROVE  [e EXCEPT !.rcvd = FALSE, !.got = @ + 1, !.wait = @ \ {p}] \in DhaIrqs
  <1>1. e.got + 1 \in Nat /\ e.wait \ {p} \in SUBSET Procs BY DEF DhaIrqs
  <1>2. [e EXCEPT !.rcvd = FALSE].got = e.got BY DEF DhaIrqs
  <1>3. [e EXCEPT !.rcvd = FALSE, !.got = @ + 1].wait = e.wait BY DEF DhaIrqs
  <1> QED BY <1>1, <1>2, <1>3 DEF DhaIrqs

----------------------------------------------------------------------------
\* One lemma per action: the action preserves the invariant.

LEMMA OpenOk ==
  ASSUME IInv, NEW p \in Procs, Open(p)
  PROVE  IInv'
  <1>1. TypeOK' BY DEF IInv, TypeOK, Open
  <1>2. CallInv' BY DEF IInv, CallInv, Open
  <1>3. BklInv' BY DEF IInv, BklInv, Open
  <1>4. ModuleInv' BY DEF ModuleInv, Open
  <1>5. WaitInv' BY DEF IInv, WaitInv, Line, Open
  <1>6. ReadInv' BY DEF IInv, ReadInv, Line, Open
  <1>7. SetupInv' BY DEF IInv, SetupInv, Line, Open
  <1>8. EnabledInv' BY DEF IInv, EnabledInv, Line, Open
  <1>9. WakeInv' BY DEF IInv, WakeInv, Open
  <1>10. PendingAccounted' BY DEF IInv, PendingAccounted, Open
  <1> QED BY <1>1, <1>2, <1>3, <1>4, <1>5, <1>6, <1>7, <1>8, <1>9, <1>10 DEF IInv

LEMMA ReleaseOk ==
  ASSUME IInv, NEW p \in Procs, Release(p)
  PROVE  IInv'
  <1>1. TypeOK' BY DEF IInv, TypeOK, Release
  <1>2. CallInv' BY DEF IInv, CallInv, Release, At
  <1>3. BklInv' BY DEF IInv, BklInv, Release
  <1>4. ModuleInv' BY DEF IInv, ModuleInv, Release
  <1>5. WaitInv' BY DEF IInv, WaitInv, Line, Release
  <1>6. ReadInv' BY DEF IInv, ReadInv, Line, Release
  <1>7. SetupInv' BY DEF IInv, SetupInv, Line, Release
  <1>8. EnabledInv' BY DEF IInv, EnabledInv, Line, Release
  <1>9. WakeInv' BY DEF IInv, WakeInv, Release
  <1>10. PendingAccounted' BY DEF IInv, PendingAccounted, Release
  <1> QED BY <1>1, <1>2, <1>3, <1>4, <1>5, <1>6, <1>7, <1>8, <1>9, <1>10 DEF IInv

LEMMA SignalOk ==
  ASSUME IInv, NEW p \in Procs, Signal(p)
  PROVE  IInv'
  <1>0. Line(p) \in Irqs /\ Entry(p) \in DhaIrqs
    BY CallType DEF IInv, Signal, CallInv, InUser, NoCall
  <1>a. proc[p].pc # "user" BY DEF IInv, CallInv, Signal, InUser, NoCall
  <1>1. TypeOK'
    <2>1. [proc[p] EXCEPT !.sig = TRUE, !.asleep = FALSE] \in Tasks
      BY ZenonT(40) DEF IInv, TypeOK, Tasks
    <2>2. proc' \in [Procs -> Tasks] BY <2>1, ProcType DEF IInv, TypeOK, Signal
    <2> QED BY <2>2 DEF IInv, TypeOK, Signal, kernel
  <1>2. CallInv'
    <2>1. proc[p].call \in Calls /\ p \in opened BY <1>a DEF IInv, CallInv
    <2>2. /\ proc'[p].pc = proc[p].pc /\ proc'[p].call = proc[p].call
          /\ \A q \in Procs \ {p} : proc'[q] = proc[q]
      BY DEF Signal, SetProc
    <2> QED BY <1>a, <2>1, <2>2 DEF IInv, CallInv, Signal, kernel
  <1>3. BklInv' BY DEF IInv, BklInv, Signal, SetProc, kernel
  <1>4. ModuleInv' BY DEF IInv, ModuleInv, Signal, kernel
  <1>5. WaitInv' BY <1>0, <1>a DEF IInv, WaitInv, Line, Signal, SetProc
  <1>6. ReadInv' BY <1>0, <1>a DEF IInv, ReadInv, Line, Signal, SetProc
  <1>7. SetupInv' BY <1>0, <1>a DEF IInv, SetupInv, Line, Signal, SetProc
  <1>8. EnabledInv' BY <1>0, <1>a DEF IInv, EnabledInv, Line, Signal, SetProc
  <1>9. WakeInv' BY <1>0, <1>a DEF IInv, WakeInv, Signal, SetProc, kernel
  <1>10. PendingAccounted' BY <1>0, <1>a DEF IInv, PendingAccounted, Signal
  <1> QED BY <1>1, <1>2, <1>3, <1>4, <1>5, <1>6, <1>7, <1>8, <1>9, <1>10 DEF IInv

LEMMA InstallCallOk ==
  ASSUME IInv, NEW p \in Procs, NEW d \in Devs, NEW ack \in BOOLEAN,
     InstallCall(p, d, ack)
  PROVE  IInv'
  <1>1. TypeOK'
    <2>1. [op |-> "inst", dev |-> d, ack |-> ack, irq |-> IrqOf[d]] \in Calls
      BY IrqOfAssumption DEF Calls
    <2>2. [proc[p] EXCEPT !.pc = "save",
          !.call = [op |-> "inst", dev |-> d, ack |-> ack, irq |-> IrqOf[d]]]
             \in Tasks
      BY <2>1, ZenonT(40) DEF IInv, TypeOK, Tasks
    <2>3. proc' \in [Procs -> Tasks] BY <2>2, ProcType DEF IInv, TypeOK, InstallCall
    <2> QED BY <2>3 DEF IInv, TypeOK, InstallCall, Ioctl
  <1>2. CallInv'
    BY IrqOfAssumption DEF IInv, CallInv, InstallCall, Ioctl, SetProc, Calls
  <1>3. BklInv' BY ProcsAssumption DEF IInv, BklInv, InstallCall, Ioctl, SetProc
  <1>4. ModuleInv' BY DEF IInv, ModuleInv, InstallCall, Ioctl
  <1>5. WaitInv' BY DEF IInv, WaitInv, Line, InstallCall, Ioctl, At, SetProc
  <1>6. ReadInv' BY DEF IInv, ReadInv, Line, InstallCall, Ioctl, At, SetProc
  <1>7. SetupInv' BY DEF IInv, SetupInv, Line, InstallCall, SetProc
  <1>8. EnabledInv' BY DEF IInv, EnabledInv, Line, InstallCall, Ioctl, At, SetProc
  <1>9. WakeInv' BY DEF IInv, WakeInv, InstallCall, Ioctl, SetProc
  <1>10. PendingAccounted' BY DEF IInv, PendingAccounted, InstallCall
  <1> QED BY <1>1, <1>2, <1>3, <1>4, <1>5, <1>6, <1>7, <1>8, <1>9, <1>10 DEF IInv

LEMMA FreeCallOk ==
  ASSUME IInv, NEW p \in Procs, NEW d \in Devs, FreeCall(p, d)
  PROVE  IInv'
  <1>1. TypeOK'
    <2>1. [op |-> "free", dev |-> d, irq |-> IrqOf[d]] \in Calls
      BY IrqOfAssumption DEF Calls
    <2>2. [proc[p] EXCEPT !.pc = "save",
          !.call = [op |-> "free", dev |-> d, irq |-> IrqOf[d]]] \in Tasks
      BY <2>1, ZenonT(40) DEF IInv, TypeOK, Tasks
    <2>3. proc' \in [Procs -> Tasks] BY <2>2, ProcType DEF IInv, TypeOK, FreeCall
    <2> QED BY <2>3 DEF IInv, TypeOK, FreeCall, Ioctl
  <1>2. CallInv'
    BY IrqOfAssumption DEF IInv, CallInv, FreeCall, Ioctl, SetProc, Calls
  <1>3. BklInv' BY ProcsAssumption DEF IInv, BklInv, FreeCall, Ioctl, SetProc
  <1>4. ModuleInv' BY DEF IInv, ModuleInv, FreeCall, Ioctl
  <1>5. WaitInv' BY DEF IInv, WaitInv, Line, FreeCall, Ioctl, At, SetProc
  <1>6. ReadInv' BY DEF IInv, ReadInv, Line, FreeCall, Ioctl, At, SetProc
  <1>7. SetupInv' BY DEF IInv, SetupInv, Line, FreeCall, SetProc
  <1>8. EnabledInv' BY DEF IInv, EnabledInv, Line, FreeCall, Ioctl, At, SetProc
  <1>9. WakeInv' BY DEF IInv, WakeInv, FreeCall, Ioctl, SetProc
  <1>10. PendingAccounted' BY DEF IInv, PendingAccounted, FreeCall
  <1> QED BY <1>1, <1>2, <1>3, <1>4, <1>5, <1>6, <1>7, <1>8, <1>9, <1>10 DEF IInv

LEMMA AckCallOk ==
  ASSUME IInv, NEW p \in Procs, NEW i \in Irqs, AckCall(p, i)
  PROVE  IInv'
  <1>1. TypeOK'
    <2>1. [op |-> "ack", irq |-> i] \in Calls
      BY DEF Calls
    <2>2. [proc[p] EXCEPT !.pc = "save", !.asleep = TRUE,
          !.call = [op |-> "ack", irq |-> i]] \in Tasks
      BY <2>1, ZenonT(40) DEF IInv, TypeOK, Tasks
    <2>3. proc' \in [Procs -> Tasks] BY <2>2, ProcType DEF IInv, TypeOK, AckCall
    <2>4. [irq[i] EXCEPT !.wait = @ \cup {p}] \in DhaIrqs
      BY DEF IInv, TypeOK, DhaIrqs
    <2>5. irq' \in [Irqs -> DhaIrqs] BY <2>4, IrqType DEF IInv, TypeOK, AckCall
    <2> QED BY <2>3, <2>5 DEF IInv, TypeOK, AckCall, Ioctl
  <1>2. CallInv' BY DEF IInv, CallInv, AckCall, Ioctl, SetProc, Calls
  <1>3. BklInv' BY ProcsAssumption DEF IInv, BklInv, AckCall, Ioctl, SetProc
  <1>4. ModuleInv' BY DEF IInv, ModuleInv, AckCall, Ioctl
  <1>5. WaitInv'
    BY DEF IInv, TypeOK, WaitInv, Line, AckCall, Ioctl, At, SetProc, SetIrq
  <1>6. ReadInv' BY DEF IInv, ReadInv, Line, AckCall, Ioctl, At, SetProc, SetIrq
  <1>7. SetupInv' BY DEF IInv, SetupInv, Line, AckCall, SetProc, SetIrq
  <1>8. EnabledInv'
    BY DEF IInv, EnabledInv, Line, AckCall, Ioctl, At, SetProc, SetIrq
  <1>9. WakeInv' BY DEF IInv, WakeInv, AckCall, Ioctl, At, SetProc, SetIrq
  <1>10. PendingAccounted' BY DEF IInv, PendingAccounted, AckCall, SetIrq
  <1> QED BY <1>1, <1>2, <1>3, <1>4, <1>5, <1>6, <1>7, <1>8, <1>9, <1>10 DEF IInv

LEMMA SaveOk ==
  ASSUME IInv, NEW p \in Procs, Save(p)
  PROVE  IInv'
  <1>0. Line(p) \in Irqs /\ Entry(p) \in DhaIrqs
    BY CallType DEF IInv, Save, At
  <1>1. TypeOK'
    <2>1. [proc[p] EXCEPT !.pc = "spin", !.ie = FALSE] \in Tasks
      BY DEF IInv, TypeOK, Tasks
    <2>2. proc' \in [Procs -> Tasks] BY <2>1, ProcType DEF IInv, TypeOK, Save
    <2>3. [Entry(p) EXCEPT !.flags = proc[p].ie] \in DhaIrqs
      BY <1>0 DEF IInv, TypeOK, DhaIrqs, Tasks
    <2>4. irq' \in [Irqs -> DhaIrqs] BY <1>0, <2>3, IrqType DEF IInv, TypeOK, Save
    <2> QED BY <2>2, <2>4 DEF IInv, TypeOK, Save, kernel
  <1>2. CallInv' BY <1>0 DEF IInv, CallInv, Save, At, SetProc, kernel
  <1>3. BklInv' BY DEF IInv, BklInv, Save, At, SetProc, kernel
  <1>4. ModuleInv' BY DEF IInv, ModuleInv, Save, kernel
  <1>5. WaitInv' BY <1>0 DEF IInv, WaitInv, Line, Save, SetIrq, SetProc, Entry
  <1>6. ReadInv' BY <1>0 DEF IInv, ReadInv, Line, Save, At, SetIrq, SetProc, Entry
  <1>7. SetupInv'
    BY <1>0 DEF IInv, CallInv, SetupInv, BklInv, ModuleInv, DhaIrqs, Save, At,
        SetProc
  <1>8. EnabledInv'
    BY <1>0 DEF IInv, TypeOK, EnabledInv, Line, Save, At, SetIrq, SetProc
  <1>9. WakeInv' BY <1>0 DEF IInv, WakeInv, Save, SetIrq, SetProc, Entry, kernel
  <1>10. PendingAccounted' BY <1>0 DEF IInv, PendingAccounted, Save, SetIrq, Entry
  <1> QED BY <1>1, <1>2, <1>3, <1>4, <1>5, <1>6, <1>7, <1>8, <1>9, <1>10 DEF IInv

LEMMA LockOk ==
  ASSUME IInv, NEW p \in Procs, Lock(p)
  PROVE  IInv'
  <1>0. Line(p) \in Irqs /\ Entry(p) \in DhaIrqs
    BY CallType DEF IInv, Lock, At
  <1>1. TypeOK'
    <2>1. proc' \in [Procs -> Tasks] BY GotoType DEF IInv, TypeOK, Lock
    <2>2. [irq[Line(p)] EXCEPT !.lock = SMP] \in DhaIrqs
      BY <1>0, FlagsAssumption DEF DhaIrqs, Entry
    <2>3. irq' \in [Irqs -> DhaIrqs]
      BY <1>0, <2>2, IrqType DEF IInv, TypeOK, Lock, Acquire
    <2> QED BY <2>1, <2>3 DEF IInv, TypeOK, Lock, kernel
  <1>2. CallInv' BY <1>0 DEF IInv, CallInv, Lock, At, Goto, SetProc, kernel
  <1>3. BklInv' BY DEF IInv, BklInv, Lock, At, Goto, SetProc, kernel
  <1>4. ModuleInv' BY DEF IInv, ModuleInv, Lock, kernel
  <1>5. WaitInv'
    BY <1>0 DEF IInv, WaitInv, Line, Lock, Acquire, Goto, SetIrq, SetProc
  <1>6. ReadInv'
    BY <1>0 DEF IInv, ReadInv, Line, Lock, At, Acquire, Goto, SetIrq, SetProc
  <1>7. SetupInv'
    BY <1>0 DEF IInv, SetupInv, Line, Lock, At, Acquire, Goto, SetIrq, SetProc
  <1>8. EnabledInv'
    BY <1>0 DEF IInv, EnabledInv, Line, Lock, At, Acquire, Goto, SetIrq, SetProc
  <1>9. WakeInv'
    BY <1>0 DEF IInv, WakeInv, Lock, Acquire, Goto, SetIrq, SetProc, kernel
  <1>10. PendingAccounted' BY <1>0 DEF IInv, PendingAccounted, Lock, Acquire, SetIrq
  <1> QED BY <1>1, <1>2, <1>3, <1>4, <1>5, <1>6, <1>7, <1>8, <1>9, <1>10 DEF IInv

LEMMA UnlockReturnOk ==
  ASSUME IInv, NEW p \in Procs, UnlockReturn(p)
  PROVE  IInv'
  <1>0. Line(p) \in Irqs /\ Entry(p) \in DhaIrqs
    BY CallType DEF IInv, UnlockReturn, At
  <1>1. TypeOK'
    <2>1. proc' \in [Procs -> Tasks]
      BY InUserType, ProcType DEF IInv, TypeOK, UnlockReturn, Return
    <2>2. [Entry(p) EXCEPT !.lock = FALSE] \in DhaIrqs
      BY <1>0 DEF DhaIrqs
    <2>3. irq' \in [Irqs -> DhaIrqs]
      BY <1>0, <2>2, IrqType DEF IInv, TypeOK, UnlockReturn
    <2> QED BY <2>1, <2>3 DEF IInv, TypeOK, UnlockReturn, Return
  <1>2. CallInv'
    BY <1>0 DEF IInv, CallInv, UnlockReturn, Return, SetProc, InUser, NoCall
  <1>3. BklInv'
    BY DEF IInv, TypeOK, BklInv, UnlockReturn, At, Return, SetProc, InUser
  <1>4. ModuleInv' BY DEF IInv, ModuleInv, UnlockReturn, Return
  <1>5. WaitInv'
    BY <1>0 DEF IInv, WaitInv, Line, UnlockReturn, Return, SetIrq, SetProc, Entry
  <1>6. ReadInv'
    BY <1>0 DEF IInv, ReadInv, Line, UnlockReturn, Return, SetIrq, SetProc, Entry,
        InUser
  <1>7. SetupInv'
    BY <1>0 DEF IInv, SetupInv, Line, UnlockReturn, Return, SetIrq, SetProc, Entry,
        InUser
  <1>8. EnabledInv'
    BY <1>0 DEF IInv, EnabledInv, Line, UnlockReturn, Return, SetIrq, SetProc,
        Entry, InUser
  <1>9. WakeInv'
    BY <1>0 DEF IInv, WakeInv, UnlockReturn, Return, SetIrq, SetProc, Entry, InUser
  <1>10. PendingAccounted'
    BY <1>0 DEF IInv, PendingAccounted, UnlockReturn, SetIrq, Entry
  <1> QED BY <1>1, <1>2, <1>3, <1>4, <1>5, <1>6, <1>7, <1>8, <1>9, <1>10 DEF IInv

LEMMA UnlockAckOk ==
  ASSUME IInv, NEW p \in Procs, UnlockAck(p)
  PROVE  IInv'
  <1>0. Line(p) \in Irqs /\ Entry(p) \in DhaIrqs
    BY CallType DEF IInv, UnlockAck, At
  <1>1. TypeOK'
    <2>1. Entry(p).flags \in BOOLEAN BY <1>0 DEF DhaIrqs
    <2>2. [proc[p] EXCEPT !.pc = "test", !.ie = Entry(p).flags] \in Tasks
      BY <2>1, ZenonT(40) DEF IInv, TypeOK, Tasks
    <2>3. proc' \in [Procs -> Tasks] BY <2>2, ProcType DEF IInv, TypeOK, UnlockAck
    <2>4. [Entry(p) EXCEPT !.lock = FALSE] \in DhaIrqs
      BY <1>0 DEF DhaIrqs
    <2>5. irq' \in [Irqs -> DhaIrqs]
      BY <1>0, <2>4, IrqType DEF IInv, TypeOK, UnlockAck
    <2> QED BY <2>3, <2>5 DEF IInv, TypeOK, UnlockAck, kernel
  <1>2. CallInv' BY <1>0 DEF IInv, CallInv, UnlockAck, At, SetProc, kernel
  <1>3. BklInv' BY DEF IInv, BklInv, UnlockAck, At, SetProc, kernel
  <1>4. ModuleInv' BY DEF IInv, ModuleInv, UnlockAck, kernel
  <1>5. WaitInv' BY <1>0 DEF IInv, WaitInv, Line, UnlockAck, SetIrq, SetProc, Entry
  <1>6. ReadInv' BY <1>0 DEF IInv, ReadInv, Line, UnlockAck, SetIrq, SetProc, Entry
  <1>7. SetupInv'
    BY <1>0 DEF IInv, TypeOK, SetupInv, DhaIrqs, Line, UnlockAck, SetIrq, SetProc,
        Entry
  <1>8. EnabledInv'
    BY <1>0 DEF IInv, EnabledInv, Line, UnlockAck, At, SetIrq, SetProc, Entry
  <1>9. WakeInv'
    BY <1>0 DEF IInv, WakeInv, UnlockAck, At, SetIrq, SetProc, Entry, kernel
  <1>10. PendingAccounted'
    BY <1>0 DEF IInv, PendingAccounted, UnlockAck, SetIrq, Entry
  <1> QED BY <1>1, <1>2, <1>3, <1>4, <1>5, <1>6, <1>7, <1>8, <1>9, <1>10 DEF IInv

LEMMA InstallBusyOk ==
  ASSUME IInv, NEW p \in Procs, InstallBusy(p)
  PROVE  IInv'
  <1>0. Line(p) \in Irqs /\ Entry(p) \in DhaIrqs
    BY CallType DEF IInv, InstallBusy, InCall, At
  <1>1. TypeOK'
    <2>1. proc' \in [Procs -> Tasks] BY GotoType DEF IInv, TypeOK, InstallBusy
    <2> QED BY <2>1 DEF IInv, TypeOK, InstallBusy, kernel
  <1>2. CallInv'
    BY <1>0 DEF IInv, CallInv, InstallBusy, InCall, At, Goto, SetProc, kernel
  <1>3. BklInv' BY DEF IInv, BklInv, InstallBusy, InCall, At, Goto, SetProc, kernel
  <1>4. ModuleInv' BY DEF IInv, ModuleInv, InstallBusy, kernel
  <1>5. WaitInv' BY <1>0 DEF IInv, WaitInv, Line, InstallBusy, Goto, SetProc
  <1>6. ReadInv' BY <1>0 DEF IInv, ReadInv, Line, InstallBusy, Goto, SetProc
  <1>7. SetupInv' BY <1>0 DEF IInv, SetupInv, Line, InstallBusy, Goto, SetProc
  <1>8. EnabledInv'
    BY <1>0 DEF IInv, EnabledInv, Line, InstallBusy, InCall, Goto, SetProc
  <1>9. WakeInv'
    BY <1>0 DEF IInv, WakeInv, WaitInv, InstallBusy, InCall, Goto, SetProc, kernel
  <1>10. PendingAccounted' BY <1>0 DEF IInv, PendingAccounted, InstallBusy
  <1> QED BY <1>1, <1>2, <1>3, <1>4, <1>5, <1>6, <1>7, <1>8, <1>9, <1>10 DEF IInv

LEMMA InstallResetOk ==
  ASSUME IInv, NEW p \in Procs, InstallReset(p)
  PROVE  IInv'
  <1>0. Line(p) \in Irqs /\ Entry(p) \in DhaIrqs
    BY CallType DEF IInv, InstallReset, InCall, At
  <1>1. TypeOK'
    <2>1. proc' \in [Procs -> Tasks] BY GotoType DEF IInv, TypeOK, InstallReset
    <2>2. Device(p) \in Devs /\ proc[p].call.ack \in BOOLEAN
      BY CallType DEF IInv, InstallReset, InCall, At
    <2>3. [Zeroed EXCEPT
          !.ack_addr = IF proc[p].call.ack THEN Device(p) ELSE NoDev,
          !.dev = Device(p)] \in DhaIrqs
      BY <2>2 DEF DhaIrqs, Zeroed
    <2>4. irq' \in [Irqs -> DhaIrqs]
      BY <1>0, <2>3, IrqType DEF IInv, TypeOK, InstallReset
    <2> QED BY <2>1, <2>4 DEF IInv, TypeOK, InstallReset, kernel
  <1>2. CallInv'
    BY <1>0 DEF IInv, CallInv, InstallReset, InCall, At, Goto, SetProc, kernel
  <1>3. BklInv' BY DEF IInv, BklInv, InstallReset, InCall, At, Goto, SetProc, kernel
  <1>4. ModuleInv' BY DEF IInv, ModuleInv, InstallReset, kernel
  <1>5. WaitInv'
    BY <1>0 DEF IInv, WaitInv, Line, InstallReset, Goto, SetProc, SetIrq, Zeroed
  <1>6. ReadInv'
    BY <1>0 DEF IInv, ReadInv, BklInv, InstallReset, InCall, At, Goto, SetProc
  <1>7. SetupInv'
    BY <1>0 DEF IInv, TypeOK, SetupInv, Line, InstallReset, Goto, SetProc, SetIrq,
        Zeroed
  <1>8. EnabledInv'
    BY <1>0 DEF IInv, EnabledInv, BklInv, InstallReset, InCall, At, Goto, SetProc
  <1>9. WakeInv'
    BY <1>0 DEF IInv, WakeInv, InstallReset, Goto, SetProc, SetIrq, kernel, Zeroed
  <1>10. PendingAccounted'
    BY <1>0 DEF IInv, PendingAccounted, InstallReset, SetIrq, Zeroed
  <1> QED BY <1>1, <1>2, <1>3, <1>4, <1>5, <1>6, <1>7, <1>8, <1>9, <1>10 DEF IInv

LEMMA InstallRequestOk ==
  ASSUME IInv, NEW p \in Procs, InstallRequest(p)
  PROVE  IInv'
  <1>0. Line(p) \in Irqs /\ Entry(p) \in DhaIrqs
    BY CallType DEF IInv, InstallRequest, At
  <1>1. TypeOK'
    <2>1. proc' \in [Procs -> Tasks] BY GotoType DEF IInv, TypeOK, InstallRequest
    <2>2. Device(p) \in Devs
      BY CallType DEF IInv, CallInv, InstallRequest, At
    <2> QED BY <2>1, <2>2 DEF IInv, TypeOK, InstallRequest
  <1>2. CallInv' BY <1>0 DEF IInv, CallInv, InstallRequest, At, Goto, SetProc
  <1>3. BklInv' BY DEF IInv, BklInv, InstallRequest, At, Goto, SetProc
  <1>4. ModuleInv' BY DEF IInv, ModuleInv, InstallRequest
  <1>5. WaitInv' BY <1>0 DEF IInv, WaitInv, Line, InstallRequest, Goto, SetProc
  <1>6. ReadInv' BY <1>0 DEF IInv, ReadInv, Line, InstallRequest, At, Goto, SetProc
  <1>7. SetupInv'
    BY <1>0 DEF IInv, SetupInv, Line, InstallRequest, At, Goto, SetProc
  <1>8. EnabledInv'
    BY <1>0 DEF IInv, EnabledInv, Line, InstallRequest, Goto, SetProc
  <1>9. WakeInv' BY <1>0 DEF IInv, WakeInv, InstallRequest, Goto, SetProc
  <1>10. PendingAccounted' BY <1>0 DEF IInv, PendingAccounted, InstallRequest
  <1> QED BY <1>1, <1>2, <1>3, <1>4, <1>5, <1>6, <1>7, <1>8, <1>9, <1>10 DEF IInv

LEMMA InstallRefusedOk ==
  ASSUME IInv, NEW p \in Procs, InstallRefused(p)
  PROVE  IInv'
  <1>0. Line(p) \in Irqs /\ Entry(p) \in DhaIrqs
    BY CallType DEF IInv, InstallRefused, At
  <1>1. TypeOK'
    <2>1. proc' \in [Procs -> Tasks] BY GotoType DEF IInv, TypeOK, InstallRefused
    <2> QED BY <2>1 DEF IInv, TypeOK, InstallRefused, kernel
  <1>2. CallInv'
    BY <1>0 DEF IInv, CallInv, InstallRefused, At, Goto, SetProc, kernel
  <1>3. BklInv' BY DEF IInv, BklInv, InstallRefused, At, Goto, SetProc, kernel
  <1>4. ModuleInv' BY DEF IInv, ModuleInv, InstallRefused, kernel
  <1>5. WaitInv' BY <1>0 DEF IInv, WaitInv, Line, InstallRefused, Goto, SetProc
  <1>6. ReadInv' BY <1>0 DEF IInv, ReadInv, Line, InstallRefused, Goto, SetProc
  <1>7. SetupInv' BY <1>0 DEF IInv, SetupInv, Line, InstallRefused, Goto, SetProc
  <1>8. EnabledInv'
    BY <1>0 DEF IInv, CallInv, EnabledInv, Line, InstallRefused, At, Goto, SetProc
  <1>9. WakeInv'
    BY <1>0 DEF IInv, CallInv, WakeInv, WaitInv, InstallRefused, At, Goto, SetProc,
        kernel
  <1>10. PendingAccounted' BY <1>0 DEF IInv, PendingAccounted, InstallRefused
  <1> QED BY <1>1, <1>2, <1>3, <1>4, <1>5, <1>6, <1>7, <1>8, <1>9, <1>10 DEF IInv

LEMMA InstallDoneOk ==
  ASSUME IInv, NEW p \in Procs, InstallDone(p)
  PROVE  IInv'
  <1>0. Line(p) \in Irqs /\ Entry(p) \in DhaIrqs
    BY CallType DEF IInv, InstallDone, At
  <1>1. TypeOK'
    <2>1. proc' \in [Procs -> Tasks] BY GotoType DEF IInv, TypeOK, InstallDone
    <2>2. [Entry(p) EXCEPT !.handled = TRUE] \in DhaIrqs
      BY <1>0 DEF DhaIrqs
    <2>3. irq' \in [Irqs -> DhaIrqs]
      BY <1>0, <2>2, IrqType DEF IInv, TypeOK, InstallDone
    <2> QED BY <2>1, <2>3 DEF IInv, TypeOK, InstallDone, kernel
  <1>2. CallInv' BY <1>0 DEF IInv, CallInv, InstallDone, At, Goto, SetProc, kernel
  <1>3. BklInv' BY DEF IInv, BklInv, InstallDone, At, Goto, SetProc, kernel
  <1>4. ModuleInv' BY DEF IInv, ModuleInv, InstallDone, kernel
  <1>5. WaitInv'
    BY <1>0 DEF IInv, WaitInv, Line, InstallDone, Goto, SetProc, SetIrq, Entry
  <1>6. ReadInv'
    BY <1>0 DEF IInv, ReadInv, Line, InstallDone, Goto, SetProc, SetIrq, Entry
  <1>7. SetupInv'
    BY <1>0 DEF IInv, TypeOK, CallInv, SetupInv, BklInv, InstallDone, At, Goto,
        SetProc
  <1>8. EnabledInv'
    BY <1>0 DEF IInv, CallInv, EnabledInv, Line, InstallDone, At, Goto, SetProc,
        SetIrq, Entry
  <1>9. WakeInv'
    BY <1>0 DEF IInv, CallInv, WakeInv, WaitInv, InstallDone, At, Goto, SetProc,
        SetIrq, Entry, kernel
  <1>10. PendingAccounted'
    BY <1>0 DEF IInv, PendingAccounted, InstallDone, SetIrq, Entry
  <1> QED BY <1>1, <1>2, <1>3, <1>4, <1>5, <1>6, <1>7, <1>8, <1>9, <1>10 DEF IInv

LEMMA InstallFaultOk ==
  ASSUME IInv, NEW p \in Procs, InstallFault(p)
  PROVE  IInv'
  <1>0. Line(p) \in Irqs /\ Entry(p) \in DhaIrqs
    BY CallType DEF IInv, InstallFault, At
  <1>1. TypeOK'
    <2>1. proc' \in [Procs -> Tasks] BY GotoType DEF IInv, TypeOK, InstallFault
    <2> QED BY <2>1 DEF IInv, TypeOK, InstallFault, kernel
  <1>2. CallInv' BY <1>0 DEF IInv, CallInv, InstallFault, At, Goto, SetProc, kernel
  <1>3. BklInv' BY DEF IInv, BklInv, InstallFault, At, Goto, SetProc, kernel
  <1>4. ModuleInv' BY DEF IInv, ModuleInv, InstallFault, kernel
  <1>5. WaitInv' BY <1>0 DEF IInv, WaitInv, Line, InstallFault, Goto, SetProc
  <1>6. ReadInv' BY <1>0 DEF IInv, ReadInv, Line, InstallFault, Goto, SetProc
  <1>7. SetupInv' BY <1>0 DEF IInv, SetupInv, Line, InstallFault, Goto, SetProc
  <1>8. EnabledInv'
    BY <1>0 DEF IInv, CallInv, EnabledInv, Line, InstallFault, At, Goto, SetProc
  <1>9. WakeInv'
    BY <1>0 DEF IInv, CallInv, WakeInv, WaitInv, InstallFault, At, Goto, SetProc,
        kernel
  <1>10. PendingAccounted' BY <1>0 DEF IInv, PendingAccounted, InstallFault
  <1> QED BY <1>1, <1>2, <1>3, <1>4, <1>5, <1>6, <1>7, <1>8, <1>9, <1>10 DEF IInv

LEMMA FreeUnhandledOk ==
  ASSUME IInv, NEW p \in Procs, FreeUnhandled(p)
  PROVE  IInv'
  <1>0. Line(p) \in Irqs /\ Entry(p) \in DhaIrqs
    BY CallType DEF IInv, FreeUnhandled, InCall, At
  <1>1. TypeOK'
    <2>1. proc' \in [Procs -> Tasks] BY GotoType DEF IInv, TypeOK, FreeUnhandled
    <2> QED BY <2>1 DEF IInv, TypeOK, FreeUnhandled, kernel
  <1>2. CallInv'
    BY <1>0 DEF IInv, CallInv, FreeUnhandled, InCall, At, Goto, SetProc, kernel
  <1>3. BklInv'
    BY DEF IInv, BklInv, FreeUnhandled, InCall, At, Goto, SetProc, kernel
  <1>4. ModuleInv' BY DEF IInv, ModuleInv, FreeUnhandled, kernel
  <1>5. WaitInv' BY <1>0 DEF IInv, WaitInv, Line, FreeUnhandled, Goto, SetProc
  <1>6. ReadInv' BY <1>0 DEF IInv, ReadInv, Line, FreeUnhandled, Goto, SetProc
  <1>7. SetupInv' BY <1>0 DEF IInv, SetupInv, Line, FreeUnhandled, Goto, SetProc
  <1>8. EnabledInv'
    BY <1>0 DEF IInv, EnabledInv, Line, FreeUnhandled, InCall, Goto, SetProc
  <1>9. WakeInv'
    BY <1>0 DEF IInv, WakeInv, WaitInv, FreeUnhandled, InCall, Goto, SetProc, kernel
  <1>10. PendingAccounted' BY <1>0 DEF IInv, PendingAccounted, FreeUnhandled
  <1> QED BY <1>1, <1>2, <1>3, <1>4, <1>5, <1>6, <1>7, <1>8, <1>9, <1>10 DEF IInv

LEMMA FreeUnregisteredOk ==
  ASSUME IInv, NEW p \in Procs, FreeUnregistered(p)
  PROVE  IInv'
  <1>0. Line(p) \in Irqs /\ Entry(p) \in DhaIrqs
    BY CallType DEF IInv, FreeUnregistered, InCall, At
  <1>1. TypeOK'
    <2>1. proc' \in [Procs -> Tasks] BY GotoType DEF IInv, TypeOK, FreeUnregistered
    <2>2. [Entry(p) EXCEPT !.handled = FALSE] \in DhaIrqs
      BY <1>0 DEF DhaIrqs
    <2>3. irq' \in [Irqs -> DhaIrqs]
      BY <1>0, <2>2, IrqType DEF IInv, TypeOK, FreeUnregistered
    <2> QED BY <2>1, <2>3 DEF IInv, TypeOK, FreeUnregistered, kernel
  <1>2. CallInv'
    BY <1>0 DEF IInv, CallInv, FreeUnregistered, InCall, At, Goto, SetProc, kernel
  <1>3. BklInv'
    BY DEF IInv, BklInv, FreeUnregistered, InCall, At, Goto, SetProc, kernel
  <1>4. ModuleInv' BY DEF IInv, ModuleInv, FreeUnregistered, kernel
  <1>5. WaitInv'
    BY <1>0 DEF IInv, WaitInv, Line, FreeUnregistered, Goto, SetProc, SetIrq, Entry
  <1>6. ReadInv'
    BY <1>0 DEF IInv, ReadInv, Line, FreeUnregistered, Goto, SetProc, SetIrq, Entry
  <1>7. SetupInv'
    BY <1>0 DEF IInv, SetupInv, ModuleInv, Line, FreeUnregistered, Goto, SetProc,
        SetIrq, Entry
  <1>8. EnabledInv'
    BY <1>0 DEF IInv, EnabledInv, Line, FreeUnregistered, InCall, Goto, SetProc,
        SetIrq, Entry
  <1>9. WakeInv'
    BY <1>0 DEF IInv, WakeInv, WaitInv, FreeUnregistered, InCall, Goto, SetProc,
        SetIrq, Entry, kernel
  <1>10. PendingAccounted'
    BY <1>0 DEF IInv, PendingAccounted, FreeUnregistered, SetIrq, Entry
  <1> QED BY <1>1, <1>2, <1>3, <1>4, <1>5, <1>6, <1>7, <1>8, <1>9, <1>10 DEF IInv

LEMMA FreeRegisteredOk ==
  ASSUME IInv, NEW p \in Procs, FreeRegistered(p)
  PROVE  IInv'
  <1>0. Line(p) \in Irqs /\ Entry(p) \in DhaIrqs
    BY CallType DEF IInv, FreeRegistered, InCall, At
  <1>1. TypeOK'
    <2>1. proc' \in [Procs -> Tasks] BY GotoType DEF IInv, TypeOK, FreeRegistered
    <2>2. Device(p) \in Devs
      BY CallType DEF IInv, FreeRegistered, At, InCall
    <2> QED BY <2>1, <2>2 DEF IInv, TypeOK, FreeRegistered
  <1>2. CallInv'
    BY <1>0 DEF IInv, CallInv, FreeRegistered, InCall, At, Goto, SetProc
  <1>3. BklInv' BY DEF IInv, BklInv, FreeRegistered, InCall, At, Goto, SetProc
  <1>4. ModuleInv' BY DEF IInv, ModuleInv, FreeRegistered
  <1>5. WaitInv' BY <1>0 DEF IInv, WaitInv, Line, FreeRegistered, Goto, SetProc
  <1>6. ReadInv'
    BY <1>0 DEF IInv, ReadInv, Line, FreeRegistered, InCall, Goto, SetProc
  <1>7. SetupInv' BY <1>0 DEF IInv, SetupInv, Line, FreeRegistered, Goto, SetProc
  <1>8. EnabledInv'
    BY <1>0 DEF IInv, EnabledInv, Line, FreeRegistered, Goto, SetProc
  <1>9. WakeInv' BY <1>0 DEF IInv, WakeInv, FreeRegistered, Goto, SetProc
  <1>10. PendingAccounted' BY <1>0 DEF IInv, PendingAccounted, FreeRegistered
  <1> QED BY <1>1, <1>2, <1>3, <1>4, <1>5, <1>6, <1>7, <1>8, <1>9, <1>10 DEF IInv

LEMMA FreeSyncOk ==
  ASSUME IInv, NEW p \in Procs, FreeSync(p)
  PROVE  IInv'
  <1>0. Line(p) \in Irqs /\ Entry(p) \in DhaIrqs
    BY CallType DEF IInv, FreeSync, At
  <1>1. TypeOK'
    <2>1. proc' \in [Procs -> Tasks] BY GotoType DEF IInv, TypeOK, FreeSync
    <2>2. [Entry(p) EXCEPT !.handled = FALSE] \in DhaIrqs
      BY <1>0 DEF DhaIrqs
    <2>3. irq' \in [Irqs -> DhaIrqs]
      BY <1>0, <2>2, IrqType DEF IInv, TypeOK, FreeSync
    <2> QED BY <2>1, <2>3 DEF IInv, TypeOK, FreeSync, kernel
  <1>2. CallInv' BY <1>0 DEF IInv, CallInv, FreeSync, At, Goto, SetProc, kernel
  <1>3. BklInv' BY DEF IInv, BklInv, FreeSync, At, Goto, SetProc, kernel
  <1>4. ModuleInv' BY DEF IInv, ModuleInv, FreeSync, kernel
  <1>5. WaitInv'
    BY <1>0 DEF IInv, WaitInv, Line, FreeSync, Goto, SetProc, SetIrq, Entry
  <1>6. ReadInv'
    BY <1>0 DEF IInv, ReadInv, Line, FreeSync, Goto, SetProc, SetIrq, Entry
  <1>7. SetupInv'
    BY <1>0 DEF IInv, TypeOK, SetupInv, Line, FreeSync, Goto, SetProc, SetIrq, Entry
  <1>8. EnabledInv'
    BY <1>0 DEF IInv, CallInv, EnabledInv, Line, FreeSync, At, Goto, SetProc,
        SetIrq, Entry
  <1>9. WakeInv'
    BY <1>0 DEF IInv, CallInv, WakeInv, WaitInv, FreeSync, At, Goto, SetProc,
        SetIrq, Entry, kernel
  <1>10. PendingAccounted'
    BY <1>0 DEF IInv, PendingAccounted, FreeSync, SetIrq, Entry
  <1> QED BY <1>1, <1>2, <1>3, <1>4, <1>5, <1>6, <1>7, <1>8, <1>9, <1>10 DEF IInv

LEMMA AckReadOk ==
  ASSUME IInv, NEW p \in Procs, AckRead(p)
  PROVE  IInv'
  <1>0. Line(p) \in Irqs /\ Entry(p) \in DhaIrqs
    BY CallType DEF IInv, AckRead, InCall, At
  <1>1. TypeOK'
    <2>1. Entry(p).rcvd \in BOOLEAN BY <1>0 DEF DhaIrqs
    <2>2. [proc[p] EXCEPT !.pc = "unlock", !.r = Entry(p).rcvd] \in Tasks
      BY <2>1, ZenonT(40) DEF IInv, TypeOK, Tasks
    <2>3. proc' \in [Procs -> Tasks] BY <2>2, ProcType DEF IInv, TypeOK, AckRead
    <2> QED BY <2>3 DEF IInv, TypeOK, AckRead, kernel
  <1>2. CallInv' BY <1>0 DEF IInv, CallInv, AckRead, InCall, At, SetProc, kernel
  <1>3. BklInv' BY DEF IInv, BklInv, AckRead, InCall, At, SetProc, kernel
  <1>4. ModuleInv' BY DEF IInv, ModuleInv, AckRead, kernel
  <1>5. WaitInv' BY <1>0 DEF IInv, WaitInv, Line, AckRead, SetProc
  <1>6. ReadInv' BY <1>0 DEF IInv, ReadInv, Line, AckRead, InCall, SetProc, Entry
  <1>7. SetupInv' BY <1>0 DEF IInv, SetupInv, Line, AckRead, SetProc
  <1>8. EnabledInv' BY <1>0 DEF IInv, EnabledInv, Line, AckRead, InCall, At, SetProc
  <1>9. WakeInv' BY <1>0 DEF IInv, WakeInv, WaitInv, AckRead, SetProc, Entry, kernel
  <1>10. PendingAccounted' BY <1>0 DEF IInv, PendingAccounted, AckRead
  <1> QED BY <1>1, <1>2, <1>3, <1>4, <1>5, <1>6, <1>7, <1>8, <1>9, <1>10 DEF IInv

LEMMA AckTakeOk ==
  ASSUME IInv, NEW p \in Procs, AckTake(p)
  PROVE  IInv'
  <1>0. Line(p) \in Irqs /\ Entry(p) \in DhaIrqs
    BY CallType DEF IInv, AckTake, At
  <1>1. TypeOK'
    <2>1. proc' \in [Procs -> Tasks]
      BY InUserType, ProcType DEF IInv, TypeOK, AckTake, Return
    <2>2. [Entry(p) EXCEPT !.rcvd = FALSE, !.got = @ + 1,
          !.wait = @ \ {p}] \in DhaIrqs
      BY <1>0, TakeType DEF TypeOK
    <2>3. irq' \in [Irqs -> DhaIrqs]
      BY <1>0, <2>2, IrqType DEF IInv, TypeOK, AckTake
    <2> QED BY <2>1, <2>3 DEF IInv, TypeOK, AckTake, Return
  <1>2. CallInv' BY <1>0 DEF IInv, CallInv, AckTake, Return, SetProc, InUser, NoCall
  <1>3. BklInv' BY DEF IInv, TypeOK, BklInv, AckTake, At, Return, SetProc, InUser
  <1>4. ModuleInv' BY DEF IInv, ModuleInv, AckTake, Return
  <1>5. WaitInv'
    BY <1>0 DEF IInv, TypeOK, WaitInv, Line, AckTake, Return, SetProc, SetIrq, Entry
  <1>6. ReadInv'
    BY <1>0 DEF IInv, TypeOK, ReadInv, BklInv, AckTake, Return, SetProc, InUser
  <1>7. SetupInv'
    BY <1>0 DEF IInv, TypeOK, SetupInv, BklInv, AckTake, At, Return, SetProc, InUser
  <1>8. EnabledInv'
    BY <1>0 DEF IInv, EnabledInv, Line, AckTake, Return, SetProc, SetIrq, Entry,
        InUser
  <1>9. WakeInv' BY <1>0 DEF IInv, WakeInv, AckTake, Return, SetProc, SetIrq, InUser
  <1>10. PendingAccounted'
    BY <1>0 DEF IInv, ReadInv, PendingAccounted, DhaIrqs, AckTake, SetIrq, Entry
  <1> QED BY <1>1, <1>2, <1>3, <1>4, <1>5, <1>6, <1>7, <1>8, <1>9, <1>10 DEF IInv

LEMMA AckInterruptedOk ==
  ASSUME IInv, NEW p \in Procs, AckInterrupted(p)
  PROVE  IInv'
  <1>0. Line(p) \in Irqs /\ Entry(p) \in DhaIrqs
    BY CallType DEF IInv, AckInterrupted, At
  <1>1. TypeOK'
    <2>1. proc' \in [Procs -> Tasks]
      BY InUserType, ProcType DEF IInv, TypeOK, AckInterrupted, Return
    <2>2. [Entry(p) EXCEPT !.wait = @ \ {p}] \in DhaIrqs
      BY <1>0 DEF DhaIrqs
    <2>3. irq' \in [Irqs -> DhaIrqs]
      BY <1>0, <2>2, IrqType DEF IInv, TypeOK, AckInterrupted
    <2> QED BY <2>1, <2>3 DEF IInv, TypeOK, AckInterrupted, Return
  <1>2. CallInv'
    BY <1>0 DEF IInv, CallInv, AckInterrupted, Return, SetProc, InUser, NoCall
  <1>3. BklInv'
    BY DEF IInv, TypeOK, BklInv, AckInterrupted, At, Return, SetProc, InUser
  <1>4. ModuleInv' BY DEF IInv, ModuleInv, AckInterrupted, Return
  <1>5. WaitInv'
    BY <1>0 DEF IInv, TypeOK, WaitInv, Line, AckInterrupted, Return, SetProc,
        SetIrq, Entry
  <1>6. ReadInv'
    BY <1>0 DEF IInv, ReadInv, Line, AckInterrupted, Return, SetProc, SetIrq, Entry,
        InUser
  <1>7. SetupInv'
    BY <1>0 DEF IInv, TypeOK, SetupInv, Line, AckInterrupted, Return, SetProc,
        SetIrq, Entry, InUser
  <1>8. EnabledInv'
    BY <1>0 DEF IInv, EnabledInv, Line, AckInterrupted, Return, SetProc, SetIrq,
        Entry, InUser
  <1>9. WakeInv'
    BY <1>0 DEF IInv, WakeInv, AckInterrupted, Return, SetProc, SetIrq, Entry,
        InUser
  <1>10. PendingAccounted'
    BY <1>0 DEF IInv, PendingAccounted, AckInterrupted, SetIrq, Entry
  <1> QED BY <1>1, <1>2, <1>3, <1>4, <1>5, <1>6, <1>7, <1>8, <1>9, <1>10 DEF IInv

LEMMA AckScheduleOk ==
  ASSUME IInv, NEW p \in Procs, AckSchedule(p)
  PROVE  IInv'
  <1>0. Line(p) \in Irqs /\ Entry(p) \in DhaIrqs
    BY CallType DEF IInv, AckSchedule, At
  <1>1. TypeOK'
    <2>1. proc' \in [Procs -> Tasks] BY GotoType DEF IInv, TypeOK, AckSchedule
    <2> QED BY <2>1 DEF IInv, TypeOK, AckSchedule
  <1>2. CallInv' BY <1>0 DEF IInv, CallInv, AckSchedule, At, Goto, SetProc
  <1>3. BklInv' BY DEF IInv, TypeOK, BklInv, AckSchedule, At, Goto, SetProc
  <1>4. ModuleInv' BY DEF IInv, ModuleInv, AckSchedule
  <1>5. WaitInv' BY <1>0 DEF IInv, WaitInv, Line, AckSchedule, Goto, SetProc
  <1>6. ReadInv' BY <1>0 DEF IInv, ReadInv, Line, AckSchedule, Goto, SetProc
  <1>7. SetupInv' BY <1>0 DEF IInv, SetupInv, Line, AckSchedule, Goto, SetProc
  <1>8. EnabledInv'
    BY <1>0 DEF IInv, EnabledInv, Line, AckSchedule, At, Goto, SetProc
  <1>9. WakeInv' BY <1>0 DEF IInv, WakeInv, AckSchedule, At, Goto, SetProc
  <1>10. PendingAccounted' BY <1>0 DEF IInv, PendingAccounted, AckSchedule
  <1> QED BY <1>1, <1>2, <1>3, <1>4, <1>5, <1>6, <1>7, <1>8, <1>9, <1>10 DEF IInv

LEMMA AckResumeOk ==
  ASSUME IInv, NEW p \in Procs, AckResume(p)
  PROVE  IInv'
  <1>0. Line(p) \in Irqs /\ Entry(p) \in DhaIrqs
    BY CallType DEF IInv, AckResume, At
  <1>1. TypeOK'
    <2>1. proc' \in [Procs -> Tasks] BY GotoType DEF IInv, TypeOK, AckResume
    <2> QED BY <2>1 DEF IInv, TypeOK, AckResume
  <1>2. CallInv' BY <1>0 DEF IInv, CallInv, AckResume, At, Goto, SetProc
  <1>3. BklInv' BY ProcsAssumption DEF IInv, BklInv, AckResume, Goto, SetProc
  <1>4. ModuleInv' BY DEF IInv, ModuleInv, AckResume
  <1>5. WaitInv' BY <1>0 DEF IInv, WaitInv, Line, AckResume, Goto, SetProc
  <1>6. ReadInv' BY <1>0 DEF IInv, ReadInv, Line, AckResume, At, Goto, SetProc
  <1>7. SetupInv' BY <1>0 DEF IInv, SetupInv, Line, AckResume, Goto, SetProc
  <1>8. EnabledInv' BY <1>0 DEF IInv, EnabledInv, Line, AckResume, At, Goto, SetProc
  <1>9. WakeInv' BY <1>0 DEF IInv, WakeInv, AckResume, Goto, SetProc
  <1>10. PendingAccounted' BY <1>0 DEF IInv, PendingAccounted, AckResume
  <1> QED BY <1>1, <1>2, <1>3, <1>4, <1>5, <1>6, <1>7, <1>8, <1>9, <1>10 DEF IInv

LEMMA DevToggleOk ==
  ASSUME IInv, NEW d \in Devs, DevToggle(d)
  PROVE  IInv'
  <1>1. TypeOK' BY DEF IInv, TypeOK, DevToggle
  <1>2. CallInv' BY DEF IInv, CallInv, DevToggle
  <1>3. BklInv' BY DEF IInv, BklInv, DevToggle
  <1>4. ModuleInv' BY DEF IInv, ModuleInv, DevToggle
  <1>5. WaitInv' BY DEF IInv, WaitInv, Line, DevToggle
  <1>6. ReadInv' BY DEF IInv, ReadInv, Line, DevToggle
  <1>7. SetupInv' BY DEF IInv, SetupInv, Line, DevToggle
  <1>8. EnabledInv' BY DEF IInv, EnabledInv, Line, DevToggle
  <1>9. WakeInv' BY DEF IInv, WakeInv, DevToggle
  <1>10. PendingAccounted' BY DEF IInv, PendingAccounted, DevToggle
  <1> QED BY <1>1, <1>2, <1>3, <1>4, <1>5, <1>6, <1>7, <1>8, <1>9, <1>10 DEF IInv

LEMMA HandlerEnterOk ==
  ASSUME IInv, NEW i \in Irqs, HandlerEnter(i)
  PROVE  IInv'
  <1>1. TypeOK'
    <2>1. [irq[i] EXCEPT !.flags = TRUE] \in DhaIrqs
      BY ZenonT(40) DEF IInv, TypeOK, DhaIrqs
    <2>2. irq' \in [Irqs -> DhaIrqs] BY <2>1, IrqType DEF IInv, TypeOK, HandlerEnter
    <2> QED BY <2>2 DEF IInv, TypeOK, HandlerEnter, HGoto
  <1>2. CallInv' BY DEF IInv, CallInv, HandlerEnter, HGoto
  <1>3. BklInv' BY DEF IInv, BklInv, HandlerEnter, HGoto
  <1>4. ModuleInv' BY DEF IInv, ModuleInv, HandlerEnter, HGoto
  <1>5. WaitInv' BY DEF IInv, WaitInv, Line, HandlerEnter, SetIrq
  <1>6. ReadInv' BY DEF IInv, ReadInv, Line, HandlerEnter, SetIrq
  <1>7. SetupInv' BY DEF IInv, SetupInv, Line, HandlerEnter, SetIrq
  <1>8. EnabledInv' BY DEF IInv, EnabledInv, Line, HandlerEnter, SetIrq
  <1>9. WakeInv' BY DEF IInv, WakeInv, HandlerEnter, HGoto, SetIrq
  <1>10. PendingAccounted' BY DEF IInv, PendingAccounted, HandlerEnter, SetIrq
  <1> QED BY <1>1, <1>2, <1>3, <1>4, <1>5, <1>6, <1>7, <1>8, <1>9, <1>10 DEF IInv

LEMMA HandlerLockOk ==
  ASSUME IInv, NEW i \in Irqs, HandlerLock(i)
  PROVE  IInv'
  <1>1. TypeOK'
    <2>1. [irq[i] EXCEPT !.lock = SMP] \in DhaIrqs
      BY FlagsAssumption DEF IInv, TypeOK, DhaIrqs
    <2>2. irq' \in [Irqs -> DhaIrqs]
      BY <2>1, IrqType DEF IInv, TypeOK, HandlerLock, Acquire
    <2> QED BY <2>2 DEF IInv, TypeOK, HandlerLock, HGoto
  <1>2. CallInv' BY DEF IInv, CallInv, HandlerLock, HGoto
  <1>3. BklInv' BY DEF IInv, BklInv, HandlerLock, HGoto
  <1>4. ModuleInv' BY DEF IInv, ModuleInv, HandlerLock, HGoto
  <1>5. WaitInv' BY DEF IInv, WaitInv, Line, HandlerLock, Acquire, SetIrq
  <1>6. ReadInv' BY DEF IInv, ReadInv, Line, HandlerLock, Acquire, SetIrq
  <1>7. SetupInv' BY DEF IInv, SetupInv, Line, HandlerLock, Acquire, SetIrq
  <1>8. EnabledInv' BY DEF IInv, EnabledInv, Line, HandlerLock, Acquire, SetIrq
  <1>9. WakeInv' BY DEF IInv, WakeInv, HandlerLock, HGoto, Acquire, SetIrq
  <1>10. PendingAccounted'
    BY DEF IInv, PendingAccounted, HandlerLock, Acquire, SetIrq
  <1> QED BY <1>1, <1>2, <1>3, <1>4, <1>5, <1>6, <1>7, <1>8, <1>9, <1>10 DEF IInv

LEMMA HandlerMarkOk ==
  ASSUME IInv, NEW i \in Irqs, HandlerMark(i)
  PROVE  IInv'
  <1>1. TypeOK'
    <2>1. [irq[i] EXCEPT !.rcvd = TRUE, !.count = @ + 1] \in DhaIrqs
      BY MarkType DEF IInv, TypeOK
    <2>2. irq' \in [Irqs -> DhaIrqs] BY <2>1, IrqType DEF IInv, TypeOK, HandlerMark
    <2> QED BY <2>2 DEF IInv, TypeOK, HandlerMark, HGoto
  <1>2. CallInv' BY DEF IInv, CallInv, HandlerMark, HGoto
  <1>3. BklInv' BY DEF IInv, BklInv, HandlerMark, HGoto
  <1>4. ModuleInv' BY DEF IInv, ModuleInv, HandlerMark, HGoto
  <1>5. WaitInv' BY DEF IInv, WaitInv, Line, HandlerMark, SetIrq
  <1>6. ReadInv' BY DEF IInv, ReadInv, Line, HandlerMark, SetIrq
  <1>7. SetupInv' BY DEF IInv, SetupInv, Line, HandlerMark, SetIrq
  <1>8. EnabledInv' BY DEF IInv, EnabledInv, Line, HandlerMark, SetIrq
  <1>9. WakeInv' BY DEF IInv, TypeOK, WakeInv, HandlerMark, HGoto, SetIrq
  <1>10. PendingAccounted'
    BY DEF IInv, TypeOK, PendingAccounted, DhaIrqs, HandlerMark, SetIrq
  <1> QED BY <1>1, <1>2, <1>3, <1>4, <1>5, <1>6, <1>7, <1>8, <1>9, <1>10 DEF IInv

LEMMA HandlerIgnoreOk ==
  ASSUME IInv, NEW i \in Irqs, HandlerIgnore(i)
  PROVE  IInv'
  <1>1. TypeOK' BY DEF IInv, TypeOK, HandlerIgnore, HGoto
  <1>2. CallInv' BY DEF IInv, CallInv, HandlerIgnore, HGoto
  <1>3. BklInv' BY DEF IInv, BklInv, HandlerIgnore, HGoto
  <1>4. ModuleInv' BY DEF IInv, ModuleInv, HandlerIgnore, HGoto
  <1>5. WaitInv' BY DEF IInv, WaitInv, Line, HandlerIgnore
  <1>6. ReadInv' BY DEF IInv, ReadInv, Line, HandlerIgnore
  <1>7. SetupInv' BY DEF IInv, SetupInv, Line, HandlerIgnore
  <1>8. EnabledInv' BY DEF IInv, EnabledInv, Line, HandlerIgnore
  <1>9. WakeInv' BY DEF IInv, WakeInv, HandlerIgnore, HGoto
  <1>10. PendingAccounted' BY DEF IInv, PendingAccounted, HandlerIgnore
  <1> QED BY <1>1, <1>2, <1>3, <1>4, <1>5, <1>6, <1>7, <1>8, <1>9, <1>10 DEF IInv

LEMMA HandlerWakeOk ==
  ASSUME IInv, NEW i \in Irqs, HandlerWake(i)
  PROVE  IInv'
  <1>0. ASSUME NEW p \in Procs
        PROVE  /\ proc'[p].pc = proc[p].pc /\ proc'[p].call = proc[p].call
               /\ proc'[p].ie = proc[p].ie /\ proc'[p].r = proc[p].r
               /\ proc'[p].asleep = (proc[p].asleep /\ p \notin irq[i].wait)
    BY DEF IInv, TypeOK, Tasks, HandlerWake
  <1>1. TypeOK'
    <2>1. proc' \in [Procs -> Tasks] BY ZenonT(40) DEF IInv, TypeOK, Tasks, HandlerWake
    <2> QED BY <2>1 DEF IInv, TypeOK, HandlerWake, HGoto
  <1>2. CallInv'
    <2> SUFFICES ASSUME NEW p \in Procs
                 PROVE  CallInv!(p)'
      BY DEF CallInv
    <2>1. CASE proc[p].pc = "user"
      <3>1. proc[p] = InUser BY <2>1 DEF IInv, CallInv
      <3>2. (proc[p].asleep /\ p \notin irq[i].wait) = FALSE BY <3>1 DEF InUser
      <3>3. proc'[p] = [InUser EXCEPT !.asleep = FALSE]
        BY <3>1, <3>2 DEF HandlerWake
      <3>4. proc'[p] = InUser BY <3>3, Zenon DEF InUser
      <3> QED BY <3>4 DEF InUser
    <2>2. CASE proc[p].pc # "user"
      BY <1>0, <2>2 DEF IInv, CallInv, HandlerWake, HGoto
    <2> QED BY <2>1, <2>2
  <1>3. BklInv' BY DEF IInv, TypeOK, BklInv, Tasks, HandlerWake, HGoto
  <1>4. ModuleInv' BY DEF IInv, ModuleInv, HandlerWake, HGoto
  <1>5. WaitInv' BY <1>0 DEF IInv, WaitInv, Line, HandlerWake
  <1>6. ReadInv' BY <1>0 DEF IInv, ReadInv, HandlerWake, Line
  <1>7. SetupInv' BY <1>0 DEF IInv, SetupInv, Line, HandlerWake
  <1>8. EnabledInv' BY <1>0 DEF IInv, EnabledInv, Line, HandlerWake
  <1>9. WakeInv'
    BY <1>0 DEF IInv, TypeOK, CallInv, WakeInv, BklInv, Tasks, DhaIrqs, HandlerWake,
        HGoto
  <1>10. PendingAccounted' BY <1>0 DEF IInv, PendingAccounted, HandlerWake
  <1> QED BY <1>1, <1>2, <1>3, <1>4, <1>5, <1>6, <1>7, <1>8, <1>9, <1>10 DEF IInv

LEMMA HandlerUnlockOk ==
  ASSUME IInv, NEW i \in Irqs, HandlerUnlock(i)
  PROVE  IInv'
  <1>1. TypeOK'
    <2>1. [irq[i] EXCEPT !.lock = FALSE] \in DhaIrqs
      BY ZenonT(40) DEF IInv, TypeOK, DhaIrqs
    <2>2. irq' \in [Irqs -> DhaIrqs]
      BY <2>1, IrqType DEF IInv, TypeOK, HandlerUnlock
    <2> QED BY <2>2 DEF IInv, TypeOK, HandlerUnlock, HGoto
  <1>2. CallInv' BY DEF IInv, CallInv, HandlerUnlock, HGoto
  <1>3. BklInv' BY DEF IInv, BklInv, HandlerUnlock, HGoto
  <1>4. ModuleInv' BY DEF IInv, ModuleInv, HandlerUnlock, HGoto
  <1>5. WaitInv' BY DEF IInv, WaitInv, Line, HandlerUnlock, SetIrq
  <1>6. ReadInv' BY DEF IInv, ReadInv, Line, HandlerUnlock, SetIrq
  <1>7. SetupInv' BY DEF IInv, SetupInv, Line, HandlerUnlock, SetIrq
  <1>8. EnabledInv' BY DEF IInv, EnabledInv, Line, HandlerUnlock, SetIrq
  <1>9. WakeInv' BY DEF IInv, WakeInv, HandlerUnlock, HGoto, SetIrq
  <1>10. PendingAccounted' BY DEF IInv, PendingAccounted, HandlerUnlock, SetIrq
  <1> QED BY <1>1, <1>2, <1>3, <1>4, <1>5, <1>6, <1>7, <1>8, <1>9, <1>10 DEF IInv

LEMMA ExitBeginOk ==
  ASSUME IInv, ExitBegin
  PROVE  IInv'
  <1>1. TypeOK' BY DEF IInv, TypeOK, ExitBegin
  <1>2. CallInv' BY DEF IInv, CallInv, ExitBegin
  <1>3. BklInv' BY DEF IInv, BklInv, ExitBegin
  <1>4. ModuleInv' BY DEF ModuleInv, ExitBegin
  <1>5. WaitInv' BY DEF IInv, WaitInv, Line, ExitBegin
  <1>6. ReadInv' BY DEF IInv, ReadInv, Line, ExitBegin
  <1>7. SetupInv' BY DEF IInv, SetupInv, Line, ExitBegin
  <1>8. EnabledInv' BY DEF IInv, EnabledInv, Line, ExitBegin
  <1>9. WakeInv' BY DEF IInv, WakeInv, ExitBegin
  <1>10. PendingAccounted' BY DEF IInv, PendingAccounted, ExitBegin
  <1> QED BY <1>1, <1>2, <1>3, <1>4, <1>5, <1>6, <1>7, <1>8, <1>9, <1>10 DEF IInv

LEMMA ExitFreeOk ==
  ASSUME IInv, NEW i \in Irqs, ExitFree(i)
  PROVE  IInv'
  <1>1. TypeOK' BY DEF IInv, TypeOK, ExitFree, ExitFinds
  <1>2. CallInv' BY DEF IInv, CallInv, ExitFree
  <1>3. BklInv' BY DEF IInv, BklInv, ExitFree
  <1>4. ModuleInv' BY DEF IInv, ModuleInv, ExitFree
  <1>5. WaitInv' BY DEF IInv, WaitInv, Line, ExitFree
  <1>6. ReadInv' BY DEF IInv, ReadInv, Line, ExitFree
  <1>7. SetupInv' BY DEF IInv, SetupInv, Line, ExitFree
  <1>8. EnabledInv' BY DEF IInv, EnabledInv, Line, ExitFree
  <1>9. WakeInv' BY DEF IInv, WakeInv, ExitFree
  <1>10. PendingAccounted' BY DEF IInv, PendingAccounted, ExitFree
  <1> QED BY <1>1, <1>2, <1>3, <1>4, <1>5, <1>6, <1>7, <1>8, <1>9, <1>10 DEF IInv

LEMMA ExitEndOk ==
  ASSUME IInv, ExitEnd
  PROVE  IInv'
  <1>1. TypeOK' BY DEF IInv, TypeOK, ExitEnd
  <1>2. CallInv' BY DEF IInv, CallInv, ExitEnd
  <1>3. BklInv' BY DEF IInv, BklInv, ExitEnd
  <1>4. ModuleInv' BY DEF IInv, ModuleInv, ExitEnd
  <1>5. WaitInv' BY DEF IInv, WaitInv, Line, ExitEnd
  <1>6. ReadInv' BY DEF IInv, ReadInv, Line, ExitEnd
  <1>7. SetupInv' BY DEF IInv, SetupInv, Line, ExitEnd
  <1>8. EnabledInv' BY DEF IInv, EnabledInv, Line, ExitEnd
  <1>9. WakeInv' BY DEF IInv, WakeInv, ExitEnd
  <1>10. PendingAccounted' BY DEF IInv, PendingAccounted, ExitEnd
  <1> QED BY <1>1, <1>2, <1>3, <1>4, <1>5, <1>6, <1>7, <1>8, <1>9, <1>10 DEF IInv

LEMMA InitModuleOk ==
  ASSUME IInv, InitModule
  PROVE  IInv'
  <1>1. TypeOK'
    <2>1. irq' \in [Irqs -> DhaIrqs] BY DEF InitModule, Zeroed, DhaIrqs
    <2> QED BY <2>1 DEF IInv, TypeOK, InitModule
  <1>2. CallInv' BY DEF IInv, CallInv, InitModule
  <1>3. BklInv' BY DEF IInv, BklInv, InitModule
  <1>4. ModuleInv' BY DEF ModuleInv, InitModule
  <1>5. WaitInv' BY DEF WaitInv, InitModule, Zeroed
  <1>6. ReadInv' BY DEF IInv, CallInv, ReadInv, ModuleInv, InitModule
  <1>7. SetupInv' BY DEF IInv, CallInv, SetupInv, ModuleInv, InitModule
  <1>8. EnabledInv' BY DEF IInv, CallInv, EnabledInv, ModuleInv, InitModule
  <1>9. WakeInv' BY DEF WakeInv, InitModule, Zeroed
  <1>10. PendingAccounted' BY DEF PendingAccounted, InitModule, Zeroed
  <1> QED BY <1>1, <1>2, <1>3, <1>4, <1>5, <1>6, <1>7, <1>8, <1>9, <1>10 DEF IInv

----------------------------------------------------------------------------
\* The invariant and what it gives.

LEMMA InitOk == Init => IInv
  <1> SUFFICES ASSUME Init PROVE IInv
    OBVIOUS
  <1>1. Zeroed \in DhaIrqs BY DEF Zeroed, DhaIrqs
  <1>2. TypeOK BY <1>1, InUserType DEF Init, TypeOK
  <1>3. CallInv /\ BklInv /\ ModuleInv /\ ReadInv /\ SetupInv /\ EnabledInv
    BY DEF Init, InUser, CallInv, BklInv, ModuleInv, ReadInv, SetupInv, EnabledInv
  <1>4. WaitInv /\ WakeInv /\ PendingAccounted
    BY DEF Init, Zeroed, WaitInv, WakeInv, PendingAccounted
  <1> QED BY <1>2, <1>3, <1>4 DEF IInv

LEMMA StutterOk == IInv /\ UNCHANGED vars => IInv'
  BY DEF IInv, vars, kernel, TypeOK, CallInv, BklInv, ModuleInv, WaitInv, ReadInv,
      SetupInv, EnabledInv, WakeInv, PendingAccounted, Line

\* Every step of the kernel, of a program and of a device keeps the invariant.
THEOREM Inductive == IInv /\ [Next]_vars => IInv'
  <1> SUFFICES ASSUME IInv, [Next]_vars PROVE IInv'
    OBVIOUS
  <1>1. ASSUME NEW p \in Procs, UserStep(p) PROVE IInv'
    BY <1>1, OpenOk, ReleaseOk, SignalOk, InstallCallOk, FreeCallOk, AckCallOk
       DEF UserStep
  <1>2. ASSUME NEW p \in Procs, KernelStep(p) PROVE IInv'
    BY <1>2, SaveOk, LockOk, UnlockReturnOk, UnlockAckOk, InstallBusyOk,
       InstallResetOk, InstallRequestOk, InstallRefusedOk, InstallDoneOk,
       InstallFaultOk, FreeUnhandledOk, FreeUnregisteredOk, FreeRegisteredOk,
       FreeSyncOk, AckReadOk, AckTakeOk, AckInterruptedOk, AckScheduleOk,
       AckResumeOk
       DEF KernelStep
  <1>3. ASSUME NEW i \in Irqs, HandlerEnter(i) \/ HandlerStep(i) PROVE IInv'
    BY <1>3, HandlerEnterOk, HandlerLockOk, HandlerMarkOk, HandlerIgnoreOk,
       HandlerWakeOk, HandlerUnlockOk
       DEF HandlerStep
  <1>4. ASSUME NEW d \in Devs, DevToggle(d) PROVE IInv' BY <1>4, DevToggleOk
  <1>5. ASSUME ModuleStep PROVE IInv'
    BY <1>5, ExitBeginOk, ExitFreeOk, ExitEndOk, InitModuleOk DEF ModuleStep
  <1>6. ASSUME UNCHANGED vars PROVE IInv' BY <1>6, StutterOk
  <1> QED BY <1>1, <1>2, <1>3, <1>4, <1>5, <1>6 DEF Next

THEOREM Invariance == Spec => []IInv
  <1>1. Init => IInv BY InitOk
  <1>2. IInv /\ [Next]_vars => IInv' BY Inductive
  <1> QED BY <1>1, <1>2, PTL DEF Spec

\* Every variable keeps its type.
THEOREM TypeCorrect == Spec => []TypeOK
  <1>1. IInv => TypeOK BY DEF IInv
  <1> QED BY <1>1, Invariance, PTL

\* No process sleeps through an interrupt that is already recorded.
THEOREM WakeupCorrect == Spec => []NoLostWakeup
  <1>1. IInv => NoLostWakeup
    BY DEF IInv, WakeInv, ReadInv, NoLostWakeup
  <1> QED BY <1>1, Invariance, PTL

\* No interrupt is answered twice.
THEOREM AccountingCorrect == Spec => []PendingAccounted
  <1>1. IInv => PendingAccounted BY DEF IInv
  <1> QED BY <1>1, Invariance, PTL

\* No process sleeps with interrupts disabled.
THEOREM EnabledCorrect == Spec => []NoSleepWithIrqsOff
  <1>1. IInv => NoSleepWithIrqsOff
    BY DEF IInv, EnabledInv, NoSleepWithIrqsOff
  <1> QED BY <1>1, Invariance, PTL

----------------------------------------------------------------------------
\* Refinement of IrqChannel.

\* What the channel sees of an entry.
SameEntry(e, f) ==
  e.handled = f.handled /\ e.rcvd = f.rcvd /\ e.count = f.count /\ e.got = f.got

LEMMA StutterStep ==
  ASSUME \A i \in Irqs : SameEntry(irq'[i], irq[i])
  PROVE  UNCHANGED Channel!chanVars
  BY DEF SameEntry, Channel!chanVars

\* Steps that change at most the lock, the flags and the wait queues.
LEMMA HiddenSteps ==
  ASSUME IInv, NEW p \in Procs,
         \/ UserStep(p) \/ Save(p) \/ Lock(p) \/ UnlockReturn(p) \/ UnlockAck(p)
         \/ InstallBusy(p) \/ InstallRequest(p) \/ InstallRefused(p)
         \/ InstallFault(p)
         \/ FreeUnhandled(p) \/ FreeRegistered(p)
         \/ AckRead(p) \/ AckInterrupted(p) \/ AckSchedule(p) \/ AckResume(p)
  PROVE  UNCHANGED Channel!chanVars
  <1>1. CASE \/ InstallBusy(p) \/ InstallRequest(p) \/ InstallRefused(p)
             \/ InstallFault(p) \/ FreeUnhandled(p) \/ FreeRegistered(p)
             \/ AckRead(p) \/ AckSchedule(p) \/ AckResume(p)
    BY <1>1, StutterStep DEF SameEntry, InstallBusy, InstallRequest, InstallRefused,
        InstallFault, FreeUnhandled, FreeRegistered, AckRead, AckSchedule, AckResume
  <1>2. CASE UserStep(p)
    <2>1. CASE \E i \in Irqs : AckCall(p, i)
      BY <2>1, StutterStep DEF SameEntry, AckCall, SetIrq
    <2>2. CASE \/ Open(p) \/ Release(p) \/ Signal(p)
               \/ \E d \in Devs, ack \in BOOLEAN : InstallCall(p, d, ack)
               \/ \E d \in Devs : FreeCall(p, d)
      BY <2>2, StutterStep DEF SameEntry, Open, Release, Signal, InstallCall,
          FreeCall
    <2> QED BY <1>2, <2>1, <2>2 DEF UserStep
  <1>3. CASE \/ Save(p) \/ Lock(p) \/ UnlockReturn(p) \/ UnlockAck(p)
             \/ AckInterrupted(p)
    <2>1. Line(p) \in Irqs
      BY <1>3, CallType DEF IInv, Save, Lock, UnlockReturn, UnlockAck,
          AckInterrupted, At
    <2>2. CASE Save(p)
      BY <2>1, <2>2, StutterStep DEF SameEntry, Save, SetIrq, Entry
    <2>3. CASE Lock(p)
      BY <2>1, <2>3, StutterStep DEF SameEntry, Lock, Acquire, SetIrq
    <2>4. CASE UnlockReturn(p) \/ UnlockAck(p)
      <3>1. irq' = [irq EXCEPT ![Line(p)] = [Entry(p) EXCEPT !.lock = FALSE]]
        BY <2>4 DEF UnlockReturn, UnlockAck, SetIrq
      <3> QED BY <2>1, <3>1, StutterStep DEF SameEntry, Entry
    <2>5. CASE AckInterrupted(p)
      BY <2>1, <2>5, StutterStep DEF SameEntry, AckInterrupted, SetIrq, Entry
    <2> QED BY <1>3, <2>2, <2>3, <2>4, <2>5
  <1> QED BY <1>1, <1>2, <1>3

\* ACK_IRQ takes what is pending; only the big kernel lock makes sure that it is.
LEMMA TakeStep ==
  ASSUME IInv, NEW p \in Procs, NEW i \in Irqs, i = Line(p),
         AckTake(p)
  PROVE  Channel!Take(i)
  <1>1. Entry(p).rcvd BY DEF IInv, ReadInv, AckTake, Entry
  <1> QED BY <1>1 DEF IInv, TypeOK, DhaIrqs, AckTake, Entry, SetIrq, Channel!Take

\* A successful owner check prepares the line.
LEMMA PrepareStep ==
  ASSUME IInv, NEW p \in Procs, NEW i \in Irqs, i = Line(p),
         InstallReset(p)
  PROVE  Channel!Prepare(i)
  BY DEF IInv, TypeOK, DhaIrqs, InstallReset, Zeroed, Entry, SetIrq, Channel!Prepare

\* The end of INSTALL_IRQ gives the line an owner.
LEMMA ActivateStep ==
  ASSUME IInv, NEW p \in Procs, NEW i \in Irqs, i = Line(p),
         InstallDone(p)
  PROVE  Channel!Activate(i)
  <1>1. /\ ~Entry(p).handled /\ ~Entry(p).rcvd
        /\ Entry(p).count = 0 /\ Entry(p).got = 0
    BY DEF IInv, SetupInv, InstallDone, At, Entry
  <1> QED BY <1>1 DEF IInv, TypeOK, DhaIrqs, InstallDone, Entry, SetIrq,
             Channel!Activate

\* FREE_IRQ ends the ownership, whatever free_irq found.
LEMMA DeactivateStep ==
  ASSUME IInv, NEW p \in Procs, NEW i \in Irqs, i = Line(p),
         FreeUnregistered(p) \/ FreeSync(p)
  PROVE  Channel!Deactivate(i) \/ UNCHANGED Channel!chanVars
  <1>1. irq' = [irq EXCEPT ![Line(p)] = [Entry(p) EXCEPT !.handled = FALSE]]
    BY DEF FreeUnregistered, FreeSync, SetIrq
  <1>2. CASE Entry(p).handled
    BY <1>1, <1>2 DEF IInv, TypeOK, DhaIrqs, Entry, Channel!Deactivate
  <1>3. CASE ~Entry(p).handled
    BY <1>1, <1>3, StutterStep DEF IInv, TypeOK, DhaIrqs, SameEntry, Entry
  <1> QED BY <1>2, <1>3

\* The handler records an event on an owned line.
LEMMA EventStep ==
  ASSUME IInv, NEW i \in Irqs, HandlerMark(i)
  PROVE  Channel!Event(i)
  BY DEF IInv, TypeOK, DhaIrqs, HandlerMark, SetIrq, Channel!Event

\* The handler's other steps are invisible.
LEMMA HandlerStutter ==
  ASSUME IInv, NEW i \in Irqs,
         HandlerEnter(i) \/ HandlerLock(i) \/ HandlerIgnore(i) \/
            HandlerWake(i) \/ HandlerUnlock(i)
  PROVE UNCHANGED Channel!chanVars
  BY StutterStep DEF IInv, TypeOK, DhaIrqs, SameEntry, HandlerEnter, HandlerLock,
      HandlerIgnore, HandlerWake, HandlerUnlock, Acquire, SetIrq

\* Loading starts the channel anew; unloading does not show.
LEMMA ModuleSteps ==
  ASSUME IInv, ModuleStep
  PROVE  Channel!Restart \/ UNCHANGED Channel!chanVars
  <1>1. CASE InitModule BY <1>1 DEF InitModule, Zeroed, Channel!Restart
  <1>2. CASE ExitBegin \/ ExitEnd \/ \E i \in Irqs : ExitFree(i)
     BY <1>2, StutterStep DEF ExitBegin, ExitEnd, ExitFree, SameEntry
  <1> QED BY <1>1, <1>2 DEF ModuleStep

\* The helper's table and its interleavings implement the event channel: an event
\* is recorded while the line is owned, and taken at most once.
THEOREM Refinement == Spec => ImplementsChannel
  <1>1. Init => Channel!ChanInit BY DEF Init, Zeroed, Channel!ChanInit
  <1>2. IInv /\ [Next]_vars => [Channel!ChanNext]_(Channel!chanVars)
    <2> SUFFICES ASSUME IInv, [Next]_vars
             PROVE Channel!ChanNext \/ UNCHANGED Channel!chanVars
      OBVIOUS
    <2>1. ASSUME NEW p \in Procs, UserStep(p) PROVE UNCHANGED Channel!chanVars
      BY <2>1, HiddenSteps
    <2>2. ASSUME NEW p \in Procs, KernelStep(p)
          PROVE  Channel!ChanNext \/ UNCHANGED Channel!chanVars
      <3>1. ASSUME NEW i \in Irqs,
                   \/ Channel!Prepare(i) \/ Channel!Activate(i)
                   \/ Channel!Deactivate(i) \/ Channel!Take(i)
            PROVE  Channel!ChanNext
        BY <3>1 DEF Channel!ChanNext
      <3>2. CASE AckTake(p)
        <4>1. Line(p) \in Irqs BY <3>2, CallType DEF IInv, AckTake, At
        <4>2. PICK i \in Irqs : i = Line(p) BY <4>1
        <4> QED BY <3>1, <3>2, <4>2, TakeStep
      <3>3. CASE InstallReset(p)
        <4>1. Line(p) \in Irqs BY <3>3, CallType DEF IInv, InstallReset, InCall, At
        <4>2. PICK i \in Irqs : i = Line(p) BY <4>1
        <4> QED BY <3>1, <3>3, <4>2, PrepareStep
      <3>4. CASE InstallDone(p)
        <4>1. Line(p) \in Irqs BY <3>4, CallType DEF IInv, InstallDone, At
        <4>2. PICK i \in Irqs : i = Line(p) BY <4>1
        <4> QED BY <3>1, <3>4, <4>2, ActivateStep
      <3>5. CASE FreeUnregistered(p) \/ FreeSync(p)
        <4>1. Line(p) \in Irqs
          BY <3>5, CallType DEF IInv, FreeUnregistered, FreeSync, InCall, At
        <4>2. PICK i \in Irqs : i = Line(p) BY <4>1
        <4> QED BY <3>1, <3>5, <4>2, DeactivateStep
      <3> QED BY <2>2, <3>2, <3>3, <3>4, <3>5, HiddenSteps DEF KernelStep
    <2>3. ASSUME NEW i \in Irqs, HandlerEnter(i) \/ HandlerStep(i)
          PROVE  Channel!ChanNext \/ UNCHANGED Channel!chanVars
      BY <2>3, EventStep, HandlerStutter DEF HandlerStep, Channel!ChanNext
    <2>4. ASSUME NEW d \in Devs, DevToggle(d) PROVE UNCHANGED Channel!chanVars
      BY <2>4, StutterStep DEF DevToggle, SameEntry
    <2>5. ASSUME ModuleStep PROVE Channel!ChanNext \/ UNCHANGED Channel!chanVars
      BY <2>5, ModuleSteps DEF Channel!ChanNext
    <2>6. CASE UNCHANGED vars
      BY <2>6, StutterStep DEF vars, SameEntry
    <2> QED BY <2>1, <2>2, <2>3, <2>4, <2>5, <2>6 DEF Next
  <1> QED BY <1>1, <1>2, Invariance, PTL DEF Spec, ImplementsChannel,
             Channel!ChanSpec

-----------------------------------------------------------------------------
(***************************************************************************)
(* The entries of dha_irqs: what they tell of the kernel's registrations,  *)
(* and who holds their locks.  Because of the big kernel lock at most one  *)
(* process is setting an entry up or taking one down.                      *)
(***************************************************************************)

\* A call about a device is about the line of that device.
Linked(c) == c.op \in {"inst", "free"} => c.dev \in Devs /\ c.irq = IrqOf[c.dev]

LinkInv == \A p \in Procs : proc[p].pc # "user" => Linked(proc[p].call)

\* The device of an entry, once there is one, sits on its line, and the register
\* that acknowledges is that of no other.
DevInv ==
  \A i \in Irqs :
    /\ irq[i].dev \in Devs => IrqOf[irq[i].dev] = i
    /\ irq[i].ack_addr \in {NoDev, irq[i].dev}

\* An entry under set-up is that of the device it is set up for, which is
\* registered before the entry counts as handled.
FillInv ==
  \A p \in Procs :
    /\ proc[p].pc \in {"req", "copy"} => irq[Line(p)].dev = Device(p)
    /\ proc[p].pc = "copy" => reg[Device(p)] > 0

\* The devices have lines of their own, and the line number gets to the caller.
Apart == ~CopyFaults /\ \A c, d \in Devs : IrqOf[c] = IrqOf[d] => c = d

\* A registration is the only one of its device, and either in the entry of its line,
\* which exit_dhahelper visits, or about to get there.
RegInv ==
  Apart => \A d \in Devs :
    /\ reg[d] > 0 =>
         /\ reg[d] = 1
         /\ \/ /\ irq[IrqOf[d]].handled /\ irq[IrqOf[d]].dev = d
               /\ module = "loaded" \/ (module = "exiting" /\ IrqOf[d] \in toFree)
            \/ \E p \in Procs : proc[p].pc = "copy" /\ Device(p) = d
    /\ \A p \in Procs : proc[p].pc \in {"req", "sync"} /\ Device(p) = d => reg[d] = 0

TableInv == LinkInv /\ DevInv /\ FillInv /\ EntryMatchesKernel /\ RegInv

----------------------------------------------------------------------------
\* Steps that leave the registrations, and what the entries say of them, alone,
\* and end neither a set-up nor a FREE_IRQ.

SameKeeper(i) == /\ irq'[i].handled = irq[i].handled
                 /\ irq'[i].dev = irq[i].dev /\ irq'[i].ack_addr = irq[i].ack_addr

Settled == {"user", "save", "spin", "crit", "unlock", "test", "sleep"}

SameTask(p) ==
  \/ proc'[p].pc = proc[p].pc /\ proc'[p].call = proc[p].call
  \/ /\ proc[p].pc # "sync" /\ proc'[p].pc \in Settled
     /\ \/ proc[p].pc # "user" /\ proc'[p].call = proc[p].call
        \/ proc'[p].pc = "user"
        \/ Linked(proc'[p].call)

LEMMA Unmoved ==
  ASSUME TableInv, UNCHANGED <<reg, module, toFree>>,
         \A i \in Irqs : SameKeeper(i), \A p \in Procs : SameTask(p),
         \A p \in Procs : proc[p].pc = "copy" => proc'[p].pc = "copy" \/ CopyFaults,
         \A p \in Procs : proc[p].pc \in {"req", "copy"} => Line(p) \in Irqs
  PROVE  TableInv'
  <1> USE DEF SameKeeper, SameTask, Settled, TableInv
  <1>1. LinkInv'
    BY DEF LinkInv
  <1>2. DevInv'
    BY DEF DevInv
  <1>3. FillInv'
    BY DEF FillInv, Line, Device
  <1>4. EntryMatchesKernel'
    BY DEF EntryMatchesKernel, Line
  <1>5. RegInv'
    <2> SUFFICES ASSUME Apart, NEW d \in Devs
                 PROVE  /\ reg[d] > 0 =>
                             /\ reg[d] = 1
                             /\ \/ /\ irq'[IrqOf[d]].handled /\ irq'[IrqOf[d]].dev = d
                                   /\ module = "loaded" \/ (module = "exiting" /\ IrqOf[d] \in toFree)
                                \/ \E p \in Procs : proc'[p].pc = "copy" /\ proc'[p].call.dev = d
                        /\ \A p \in Procs :
                             proc'[p].pc \in {"req", "sync"} /\ proc'[p].call.dev = d => reg[d] = 0
      BY DEF RegInv, Apart, Device
    <2>1. IrqOf[d] \in Irqs
      BY IrqOfAssumption
    <2>2. \A p \in Procs : proc'[p].pc \in {"req", "sync"} /\ proc'[p].call.dev = d => reg[d] = 0
      BY DEF RegInv, Device
    <2>3. \A p \in Procs : proc[p].pc = "copy" =>
            proc'[p].pc = "copy" /\ proc'[p].call = proc[p].call
      BY DEF Apart
    <2>4. QED
      BY <2>1, <2>2, <2>3 DEF RegInv, Device
  <1>6. QED
    BY <1>1, <1>2, <1>3, <1>4, <1>5

LEMMA LineTyped ==
  ASSUME IInv, NEW p \in Procs, proc[p].pc # "user"
  PROVE  Line(p) \in Irqs /\ Entry(p) \in DhaIrqs
  BY CallType DEF IInv

\* A step that moves one process, and changes nothing, or flags of one entry.
LEMMA MoveOk ==
  ASSUME IInv, TableInv, NEW p \in Procs, NEW t \in Tasks, SetProc(p, t),
         UNCHANGED <<reg, module, toFree>>, \A i \in Irqs : SameKeeper(i),
         proc[p].pc # "sync", t.pc \in Settled, proc[p].pc = "copy" => CopyFaults,
         \/ proc[p].pc # "user" /\ t.call = proc[p].call
         \/ t.pc = "user"
         \/ Linked(t.call)
  PROVE  TableInv'
  <1>1. \A q \in Procs : proc'[q] = IF q = p THEN t ELSE proc[q]
    BY DEF SetProc, IInv, TypeOK
  <1>2. \A q \in Procs : SameTask(q)
    BY <1>1 DEF SameTask
  <1>3. \A q \in Procs : proc[q].pc \in {"req", "copy"} => Line(q) \in Irqs
    BY LineTyped
  <1>4. \A q \in Procs : proc[q].pc = "copy" => proc'[q].pc = "copy" \/ CopyFaults
    BY <1>1
  <1>5. QED
    BY <1>2, <1>3, <1>4, Unmoved

LEMMA EntryKept ==
  ASSUME IInv, NEW i \in Irqs, NEW e \in DhaIrqs, SetIrq(i, e),
         e.handled = irq[i].handled, e.dev = irq[i].dev, e.ack_addr = irq[i].ack_addr
  PROVE  \A j \in Irqs : SameKeeper(j)
  BY DEF IInv, TypeOK, SetIrq, SameKeeper

LEMMA EntriesKept ==
  ASSUME UNCHANGED irq
  PROVE  \A j \in Irqs : SameKeeper(j)
  BY DEF SameKeeper

LEMMA GotoTask ==
  ASSUME IInv, NEW p \in Procs, NEW l \in Settled
  PROVE  LET t == [proc[p] EXCEPT !.pc = l]
         IN  t \in Tasks /\ t.pc = l /\ t.call = proc[p].call
  BY DEF IInv, TypeOK, Tasks, Settled

----------------------------------------------------------------------------
\* One lemma for the actions of a kind.

LEMMA StillOk ==
  ASSUME IInv, TableInv, UNCHANGED <<irq, proc, reg, module, toFree>>
  PROVE  TableInv'
  <1>1. (\A i \in Irqs : SameKeeper(i)) /\ (\A p \in Procs : SameTask(p))
    BY DEF SameKeeper, SameTask
  <1>2. QED
    BY <1>1, LineTyped, Unmoved

LEMMA HandlerOk ==
  ASSUME IInv, TableInv, NEW i \in Irqs, HandlerEnter(i) \/ HandlerStep(i)
  PROVE  TableInv'
  <1>1. UNCHANGED <<reg, module, toFree>>
    BY DEF HandlerEnter, HandlerStep, HandlerLock, HandlerMark, HandlerIgnore, HandlerWake,
           HandlerUnlock, HGoto
  <1>2. irq[i] \in DhaIrqs
    BY DEF IInv, TypeOK
  <1>3. CASE HandlerEnter(i)
    <2>1. [irq[i] EXCEPT !.flags = TRUE] \in DhaIrqs
      BY <1>2 DEF DhaIrqs
    <2>2. \A j \in Irqs : SameKeeper(j)
      BY <1>2, <1>3, <2>1, EntryKept DEF HandlerEnter, DhaIrqs
    <2>3. QED
      BY <1>1, <1>3, <2>2, LineTyped, Unmoved DEF HandlerEnter, SameTask
  <1>4. CASE HandlerLock(i)
    <2>1. [irq[i] EXCEPT !.lock = SMP] \in DhaIrqs
      BY <1>2, FlagsAssumption DEF DhaIrqs
    <2>2. \A j \in Irqs : SameKeeper(j)
      BY <1>2, <1>4, <2>1, EntryKept DEF HandlerLock, Acquire, DhaIrqs
    <2>3. QED
      BY <1>1, <1>4, <2>2, LineTyped, Unmoved DEF HandlerLock, SameTask
  <1>5. CASE HandlerMark(i)
    <2> DEFINE e == [irq[i] EXCEPT !.rcvd = TRUE, !.count = @ + 1]
    <2>1. e \in DhaIrqs
      BY <1>2, MarkType
    <2>2. e.handled = irq[i].handled /\ e.dev = irq[i].dev /\ e.ack_addr = irq[i].ack_addr
      BY <1>2 DEF DhaIrqs
    <2>3. SetIrq(i, e)
      BY <1>5 DEF HandlerMark
    <2> HIDE DEF e
    <2>4. \A j \in Irqs : SameKeeper(j)
      BY <2>1, <2>2, <2>3, EntryKept
    <2>5. QED
      BY <1>1, <1>5, <2>4, LineTyped, Unmoved DEF HandlerMark, SameTask
  <1>6. CASE HandlerIgnore(i)
    BY <1>1, <1>6, StillOk DEF HandlerIgnore
  <1>7. CASE HandlerWake(i)
    <2>1. \A p \in Procs : proc'[p].pc = proc[p].pc /\ proc'[p].call = proc[p].call
      BY <1>7 DEF HandlerWake, IInv, TypeOK, Tasks
    <2>2. QED
      BY <1>1, <1>7, <2>1, EntriesKept, LineTyped, Unmoved DEF HandlerWake, SameTask
  <1>8. CASE HandlerUnlock(i)
    <2>1. [irq[i] EXCEPT !.lock = FALSE] \in DhaIrqs
      BY <1>2 DEF DhaIrqs
    <2>2. \A j \in Irqs : SameKeeper(j)
      BY <1>2, <1>8, <2>1, EntryKept DEF HandlerUnlock, DhaIrqs
    <2>3. QED
      BY <1>1, <1>8, <2>2, LineTyped, Unmoved DEF HandlerUnlock, SameTask
  <1>9. QED
    BY <1>3, <1>4, <1>5, <1>6, <1>7, <1>8 DEF HandlerStep

LEMMA CallOk ==
  ASSUME IInv, TableInv, NEW p \in Procs,
         \/ Signal(p)
         \/ \E d \in Devs, ack \in BOOLEAN : InstallCall(p, d, ack)
         \/ \E d \in Devs : FreeCall(p, d)
         \/ \E i \in Irqs : AckCall(p, i)
  PROVE  TableInv'
  <1>1. proc[p] \in Tasks
    BY DEF IInv, TypeOK
  <1>2. CASE Signal(p)
    <2> DEFINE t == [proc[p] EXCEPT !.sig = TRUE, !.asleep = FALSE]
    <2>1. t \in Tasks /\ t.pc = proc[p].pc /\ t.call = proc[p].call
      BY <1>1 DEF Tasks
    <2>2. SetProc(p, t) /\ UNCHANGED <<irq, reg, module, toFree>> /\ proc[p].call.op = "ack"
      BY <1>2 DEF Signal, kernel
    <2> HIDE DEF t
    <2>3. proc[p].pc \in Settled \ {"user"}
      BY <1>1, <2>2 DEF IInv, CallInv, InUser, NoCall, Tasks, Settled
    <2>4. QED
      BY <2>1, <2>2, <2>3, EntriesKept, MoveOk DEF Settled
  <1>3. ASSUME NEW d \in Devs, NEW ack \in BOOLEAN, InstallCall(p, d, ack)
        PROVE  TableInv'
    <2> DEFINE c == [op |-> "inst", dev |-> d, ack |-> ack, irq |-> IrqOf[d]]
               t == [proc[p] EXCEPT !.pc = "save", !.call = c]
    <2>1. c \in Calls /\ Linked(c)
      BY IrqOfAssumption DEF Calls, Linked
    <2> HIDE DEF c
    <2>2. t \in Tasks /\ t.pc = "save" /\ t.call = c
      BY <1>1, <2>1 DEF Tasks
    <2>3. SetProc(p, t) /\ UNCHANGED <<irq, reg, module, toFree>> /\ proc[p].pc = "user"
      BY <1>3 DEF InstallCall, Ioctl, At, c
    <2> HIDE DEF t
    <2>4. QED
      BY <2>1, <2>2, <2>3, EntriesKept, MoveOk DEF Settled
  <1>4. ASSUME NEW d \in Devs, FreeCall(p, d)
        PROVE  TableInv'
    <2> DEFINE c == [op |-> "free", dev |-> d, irq |-> IrqOf[d]]
               t == [proc[p] EXCEPT !.pc = "save", !.call = c]
    <2>1. c \in Calls /\ Linked(c)
      BY IrqOfAssumption DEF Calls, Linked
    <2> HIDE DEF c
    <2>2. t \in Tasks /\ t.pc = "save" /\ t.call = c
      BY <1>1, <2>1 DEF Tasks
    <2>3. SetProc(p, t) /\ UNCHANGED <<irq, reg, module, toFree>> /\ proc[p].pc = "user"
      BY <1>4 DEF FreeCall, Ioctl, At, c
    <2> HIDE DEF t
    <2>4. QED
      BY <2>1, <2>2, <2>3, EntriesKept, MoveOk DEF Settled
  <1>5. ASSUME NEW i \in Irqs, AckCall(p, i)
        PROVE  TableInv'
    <2> DEFINE c == [op |-> "ack", irq |-> i]
               t == [proc[p] EXCEPT !.pc = "save", !.asleep = TRUE, !.call = c]
               e == [irq[i] EXCEPT !.wait = @ \cup {p}]
    <2>1. c \in Calls /\ Linked(c)
      BY DEF Calls, Linked
    <2> HIDE DEF c
    <2>2. t \in Tasks /\ t.pc = "save" /\ t.call = c
      BY <1>1, <2>1 DEF Tasks
    <2>3. /\ e \in DhaIrqs /\ e.handled = irq[i].handled /\ e.dev = irq[i].dev
          /\ e.ack_addr = irq[i].ack_addr
      BY DEF IInv, TypeOK, DhaIrqs
    <2>4. SetProc(p, t) /\ SetIrq(i, e) /\ UNCHANGED <<reg, module, toFree>> /\ proc[p].pc = "user"
      BY <1>5 DEF AckCall, Ioctl, At, c
    <2> HIDE DEF t, e
    <2>5. QED
      BY <2>1, <2>2, <2>3, <2>4, EntryKept, MoveOk DEF Settled
  <1>6. QED
    BY <1>2, <1>3, <1>4, <1>5

\* The steps inside a call that touch neither the registrations nor what an entry tells
\* of them.
LEMMA PassOk ==
  ASSUME IInv, TableInv, NEW p \in Procs,
         \/ Save(p) \/ Lock(p) \/ UnlockReturn(p) \/ UnlockAck(p) \/ InstallBusy(p)
         \/ InstallRefused(p) \/ InstallFault(p) \/ FreeUnhandled(p)
         \/ AckRead(p) \/ AckTake(p) \/ AckInterrupted(p) \/ AckSchedule(p) \/ AckResume(p)
  PROVE  TableInv'
  <1>1. /\ proc[p] \in Tasks /\ proc[p].pc \notin {"user", "sync"}
        /\ UNCHANGED <<reg, module, toFree>>
        /\ proc[p].pc = "copy" => CopyFaults
    BY DEF IInv, TypeOK, Save, Lock, UnlockReturn, UnlockAck, InstallBusy, InstallRefused, InstallFault,
           FreeUnhandled, AckRead, AckTake, AckInterrupted, AckSchedule, AckResume, InCall, At,
           Return, kernel
  <1>2. Line(p) \in Irqs /\ Entry(p) \in DhaIrqs
    BY <1>1, LineTyped
  <1>3. PICK t \in Tasks : /\ SetProc(p, t) /\ t.pc \in Settled
                           /\ t.call = proc[p].call \/ t.pc = "user"
    <2>1. CASE \/ Lock(p) \/ InstallBusy(p) \/ InstallRefused(p) \/ InstallFault(p)
               \/ FreeUnhandled(p) \/ AckSchedule(p) \/ AckResume(p)
      <3>1. PICK l \in Settled : Goto(p, l)
        BY <2>1 DEF Lock, InstallBusy, InstallRefused, InstallFault, FreeUnhandled, AckSchedule,
                    AckResume, Settled
      <3> DEFINE t == [proc[p] EXCEPT !.pc = l]
      <3>2. t \in Tasks /\ t.pc = l /\ t.call = proc[p].call
        BY GotoTask
      <3>3. SetProc(p, t)
        BY <3>1 DEF Goto
      <3> HIDE DEF t
      <3>4. QED
        BY <3>2, <3>3
    <2>2. CASE UnlockReturn(p) \/ AckTake(p) \/ AckInterrupted(p)
      <3>1. SetProc(p, InUser)
        BY <2>2 DEF UnlockReturn, AckTake, AckInterrupted, Return
      <3>2. InUser.pc = "user"
        BY DEF InUser
      <3>3. QED
        BY <3>1, <3>2, InUserType DEF Settled
    <2>3. CASE Save(p)
      <3> DEFINE t == [proc[p] EXCEPT !.pc = "spin", !.ie = FALSE]
      <3>1. t \in Tasks /\ t.pc = "spin" /\ t.call = proc[p].call
        BY <1>1 DEF Tasks
      <3>2. SetProc(p, t)
        BY <2>3 DEF Save
      <3> HIDE DEF t
      <3>3. QED
        BY <3>1, <3>2 DEF Settled
    <2>4. CASE UnlockAck(p)
      <3> DEFINE ie == Entry(p).flags
                 t  == [proc[p] EXCEPT !.pc = "test", !.ie = ie]
      <3>1. ie \in BOOLEAN
        BY <1>2 DEF DhaIrqs
      <3>2. SetProc(p, t)
        BY <2>4 DEF UnlockAck
      <3> HIDE DEF ie
      <3>3. t \in Tasks /\ t.pc = "test" /\ t.call = proc[p].call
        BY <1>1, <3>1 DEF Tasks
      <3> HIDE DEF t
      <3>4. QED
        BY <3>2, <3>3 DEF Settled
    <2>5. CASE AckRead(p)
      <3> DEFINE r == Entry(p).rcvd
                 t == [proc[p] EXCEPT !.pc = "unlock", !.r = r]
      <3>1. r \in BOOLEAN
        BY <1>2 DEF DhaIrqs
      <3>2. SetProc(p, t)
        BY <2>5 DEF AckRead
      <3> HIDE DEF r
      <3>3. t \in Tasks /\ t.pc = "unlock" /\ t.call = proc[p].call
        BY <1>1, <3>1 DEF Tasks
      <3> HIDE DEF t
      <3>4. QED
        BY <3>2, <3>3 DEF Settled
    <2>6. QED
      BY <2>1, <2>2, <2>3, <2>4, <2>5
  <1>4. \A j \in Irqs : SameKeeper(j)
    <2>1. CASE UNCHANGED irq
      BY <2>1, EntriesKept
    <2>2. CASE ~UNCHANGED irq
      <3>1. PICK e \in DhaIrqs : /\ SetIrq(Line(p), e) /\ e.handled = Entry(p).handled
                                 /\ e.dev = Entry(p).dev /\ e.ack_addr = Entry(p).ack_addr
        <4>1. CASE Save(p)
          <5> DEFINE flags == proc[p].ie
                     e == [Entry(p) EXCEPT !.flags = flags]
          <5>1. flags \in BOOLEAN
            BY <1>1 DEF Tasks
          <5>2. SetIrq(Line(p), e)
            BY <4>1 DEF Save
          <5> HIDE DEF flags
          <5>3. e \in DhaIrqs /\ e.handled = Entry(p).handled /\ e.dev = Entry(p).dev
                /\ e.ack_addr = Entry(p).ack_addr
            BY <1>2, <5>1 DEF DhaIrqs
          <5>4. QED
            BY <5>2, <5>3
        <4>2. CASE Lock(p) \/ UnlockReturn(p) \/ UnlockAck(p)
          <5>1. PICK l \in {SMP, FALSE} : SetIrq(Line(p), [Entry(p) EXCEPT !.lock = l])
            BY <4>2 DEF Lock, Acquire, UnlockReturn, UnlockAck, Entry
          <5>2. l \in BOOLEAN
            BY <5>1, FlagsAssumption
          <5> DEFINE e == [Entry(p) EXCEPT !.lock = l]
          <5>3. e \in DhaIrqs /\ e.handled = Entry(p).handled /\ e.dev = Entry(p).dev
                /\ e.ack_addr = Entry(p).ack_addr
            BY <1>2, <5>2 DEF DhaIrqs
          <5>4. QED
            BY <5>1, <5>3
        <4>3. CASE AckTake(p)
          <5> DEFINE e == [Entry(p) EXCEPT !.rcvd = FALSE, !.got = @ + 1, !.wait = @ \ {p}]
          <5>1. e \in DhaIrqs
            BY <1>2, TakeType
          <5>2. /\ e.handled = Entry(p).handled /\ e.dev = Entry(p).dev
                /\ e.ack_addr = Entry(p).ack_addr
            BY <1>2 DEF DhaIrqs
          <5>3. SetIrq(Line(p), e)
            BY <4>3 DEF AckTake
          <5> HIDE DEF e
          <5>4. QED
            BY <5>1, <5>2, <5>3
        <4>4. CASE AckInterrupted(p)
          <5> DEFINE e == [Entry(p) EXCEPT !.wait = @ \ {p}]
          <5>1. e \in DhaIrqs /\ e.handled = Entry(p).handled /\ e.dev = Entry(p).dev
                /\ e.ack_addr = Entry(p).ack_addr
            BY <1>2 DEF DhaIrqs
          <5>2. QED
            BY <4>4, <5>1 DEF AckInterrupted
        <4>5. QED
          BY <2>2, <4>1, <4>2, <4>3, <4>4 DEF InstallBusy, InstallRefused, InstallFault, FreeUnhandled,
             AckRead, AckSchedule, AckResume, kernel
      <3>2. QED
        BY <1>2, <3>1, EntryKept DEF Entry
    <2>3. QED
      BY <2>1, <2>2
  <1>5. PICK u \in Tasks : /\ SetProc(p, u) /\ u.pc \in Settled
                           /\ \/ proc[p].pc # "user" /\ u.call = proc[p].call
                              \/ u.pc = "user"
    BY <1>1, <1>3
  <1>6. QED
    BY <1>1, <1>4, <1>5, MoveOk

----------------------------------------------------------------------------
\* The steps that set an entry up or take it down.

LEMMA Alone ==
  ASSUME IInv, NEW p \in Procs, proc[p].pc \notin {"user", "sleep"}
  PROVE  /\ \A q \in Procs \ {p} : proc[q].pc \in {"user", "sleep"}
         /\ module = "loaded"
  <1>1. \A q \in Procs \ {p} : proc[q].pc \in {"user", "sleep"}
    BY DEF IInv, BklInv
  <1>2. p \in opened
    BY DEF IInv, CallInv
  <1>3. QED
    BY <1>1, <1>2 DEF IInv, ModuleInv

\* A process moved by Goto, and the others.
LEMMA Moved ==
  ASSUME IInv, NEW p \in Procs, NEW l, Goto(p, l)
  PROVE  /\ proc'[p].pc = l /\ proc'[p].call = proc[p].call
         /\ \A q \in Procs \ {p} : proc'[q] = proc[q]
         /\ Line(p)' = Line(p) /\ Device(p)' = Device(p)
  BY DEF IInv, TypeOK, Goto, SetProc, Tasks, Line, Device

LEMMA OthersOut ==
  ASSUME IInv, NEW p \in Procs, proc[p].pc \notin {"user", "sleep"}, NEW l, Goto(p, l)
  PROVE  \A q \in Procs \ {p} : proc'[q] = proc[q] /\ proc'[q].pc \in {"user", "sleep"}
  BY Alone, Moved

LEMMA LinkKept ==
  ASSUME IInv, LinkInv, NEW p \in Procs, NEW l, Goto(p, l), proc[p].pc # "user"
  PROVE  LinkInv'
  BY Moved DEF LinkInv

LEMMA InstallResetTable ==
  ASSUME IInv, TableInv, NEW p \in Procs, InstallReset(p)
  PROVE  TableInv'
  <1> DEFINE d == Device(p)
             i == Line(p)
             a == IF proc[p].call.ack THEN d ELSE NoDev
             e == [Zeroed EXCEPT !.ack_addr = a, !.dev = d]
  <1>1. /\ proc[p].pc = "crit" /\ proc[p].call.op = "inst" /\ ~irq[i].handled
        /\ SetIrq(i, e) /\ Goto(p, "req") /\ UNCHANGED <<reg, module, toFree>>
    BY DEF InstallReset, InCall, At, Entry, kernel
  <1>2. i \in Irqs /\ d \in Devs /\ i = IrqOf[d] /\ irq \in [Irqs -> DhaIrqs]
    BY <1>1, LineTyped DEF TableInv, LinkInv, Linked, Line, Device, IInv, TypeOK
  <1>3. e.dev = d /\ e.ack_addr \in {NoDev, d} /\ e.handled = FALSE
    BY DEF Zeroed
  <1> HIDE DEF e, d, i, a
  <1>4. \A j \in Irqs : irq'[j] = IF j = i THEN e ELSE irq[j]
    BY <1>1, <1>2 DEF SetIrq
  <1>5. /\ proc'[p].pc = "req" /\ Line(p)' = i /\ Device(p)' = d
        /\ \A q \in Procs \ {p} : proc'[q] = proc[q] /\ proc'[q].pc \in {"user", "sleep"}
    BY <1>1, Moved, OthersOut DEF i, d
  <1>6. LinkInv'
    BY <1>1, LinkKept DEF TableInv
  <1>7. DevInv'
    BY <1>2, <1>3, <1>4 DEF DevInv, TableInv
  <1>8. FillInv'
    BY <1>2, <1>3, <1>4, <1>5 DEF FillInv
  <1>9. EntryMatchesKernel'
    <2> SUFFICES ASSUME NEW j \in Irqs, irq'[j].handled
                 PROVE  /\ \/ irq'[j].dev \in Devs /\ reg'[irq'[j].dev] > 0
                           \/ \E q \in Procs : proc'[q].pc = "sync" /\ Line(q)' = j
                           \/ module' # "loaded"
                        /\ irq'[j].ack_addr \in {NoDev, irq'[j].dev}
      BY DEF EntryMatchesKernel
    <2>1. j # i /\ irq'[j] = irq[j]
      BY <1>3, <1>4
    <2>2. \A q \in Procs : proc[q].pc # "sync"
      BY <1>1, Alone
    <2>3. QED
      BY <1>1, <2>1, <2>2, Alone DEF TableInv, EntryMatchesKernel
  <1>10. RegInv'
    <2> SUFFICES ASSUME Apart PROVE RegInv'
      BY DEF RegInv, Apart
    <2>1. \A q \in Procs : proc[q].pc \notin {"req", "copy", "sync"}
      BY <1>1, Alone
    <2>2. \A c \in Devs : IrqOf[c] = i => reg[c] = 0
      BY <1>1, <1>2, <2>1 DEF TableInv, RegInv, IInv, TypeOK
    <2>3. \A c \in Devs : reg'[c] = reg[c] /\ (IrqOf[c] # i => irq'[IrqOf[c]] = irq[IrqOf[c]])
      BY <1>1, <1>4, IrqOfAssumption
    <2>4. \A q \in Procs : proc'[q].pc \in {"req", "sync"} => Device(q)' = d /\ reg[d] = 0
      BY <1>2, <1>5, <2>2
    <2>5. QED
      BY <1>1, <2>1, <2>2, <2>3, <2>4 DEF TableInv, RegInv
  <1>11. QED
    BY <1>6, <1>7, <1>8, <1>9, <1>10 DEF TableInv

LEMMA InstallRequestTable ==
  ASSUME IInv, TableInv, NEW p \in Procs, InstallRequest(p)
  PROVE  TableInv'
  <1> DEFINE d == Device(p)
             i == Line(p)
  <1>1. /\ proc[p].pc = "req" /\ Goto(p, "copy") /\ UNCHANGED <<irq, module, toFree>>
        /\ reg' = [reg EXCEPT ![d] = @ + 1]
    BY DEF InstallRequest, At
  <1>2. proc[p].call.op = "inst"
    BY <1>1 DEF IInv, CallInv
  <1>3. i \in Irqs /\ d \in Devs /\ reg \in [Devs -> Nat] /\ irq[i].dev = d
    BY <1>1, <1>2, LineTyped DEF TableInv, LinkInv, Linked, Line, Device, IInv, TypeOK, FillInv
  <1> HIDE DEF d, i
  <1>4. reg'[d] > 0 /\ \A c \in Devs : reg[c] > 0 => reg'[c] > 0
    BY <1>1, <1>3
  <1>5. /\ proc'[p].pc = "copy" /\ Line(p)' = i /\ Device(p)' = d
        /\ \A q \in Procs \ {p} : proc'[q] = proc[q] /\ proc'[q].pc \in {"user", "sleep"}
    BY <1>1, Moved, OthersOut DEF i, d
  <1>6. LinkInv'
    BY <1>1, LinkKept DEF TableInv
  <1>7. DevInv'
    BY <1>1 DEF DevInv, TableInv
  <1>8. FillInv'
    BY <1>1, <1>3, <1>4, <1>5 DEF FillInv
  <1>9. \A q \in Procs : proc[q].pc # "sync"
    BY <1>1, Alone
  <1>10. EntryMatchesKernel'
    BY <1>1, <1>4, <1>9, Alone DEF TableInv, EntryMatchesKernel
  <1>11. RegInv'
    <2> SUFFICES ASSUME Apart PROVE RegInv'
      BY DEF RegInv, Apart
    <2>1. reg[d] = 0 /\ \A q \in Procs : proc[q].pc # "copy"
      BY <1>1, <1>3, Alone DEF TableInv, RegInv, d
    <2>2. reg'[d] = 1 /\ \A c \in Devs \ {d} : reg'[c] = reg[c]
      BY <1>1, <1>3, <2>1
    <2>3. \A q \in Procs : proc'[q].pc \notin {"req", "sync"}
      BY <1>5
    <2>4. QED
      BY <1>1, <1>5, <2>1, <2>2, <2>3 DEF TableInv, RegInv
  <1>12. QED
    BY <1>6, <1>7, <1>8, <1>10, <1>11 DEF TableInv

\* handled is set or cleared, and nothing else.
LEMMA HandledTable ==
  ASSUME IInv, TableInv, NEW p \in Procs, NEW h \in BOOLEAN, proc[p].pc \notin {"user", "sleep"},
         SetIrq(Line(p), [Entry(p) EXCEPT !.handled = h]), Goto(p, "unlock"),
         UNCHANGED <<reg, module, toFree>>,
         h => proc[p].pc = "copy",
         ~h => proc[p].pc # "copy" /\ proc[p].call.op = "free" /\ (Apart => reg[Device(p)] = 0)
  PROVE  TableInv'
  <1> DEFINE i == Line(p)
             e == [Entry(p) EXCEPT !.handled = h]
  <1>1. i \in Irqs /\ Entry(p) = irq[i] /\ irq \in [Irqs -> DhaIrqs]
    BY LineTyped DEF IInv, TypeOK, Entry
  <1>2. e.handled = h /\ e.dev = irq[i].dev /\ e.ack_addr = irq[i].ack_addr
    BY <1>1 DEF DhaIrqs
  <1>3. h => irq[i].dev \in Devs /\ reg[irq[i].dev] > 0
    <2>1. h => proc[p].call.op = "inst"
      BY DEF IInv, CallInv
    <2>2. QED
      BY <2>1 DEF TableInv, FillInv, LinkInv, Linked, Device
  <1> HIDE DEF e, i
  <1>4. \A j \in Irqs : irq'[j] = IF j = i THEN e ELSE irq[j]
    BY <1>1 DEF SetIrq, e, i
  <1>5. \A q \in Procs : proc'[q].pc \notin {"req", "copy", "sync"}
    BY Moved, OthersOut
  <1>6. LinkInv'
    BY LinkKept DEF TableInv
  <1>7. DevInv'
    BY <1>1, <1>2, <1>4 DEF DevInv, TableInv
  <1>8. FillInv'
    BY <1>5 DEF FillInv
  <1>9. EntryMatchesKernel'
    <2> SUFFICES ASSUME NEW j \in Irqs, irq'[j].handled
                 PROVE  /\ irq'[j].dev \in Devs /\ reg'[irq'[j].dev] > 0
                        /\ irq'[j].ack_addr \in {NoDev, irq'[j].dev}
      BY DEF EntryMatchesKernel
    <2>1. CASE j = i
      BY <1>1, <1>2, <1>3, <1>4, <2>1 DEF TableInv, DevInv
    <2>2. CASE j # i
      <3>1. irq'[j] = irq[j]
        BY <1>4, <2>2
      <3>2. \A q \in Procs : ~(proc[q].pc = "sync" /\ Line(q) = j)
        BY <2>2, Alone DEF i
      <3>3. QED
        BY <3>1, <3>2, Alone DEF TableInv, EntryMatchesKernel
    <2>3. QED
      BY <2>1, <2>2
  <1>10. RegInv'
    <2> SUFFICES ASSUME Apart, NEW d \in Devs, reg[d] > 0
                 PROVE  /\ reg[d] = 1
                        /\ irq'[IrqOf[d]].handled /\ irq'[IrqOf[d]].dev = d
                        /\ module = "loaded" \/ (module = "exiting" /\ IrqOf[d] \in toFree)
      BY <1>5 DEF RegInv, Apart
    <2>1. IrqOf[d] \in Irqs /\ module = "loaded" /\ reg[d] = 1
      BY IrqOfAssumption, Alone DEF TableInv, RegInv
    <2>2. proc[p].call.op \in {"inst", "free"}
      BY DEF IInv, CallInv
    <2>3. Device(p) \in Devs /\ i = IrqOf[Device(p)]
      BY <2>2 DEF TableInv, LinkInv, Linked, Line, Device, i
    <2>4. CASE IrqOf[d] = i
      <3>1. d = Device(p)
        BY <2>3, <2>4 DEF Apart
      <3>2. h
        BY <3>1
      <3>3. irq[i].dev = d
        BY <3>1, <3>2 DEF TableInv, FillInv, i
      <3>4. QED
        BY <1>1, <1>2, <1>4, <2>1, <2>4, <3>2, <3>3
    <2>5. CASE IrqOf[d] # i
      <3>1. irq'[IrqOf[d]] = irq[IrqOf[d]]
        BY <1>4, <2>1, <2>5
      <3>2. \A q \in Procs : ~(proc[q].pc = "copy" /\ Device(q) = d)
        BY <2>3, <2>5, Alone
      <3>3. QED
        BY <2>1, <3>1, <3>2 DEF TableInv, RegInv
    <2>6. QED
      BY <2>4, <2>5
  <1>11. QED
    BY <1>6, <1>7, <1>8, <1>9, <1>10 DEF TableInv

LEMMA FreeRegisteredTable ==
  ASSUME IInv, TableInv, NEW p \in Procs, FreeRegistered(p)
  PROVE  TableInv'
  <1> DEFINE d == Device(p)
             i == Line(p)
  <1>1. /\ proc[p].pc = "crit" /\ proc[p].call.op = "free" /\ Goto(p, "sync")
        /\ UNCHANGED <<irq, module, toFree>> /\ reg' = [reg EXCEPT ![d] = @ - 1] /\ reg[d] > 0
    BY DEF FreeRegistered, InCall, At
  <1>2. i = IrqOf[d] /\ d \in Devs /\ reg \in [Devs -> Nat]
    BY <1>1 DEF TableInv, LinkInv, Linked, Line, Device, IInv, TypeOK
  <1> HIDE DEF d, i
  <1>3. \A c \in Devs \ {d} : reg'[c] = reg[c]
    BY <1>1, <1>2
  <1>4. /\ proc'[p].pc = "sync" /\ Line(p)' = i
        /\ \A q \in Procs \ {p} : proc'[q] = proc[q] /\ proc'[q].pc \in {"user", "sleep"}
    BY <1>1, Moved, OthersOut DEF i
  <1>5. LinkInv'
    BY <1>1, LinkKept DEF TableInv
  <1>6. DevInv'
    BY <1>1 DEF DevInv, TableInv
  <1>7. FillInv'
    BY <1>4 DEF FillInv
  <1>8. EntryMatchesKernel'
    <2> SUFFICES ASSUME NEW j \in Irqs, irq[j].handled, j # i
                 PROVE  /\ irq[j].dev \in Devs /\ reg'[irq[j].dev] > 0
                        /\ irq[j].ack_addr \in {NoDev, irq[j].dev}
      BY <1>1, <1>4 DEF EntryMatchesKernel, TableInv
    <2>1. irq[j].dev \in Devs /\ reg[irq[j].dev] > 0 /\ irq[j].ack_addr \in {NoDev, irq[j].dev}
      BY <1>1, Alone DEF EntryMatchesKernel, TableInv
    <2>2. irq[j].dev # d
      BY <1>2, <2>1 DEF TableInv, DevInv
    <2>3. QED
      BY <1>3, <2>1, <2>2
  <1>9. RegInv'
    <2> SUFFICES ASSUME Apart PROVE RegInv'
      BY DEF RegInv, Apart
    <2>1. \A q \in Procs : proc[q].pc \notin {"req", "copy", "sync"}
      BY <1>1, Alone
    <2>2. reg[d] = 1
      BY <1>1, <1>2 DEF TableInv, RegInv
    <2>3. reg'[d] = 0
      BY <1>1, <1>2, <2>2
    <2>4. \A q \in Procs : proc'[q].pc \in {"req", "sync"} => Device(q)' = d
      BY <1>1, <1>4, Moved DEF d
    <2>5. QED
      BY <1>1, <1>3, <2>1, <2>3, <2>4 DEF TableInv, RegInv
  <1>10. QED
    BY <1>5, <1>6, <1>7, <1>8, <1>9 DEF TableInv

LEMMA ModuleTable ==
  ASSUME IInv, TableInv, ModuleStep
  PROVE  TableInv'
  <1>1. CASE ExitBegin \/ (\E i \in Irqs : ExitFree(i)) \/ ExitEnd
    <2>1. UNCHANGED <<irq, proc>> /\ module' # "loaded"
      BY <1>1 DEF ExitBegin, ExitFree, ExitEnd
    <2>2. \A p \in Procs : proc[p].pc = "user"
      BY <1>1 DEF ExitBegin, ExitFree, ExitEnd, IInv, ModuleInv, CallInv
    <2>3. RegInv'
      <3> SUFFICES ASSUME Apart, NEW d \in Devs, reg'[d] > 0
                   PROVE  /\ reg'[d] = 1
                          /\ irq[IrqOf[d]].handled /\ irq[IrqOf[d]].dev = d
                          /\ module' = "exiting" /\ IrqOf[d] \in toFree'
        BY <2>1, <2>2 DEF RegInv, Apart
      <3>1. IrqOf[d] \in Irqs /\ reg \in [Devs -> Nat]
        BY IrqOfAssumption DEF IInv, TypeOK
      <3>2. reg[d] > 0 =>
              /\ reg[d] = 1
              /\ irq[IrqOf[d]].handled /\ irq[IrqOf[d]].dev = d
              /\ module = "loaded" \/ (module = "exiting" /\ IrqOf[d] \in toFree)
        BY <2>2 DEF TableInv, RegInv
      <3>3. CASE ExitBegin
        BY <3>1, <3>2, <3>3 DEF ExitBegin
      <3>4. CASE ExitEnd
        BY <3>2, <3>4 DEF ExitEnd
      <3>5. ASSUME NEW i \in Irqs, ExitFree(i)
            PROVE  /\ reg'[d] = 1
                   /\ irq[IrqOf[d]].handled /\ irq[IrqOf[d]].dev = d
                   /\ module' = "exiting" /\ IrqOf[d] \in toFree'
        <4>1. /\ module = "exiting" /\ module' = "exiting" /\ toFree' = toFree \ {i}
              /\ reg'[d] = IF ExitFinds(i) /\ d = irq[i].dev THEN reg[d] - 1 ELSE reg[d]
          BY <3>5 DEF ExitFree
        <4>2. reg[d] > 0 /\ reg[d] = 1 /\ reg'[d] = 1 /\ ~(ExitFinds(i) /\ d = irq[i].dev)
          BY <3>1, <3>2, <4>1
        <4>3. IrqOf[d] # i
          BY <3>2, <4>2 DEF ExitFinds
        <4>4. QED
          BY <3>2, <4>1, <4>2, <4>3
      <3>6. QED
        BY <1>1, <3>3, <3>4, <3>5
    <2>4. QED
      BY <2>1, <2>2, <2>3 DEF TableInv, LinkInv, DevInv, FillInv, EntryMatchesKernel
  <1>2. CASE InitModule
    <2>1. \A p \in Procs : proc'[p].pc = "user"
      BY <1>2 DEF InitModule, IInv, ModuleInv, CallInv
    <2>2. \A i \in Irqs : irq'[i].handled = FALSE /\ irq'[i].dev = NoDev /\ irq'[i].ack_addr = NoDev
      BY <1>2 DEF InitModule, Zeroed
    <2>3. RegInv'
      <3>1. \A p \in Procs : proc[p].pc = "user"
        BY <1>2 DEF InitModule, IInv, ModuleInv, CallInv
      <3>2. Apart => \A d \in Devs : ~(reg[d] > 0)
        BY <1>2, <3>1 DEF InitModule, TableInv, RegInv
      <3>3. QED
        BY <1>2, <2>1, <3>2 DEF InitModule, RegInv, Apart
    <2>4. QED
      BY <2>1, <2>2, <2>3, DevsAssumption DEF TableInv, LinkInv, DevInv, FillInv, EntryMatchesKernel
  <1>3. QED
    BY <1>1, <1>2 DEF ModuleStep

LEMMA TableInductive == IInv /\ TableInv /\ [Next]_vars => TableInv'
  <1> SUFFICES ASSUME IInv, TableInv, [Next]_vars PROVE TableInv'
    OBVIOUS
  <1>1. CASE UNCHANGED vars
    BY <1>1, StillOk DEF vars, kernel
  <1>2. ASSUME NEW p \in Procs, UserStep(p)
        PROVE  TableInv'
    <2>1. CASE Open(p) \/ Release(p)
      BY <2>1, StillOk DEF Open, Release
    <2>2. QED
      BY <1>2, <2>1, CallOk DEF UserStep
  <1>3. ASSUME NEW p \in Procs, KernelStep(p)
        PROVE  TableInv'
    <2>1. CASE InstallDone(p)
      BY <2>1, HandledTable DEF InstallDone, At, kernel
    <2>2. CASE FreeUnregistered(p)
      BY <2>2, HandledTable DEF FreeUnregistered, InCall, At, kernel
    <2>3. CASE FreeSync(p)
      <3>1. /\ proc[p].pc = "sync" /\ SetIrq(Line(p), [Entry(p) EXCEPT !.handled = FALSE])
            /\ Goto(p, "unlock") /\ UNCHANGED <<reg, module, toFree>>
        BY <2>3 DEF FreeSync, At, kernel
      <3>2. proc[p].call.op = "free"
        BY <3>1 DEF IInv, CallInv
      <3>3. Apart => reg[Device(p)] = 0
        BY <3>1, <3>2 DEF TableInv, RegInv, LinkInv, Linked, Device
      <3>4. QED
        BY <3>1, <3>2, <3>3, HandledTable
    <2>4. QED
      BY <1>3, <2>1, <2>2, <2>3, PassOk, InstallResetTable, InstallRequestTable, FreeRegisteredTable
      DEF KernelStep
  <1>4. CASE \E i \in Irqs : HandlerEnter(i) \/ HandlerStep(i)
    BY <1>4, HandlerOk
  <1>5. CASE \E d \in Devs : DevToggle(d)
    BY <1>5, StillOk DEF DevToggle
  <1>6. CASE ModuleStep
    BY <1>6, ModuleTable
  <1>7. QED
    BY <1>1, <1>2, <1>3, <1>4, <1>5, <1>6 DEF Next

\* What an entry says of the kernel's registration, and of the register that acknowledges,
\* is true while the line is handled, however installations were refused, faulted or found
\* the line busy, and whichever device FREE_IRQ was called for.
THEOREM EntriesCorrect == Spec => []EntryMatchesKernel
  <1>1. Init => TableInv
    BY DevsAssumption DEF Init, TableInv, LinkInv, DevInv, FillInv, EntryMatchesKernel, RegInv, Zeroed,
                          InUser
  <1>2. TableInv => EntryMatchesKernel
    BY DEF TableInv
  <1>3. QED
    BY <1>1, <1>2, TableInductive, Invariance, PTL DEF Spec

\* exit_dhahelper, which asks for the device of each entry, leaves no registration
\* behind when each device has a line of its own and no copy to the caller faults,
\* whoever closed a descriptor or died without FREE_IRQ.
THEOREM UnloadCorrect ==
  ASSUME Apart
  PROVE  Spec => []UnloadClean
  <1>1. Init => TableInv
    BY DevsAssumption DEF Init, TableInv, LinkInv, DevInv, FillInv, EntryMatchesKernel, RegInv, Zeroed,
                          InUser
  <1>2. IInv /\ TableInv => UnloadClean
    <2> SUFFICES ASSUME IInv, TableInv, module = "unloaded", NEW d \in Devs PROVE reg[d] = 0
      BY DEF UnloadClean
    <2>1. \A p \in Procs : proc[p].pc = "user"
      BY DEF IInv, ModuleInv, CallInv
    <2>2. ~(reg[d] > 0)
      BY <2>1 DEF TableInv, RegInv
    <2>3. QED
      BY <2>2 DEF IInv, TypeOK
  <1>3. QED
    BY <1>1, <1>2, TableInductive, Invariance, PTL DEF Spec

----------------------------------------------------------------------------
\* Locks.

\* Who is inside stays inside, but for the steps that give the lock back.
Keeps(i) ==
  /\ irq'[i].lock => irq[i].lock
  /\ \A p \in Procs : Inside(p, i) => Inside(p, i)'
  /\ hpc[i] \in {"crit", "wake", "unlock"} => hpc'[i] \in {"crit", "wake", "unlock"}

LEMMA KeepsHolder ==
  ASSUME LockHasHolder,
         \A i \in Irqs : \/ irq'[i].lock = FALSE
                         \/ Keeps(i)
                         \/ \E p \in Procs : Inside(p, i)'
                         \/ hpc'[i] \in {"crit", "wake", "unlock"}
  PROVE  LockHasHolder'
  BY DEF LockHasHolder, Keeps

InLabels == {"crit", "req", "copy", "sync", "unlock"}

\* A process that is not inside moves, or one that stays inside.
LEMMA ProcessKeeps ==
  ASSUME IInv, LockHasHolder, NEW p \in Procs,
         \A q \in Procs \ {p} : proc'[q] = proc[q],
         \/ proc[p].pc \notin InLabels
         \/ proc'[p].pc \in InLabels /\ proc'[p].call = proc[p].call,
         \A j \in Irqs : irq'[j].lock => irq[j].lock, UNCHANGED hpc
  PROVE  LockHasHolder'
  <1>1. \A j \in Irqs : Keeps(j)
    BY DEF Keeps, Inside, InLabels, Line
  <1>2. QED
    BY <1>1, KeepsHolder

LEMMA ProcMoves ==
  ASSUME IInv, NEW p \in Procs, NEW t, SetProc(p, t)
  PROVE  proc'[p] = t /\ \A q \in Procs \ {p} : proc'[q] = proc[q]
  BY DEF IInv, TypeOK, SetProc

LEMMA LockField ==
  ASSUME IInv, NEW i \in Irqs, NEW e, SetIrq(i, e), e.lock = irq[i].lock \/ e.lock = FALSE
  PROVE  \A j \in Irqs : irq'[j].lock => irq[j].lock
  BY DEF IInv, TypeOK, SetIrq

LEMMA CallLock ==
  ASSUME IInv, LockHasHolder, NEW p \in Procs, UserStep(p)
  PROVE  LockHasHolder'
  <1>1. proc[p] \in Tasks
    BY DEF IInv, TypeOK
  <1>2. CASE Open(p) \/ Release(p)
    BY <1>2 DEF Open, Release, LockHasHolder, Inside, Line
  <1>3. CASE Signal(p)
    <2> DEFINE t == [proc[p] EXCEPT !.sig = TRUE, !.asleep = FALSE]
    <2>1. t.pc = proc[p].pc /\ t.call = proc[p].call
      BY <1>1 DEF Tasks
    <2>2. SetProc(p, t) /\ UNCHANGED <<irq, hpc>>
      BY <1>3 DEF Signal, kernel
    <2> HIDE DEF t
    <2>3. QED
      BY <2>1, <2>2, ProcMoves, ProcessKeeps
  <1>4. CASE \E d \in Devs, ack \in BOOLEAN : InstallCall(p, d, ack)
    BY <1>4, ProcMoves, ProcessKeeps DEF InstallCall, Ioctl, At, InLabels
  <1>5. CASE \E d \in Devs : FreeCall(p, d)
    BY <1>5, ProcMoves, ProcessKeeps DEF FreeCall, Ioctl, At, InLabels
  <1>6. ASSUME NEW i \in Irqs, AckCall(p, i)
        PROVE  LockHasHolder'
    <2>1. [irq[i] EXCEPT !.wait = @ \cup {p}].lock = irq[i].lock
      BY DEF IInv, TypeOK, DhaIrqs
    <2>2. \A j \in Irqs : irq'[j].lock => irq[j].lock
      BY <1>6, <2>1, LockField DEF AckCall
    <2>3. QED
      BY <1>6, <2>2, ProcMoves, ProcessKeeps DEF AckCall, Ioctl, At, InLabels
  <1>7. QED
    BY <1>2, <1>3, <1>4, <1>5, <1>6 DEF UserStep

LEMMA KernelLock ==
  ASSUME IInv, LockHasHolder, NEW p \in Procs, KernelStep(p)
  PROVE  LockHasHolder'
  <1>1. /\ proc[p] \in Tasks /\ proc[p].pc # "user" /\ UNCHANGED hpc
        /\ irq \in [Irqs -> DhaIrqs]
    BY DEF IInv, TypeOK, KernelStep, Save, Lock, UnlockReturn, UnlockAck, InstallBusy, InstallReset,
           InstallRequest, InstallRefused, InstallDone, InstallFault, FreeUnhandled, FreeUnregistered,
           FreeRegistered, FreeSync, AckRead, AckTake, AckInterrupted, AckSchedule, AckResume,
           InCall, At, Return, kernel
  <1>2. Line(p) \in Irqs /\ Entry(p) \in DhaIrqs /\ Entry(p) = irq[Line(p)]
    BY <1>1, LineTyped DEF Entry
  <1>3. CASE Lock(p)
    <2>1. \A q \in Procs \ {p} : proc'[q] = proc[q]
      BY <1>3, Moved DEF Lock
    <2>2. \A j \in Irqs \ {Line(p)} : irq'[j] = irq[j]
      BY <1>1, <1>3 DEF Lock, Acquire, SetIrq
    <2>3. \A j \in Irqs \ {Line(p)} : Keeps(j)
      BY <1>1, <1>3, <2>1, <2>2 DEF Keeps, Inside, Lock, At, Line
    <2>4. ASSUME NEW j \in Irqs PROVE Keeps(j) \/ Inside(p, j)'
      <3>1. CASE j = Line(p)
        <4>1. Inside(p, j)'
          <5>1. proc'[p].pc = "crit" /\ Line(p)' = Line(p)
            BY <1>3, Moved DEF Lock
          <5>2. QED
            BY <3>1, <5>1 DEF Inside
        <4>2. QED
          BY <4>1
      <3>2. CASE j # Line(p)
        BY <2>3, <3>2
      <3>3. QED
        BY <3>1, <3>2
    <2>5. QED
      BY <2>4, KeepsHolder
  <1>4. CASE UnlockReturn(p) \/ UnlockAck(p)
    <2>1. SetIrq(Line(p), [Entry(p) EXCEPT !.lock = FALSE])
      BY <1>4 DEF UnlockReturn, UnlockAck
    <2>2. irq'[Line(p)].lock = FALSE /\ \A j \in Irqs \ {Line(p)} : irq'[j] = irq[j]
      BY <1>1, <1>2, <2>1 DEF SetIrq, DhaIrqs
    <2>3. \A q \in Procs \ {p} : proc'[q] = proc[q]
      BY <1>4, ProcMoves DEF UnlockReturn, UnlockAck, Return
    <2>4. \A j \in Irqs \ {Line(p)} : Keeps(j)
      BY <1>1, <2>2, <2>3 DEF Keeps, Inside, Line
    <2>5. QED
      BY <2>2, <2>4, KeepsHolder
  <1>5. CASE \/ InstallBusy(p) \/ InstallReset(p) \/ InstallRequest(p) \/ InstallRefused(p)
             \/ InstallDone(p) \/ InstallFault(p) \/ FreeUnhandled(p) \/ FreeUnregistered(p)
             \/ FreeRegistered(p) \/ FreeSync(p)
    <2>1. PICK l \in InLabels : Goto(p, l)
      BY <1>5 DEF InstallBusy, InstallReset, InstallRequest, InstallRefused, InstallDone,
        InstallFault, FreeUnhandled, FreeUnregistered, FreeRegistered, FreeSync, InLabels
    <2>2. \A j \in Irqs : irq'[j].lock => irq[j].lock
      <3>1. CASE UNCHANGED irq
        BY <3>1
      <3>2. ASSUME NEW h \in BOOLEAN, SetIrq(Line(p), [Entry(p) EXCEPT !.handled = h])
            PROVE  \A j \in Irqs : irq'[j].lock => irq[j].lock
        <4>1. [Entry(p) EXCEPT !.handled = h].lock = Entry(p).lock
          BY <1>2 DEF DhaIrqs
        <4>2. QED
          BY <1>2, <3>2, <4>1, LockField
      <3>3. CASE InstallReset(p)
        <4> DEFINE a == IF proc[p].call.ack THEN Device(p) ELSE NoDev
                   e == [Zeroed EXCEPT !.ack_addr = a, !.dev = Device(p)]
        <4>1. e.lock = FALSE
          BY DEF Zeroed
        <4>2. SetIrq(Line(p), e)
          BY <3>3 DEF InstallReset
        <4> HIDE DEF e
        <4>3. QED
          BY <1>2, <4>1, <4>2, LockField
      <3>4. QED
        BY <1>5, <3>1, <3>2, <3>3
        DEF InstallBusy, InstallRequest, InstallRefused, InstallDone, InstallFault, FreeUnhandled,
            FreeUnregistered, FreeRegistered, FreeSync, kernel
    <2>3. QED
      BY <1>1, <2>1, <2>2, Moved, ProcessKeeps
  <1>6. CASE AckRead(p)
    <2> DEFINE r == Entry(p).rcvd
               t == [proc[p] EXCEPT !.pc = "unlock", !.r = r]
    <2>1. t.pc = "unlock" /\ t.call = proc[p].call
      BY <1>1 DEF Tasks
    <2>2. SetProc(p, t) /\ UNCHANGED irq
      BY <1>6 DEF AckRead
    <2> HIDE DEF t
    <2>3. QED
      BY <1>1, <2>1, <2>2, ProcMoves, ProcessKeeps DEF InLabels
  <1>7. CASE Save(p) \/ AckTake(p) \/ AckInterrupted(p) \/ AckSchedule(p) \/ AckResume(p)
    <2>1. proc[p].pc \notin InLabels /\ \A q \in Procs \ {p} : proc'[q] = proc[q]
      BY <1>7, ProcMoves DEF Save, AckTake, AckInterrupted, AckSchedule, AckResume, At, Goto, Return, InLabels
    <2>2. \A j \in Irqs : irq'[j].lock => irq[j].lock
      <3>1. CASE UNCHANGED irq
        BY <3>1
      <3>2. CASE Save(p)
        <4>1. [Entry(p) EXCEPT !.flags = proc[p].ie].lock = Entry(p).lock
          BY <1>2 DEF DhaIrqs
        <4>2. QED
          BY <1>2, <3>2, <4>1, LockField DEF Save
      <3>3. CASE AckTake(p)
        <4>1. [Entry(p) EXCEPT !.rcvd = FALSE, !.got = @ + 1, !.wait = @ \ {p}].lock = Entry(p).lock
          BY <1>2 DEF DhaIrqs
        <4>2. QED
          BY <1>2, <3>3, <4>1, LockField DEF AckTake
      <3>4. CASE AckInterrupted(p)
        <4>1. [Entry(p) EXCEPT !.wait = @ \ {p}].lock = Entry(p).lock
          BY <1>2 DEF DhaIrqs
        <4>2. QED
          BY <1>2, <3>4, <4>1, LockField DEF AckInterrupted
      <3>5. QED
        BY <1>7, <3>1, <3>2, <3>3, <3>4 DEF AckSchedule, AckResume
    <2>3. QED
      BY <1>1, <2>1, <2>2, ProcessKeeps
  <1>8. QED
    BY <1>3, <1>4, <1>5, <1>6, <1>7 DEF KernelStep

LEMMA HandlerLocks ==
  ASSUME IInv, LockHasHolder, NEW i \in Irqs, HandlerEnter(i) \/ HandlerStep(i)
  PROVE  LockHasHolder'
  <1>1. hpc \in [Irqs -> {"idle", "spin", "crit", "wake", "unlock"}] /\ irq \in [Irqs -> DhaIrqs]
    BY DEF IInv, TypeOK
  <1>2. \A p \in Procs : \A j \in Irqs : Inside(p, j) => Inside(p, j)'
    <2>1. \A p \in Procs : proc'[p].pc = proc[p].pc /\ proc'[p].call = proc[p].call
      BY DEF HandlerEnter, HandlerStep, HandlerLock, HandlerMark, HandlerIgnore, HandlerWake,
             HandlerUnlock, IInv, TypeOK, Tasks
    <2>2. QED
      BY <2>1 DEF Inside, Line
  <1>3. \A j \in Irqs \ {i} : irq'[j] = irq[j] /\ hpc'[j] = hpc[j]
    BY <1>1 DEF HandlerEnter, HandlerStep, HandlerLock, HandlerMark, HandlerIgnore, HandlerWake,
           HandlerUnlock, HGoto, Acquire, SetIrq
  <1>4. \/ irq'[i].lock = FALSE
        \/ hpc'[i] \in {"crit", "wake", "unlock"}
        \/ /\ irq'[i].lock => irq[i].lock
           /\ hpc[i] \notin {"crit", "wake", "unlock"}
    <2>1. CASE HandlerEnter(i)
      BY <1>1, <2>1 DEF HandlerEnter, HGoto, SetIrq, DhaIrqs
    <2>2. CASE HandlerUnlock(i)
      BY <1>1, <2>2 DEF HandlerUnlock, SetIrq, DhaIrqs
    <2>3. CASE HandlerLock(i) \/ HandlerMark(i) \/ HandlerIgnore(i) \/ HandlerWake(i)
      BY <1>1, <2>3 DEF HandlerLock, HandlerMark, HandlerIgnore, HandlerWake, HGoto
    <2>4. QED
      BY <2>1, <2>2, <2>3 DEF HandlerStep
  <1>5. QED
    BY <1>2, <1>3, <1>4, KeepsHolder DEF Keeps

LEMMA ModuleLocks ==
  ASSUME IInv, LockHasHolder, ModuleStep
  PROVE  LockHasHolder'
  <1>1. CASE InitModule
    BY <1>1 DEF InitModule, Zeroed, LockHasHolder
  <1>2. CASE ExitBegin \/ (\E i \in Irqs : ExitFree(i)) \/ ExitEnd
    BY <1>2 DEF ExitBegin, ExitFree, ExitEnd, LockHasHolder, Inside, Line
  <1>3. QED
    BY <1>1, <1>2 DEF ModuleStep

LEMMA LockInductive == IInv /\ LockHasHolder /\ [Next]_vars => LockHasHolder'
  <1> SUFFICES ASSUME IInv, LockHasHolder, [Next]_vars PROVE LockHasHolder'
    OBVIOUS
  <1>1. CASE UNCHANGED vars
    BY <1>1 DEF vars, kernel, LockHasHolder, Inside, Line
  <1>2. CASE \E d \in Devs : DevToggle(d)
    BY <1>2 DEF DevToggle, LockHasHolder, Inside, Line
  <1>3. QED
    BY <1>1, <1>2, CallLock, KernelLock, HandlerLocks, ModuleLocks DEF Next

\* A spinlock of an entry never stays taken behind everybody's back: who can still give it
\* back is inside, although INSTALL_IRQ reinitialises the lock that it holds and lets the
\* handler in beside it.
THEOREM LocksCorrect == Spec => []LockHasHolder
  <1>1. Init => LockHasHolder
    BY DEF Init, LockHasHolder, Zeroed
  <1>2. QED
    BY <1>1, LockInductive, Invariance, PTL DEF Spec
=============================================================================
