------------------------------- MODULE DhaMem -------------------------------
(***************************************************************************)
(* Locking and translating user memory in the kernel helper                *)
(* (libdha/kernelhelper/dhahelper.c): DHAHELPER_LOCK_MEM, _UNLOCK_MEM and  *)
(* _VIRT_TO_BUS, called by the threads of one process through bm_lock_mem, *)
(* bm_unlock_mem and bm_virt_to_bus.  The kernel takes a page away unless  *)
(* its frame is marked; the big kernel lock is given up during page-in.    *)
(***************************************************************************)
EXTENDS Naturals, Sequences

CONSTANTS
  Threads,
  Buffers,      \* records [addr, length] in bytes
  PageSize,     \* PAGE_SIZE
  Mapped,       \* pages of the process that may be accessed
  Frames,       \* page frames of the machine
  None,         \* no frame, no thread, no buffer
  Wild,         \* what the translation of an absent page yields
  Smp           \* pages are taken away beside running kernel code

ASSUME SizeAssumption   == PageSize \in Nat \ {0}
ASSUME BufferAssumption == Buffers \subseteq [addr : Nat, length : Nat \ {0}]
ASSUME NoneAssumption   == /\ None \notin Threads \cup Frames \cup Buffers
                           /\ Wild \notin Frames \cup {None}
ASSUME SmpAssumption    == Smp \in BOOLEAN

\* nitems of the ioctls, and the page their loop reaches in round k.
Items(b)     == b.length \div PageSize + (IF b.length % PageSize > 0 THEN 1 ELSE 0)
PageOf(b, k) == (b.addr + k * PageSize) \div PageSize

\* The pages a buffer really lies on, and those the loops visit.
Touched(b) == b.addr \div PageSize .. (b.addr + b.length - 1) \div PageSize
Visited(b) == {PageOf(b, k) : k \in 0 .. Items(b) - 1}

Pages == UNION {Touched(b) \cup Visited(b) : b \in Buffers}

VARIABLES
  table,        \* page table: the frame of a page, None when it is not present
  marked,       \* frames with PG_locked and PG_reserved set
  bkl,          \* holder of the big kernel lock
  task,         \* the ioctl of each thread, and whether its buffer was locked
  held          \* history: buffers locked and not yet given up

memVars == <<table, marked, bkl, task, held>>

Tasks == [op : {"lock", "unlock", "translate"}, buf : Buffers \cup {None},
          at : {"none", "loop", "fault", "read", "again", "mark", "undo"},
          i : Nat, j : Nat, sure : BOOLEAN, ok : BOOLEAN, bus : Seq(Frames \cup {Wild})]

NoTask == [op |-> "lock", buf |-> None, at |-> "none", i |-> 0, j |-> 0,
           sure |-> FALSE, ok |-> FALSE, bus |-> <<>>]

MemInit ==
  /\ table = [p \in Pages |-> None]
  /\ marked = {}
  /\ bkl = None
  /\ task = [t \in Threads |-> NoTask]
  /\ held = {}

Present(p) == table[p] # None
InUse      == {table[p] : p \in Pages} \ {None}
At(t, l)   == task[t].at = l
Page(t)    == PageOf(task[t].buf, task[t].i)
Idle(t)    == At(t, "none")

\* A thread runs in the helper while it holds the big kernel lock.
Runs(t, op, l) == bkl = t /\ task[t].op = op /\ At(t, l)
GoTo(t, l)     == task' = [task EXCEPT ![t].at = l]
Return(t, ok)  ==
  /\ task' = [task EXCEPT ![t].at = "none", ![t].i = 0, ![t].j = 0, ![t].ok = ok]
  /\ bkl' = None

\* The loop goes on with the next page or ends.
Advance(t, l) ==
  IF task[t].i + 1 < Items(task[t].buf)
  THEN task' = [task EXCEPT ![t].at = l, ![t].i = @ + 1] /\ UNCHANGED bkl
  ELSE Return(t, TRUE)

----------------------------------------------------------------------------
\* An ioctl is entered.  The program locks a buffer once, and gives it up when it
\* asks for its unlocking.
Enter(t, op, b) ==
  /\ Idle(t) /\ bkl = None
  /\ bkl' = t
  /\ task' = [task EXCEPT ![t] = [NoTask EXCEPT !.op = op, !.buf = b, !.at = "loop",
                                                  !.sure = b \in held]]
  /\ UNCHANGED <<table, marked>>

Busy(b) == \E t \in Threads : ~Idle(t) /\ task[t].buf = b

Lock(t, b)      == b \notin held /\ ~Busy(b) /\ Enter(t, "lock", b) /\ UNCHANGED held
Unlock(t, b)    == b \in held /\ ~Busy(b) /\ Enter(t, "unlock", b) /\ held' = held \ {b}
Translate(t, b) == Enter(t, "translate", b) /\ UNCHANGED held

----------------------------------------------------------------------------
\* pag_lock: the page is looked up; when it is absent it is accessed, which may
\* sleep and lets others into the helper.
LockPresent(t) ==
  /\ Runs(t, "lock", "loop") /\ Present(Page(t))
  /\ GoTo(t, "mark")
  /\ UNCHANGED <<table, marked, bkl, held>>

LockAbsent(t) ==
  /\ Runs(t, "lock", "loop") /\ ~Present(Page(t)) /\ Page(t) \in Mapped
  /\ GoTo(t, "fault") /\ bkl' = None
  /\ UNCHANGED <<table, marked, held>>

\* There is no such page.
LockRefused(t) ==
  /\ Runs(t, "lock", "loop") /\ Page(t) \notin Mapped
  /\ GoTo(t, "undo")
  /\ UNCHANGED <<table, marked, bkl, held>>

\* The access brings the page in ...
PageIn(t) ==
  /\ At(t, "fault")
  /\ IF Present(Page(t)) THEN UNCHANGED table
     ELSE \E f \in Frames \ (InUse \cup marked) : table' = [table EXCEPT ![Page(t)] = f]
  /\ GoTo(t, "read")
  /\ UNCHANGED <<marked, bkl, held>>

\* ... and the thread comes back into the helper,
Regain(t) ==
  /\ At(t, "read") /\ bkl = None
  /\ GoTo(t, "again") /\ bkl' = t
  /\ UNCHANGED <<table, marked, held>>

\* looks a second time: the page may be gone again.
LockAgain(t) ==
  /\ Runs(t, "lock", "again")
  /\ GoTo(t, IF Present(Page(t)) THEN "mark" ELSE "undo")
  /\ UNCHANGED <<table, marked, bkl, held>>

\* uvirt_to_pa and uvirt_to_bus look the page up once more.
Address(p) == IF Present(p) THEN table[p] ELSE Wild

\* Variant: only the first page is marked.
LockMarkFirst(t) ==
  /\ Runs(t, "lock", "mark")
  /\ marked' = IF task[t].i = 0 THEN marked \cup {Address(Page(t))} ELSE marked
  /\ Advance(t, "loop")
  /\ held' = IF task'[t].at = "none" THEN held \cup {task[t].buf} ELSE held
  /\ UNCHANGED table

\* The frame is marked, and the loop goes on.
LockMark(t) ==
  /\ Runs(t, "lock", "mark")
  /\ marked' = marked \cup {Address(Page(t))}
  /\ Advance(t, "loop")
  /\ held' = IF task'[t].at = "none" THEN held \cup {task[t].buf} ELSE held
  /\ UNCHANGED table

\* Variant: the roll-back leaves the first page locked.
LockUndoRest(t) ==
  /\ Runs(t, "lock", "undo")
  /\ IF task[t].j = task[t].i
     THEN Return(t, FALSE) /\ UNCHANGED marked
     ELSE /\ marked' = IF task[t].j = 0 THEN marked
                       ELSE marked \ {table[PageOf(task[t].buf, task[t].j)]}
          /\ task' = [task EXCEPT ![t].j = @ + 1]
          /\ UNCHANGED bkl
  /\ UNCHANGED <<table, held>>

\* Variant: the roll-back does not get on.
LockUndoStuck(t) ==
  /\ Runs(t, "lock", "undo") /\ task[t].i = 0
  /\ Return(t, FALSE)
  /\ UNCHANGED <<table, marked, held>>

\* pag_unlock of every page locked so far.
LockUndo(t) ==
  /\ Runs(t, "lock", "undo")
  /\ IF task[t].j = task[t].i
     THEN Return(t, FALSE) /\ UNCHANGED marked
     ELSE /\ marked' = marked \ {table[PageOf(task[t].buf, task[t].j)]}
          /\ task' = [task EXCEPT ![t].j = @ + 1]
          /\ UNCHANGED bkl
  /\ UNCHANGED <<table, held>>

----------------------------------------------------------------------------
\* unlock_mem: pag_unlock page by page; an absent page ends the loop.
UnlockPage(t) ==
  /\ Runs(t, "unlock", "loop")
  /\ IF Present(Page(t)) THEN Advance(t, "loop") ELSE Return(t, FALSE)
  /\ marked' = marked \ {table[Page(t)]}
  /\ UNCHANGED <<table, held>>

\* Variant: the translation of the first page is given for all.
TranslatePageFirst(t) ==
  /\ Runs(t, "translate", "loop")
  /\ LET more == task[t].i + 1 < Items(task[t].buf)
     IN  /\ task' = [task EXCEPT ![t].bus = Append(@, Address(PageOf(task[t].buf, 0))),
                                 ![t].i   = IF more THEN @ + 1 ELSE 0,
                                 ![t].at  = IF more THEN "loop" ELSE "none",
                                 ![t].ok  = ~more]
         /\ bkl' = IF more THEN t ELSE None
  /\ UNCHANGED <<table, marked, held>>

\* virt_to_bus: the address of a page, present or not, goes to the caller.
TranslatePage(t) ==
  /\ Runs(t, "translate", "loop")
  /\ LET more == task[t].i + 1 < Items(task[t].buf)
     IN  /\ task' = [task EXCEPT ![t].bus = Append(@, Address(Page(t))),
                                 ![t].i   = IF more THEN @ + 1 ELSE 0,
                                 ![t].at  = IF more THEN "loop" ELSE "none",
                                 ![t].ok  = ~more]
         /\ bkl' = IF more THEN t ELSE None
  /\ UNCHANGED <<table, marked, held>>

----------------------------------------------------------------------------
\* The program uses a page; the kernel takes an unmarked one away.  On one
\* processor neither happens between the look-up of a page and its marking.
Elsewhere == Smp \/ ~\E t \in Threads : At(t, "mark")

Touch(p) ==
  /\ Elsewhere /\ p \in Mapped /\ ~Present(p)
  /\ \E f \in Frames \ (InUse \cup marked) : table' = [table EXCEPT ![p] = f]
  /\ UNCHANGED <<marked, bkl, task, held>>

Reclaim(p) ==
  /\ Elsewhere /\ Present(p) /\ table[p] \notin marked
  /\ table' = [table EXCEPT ![p] = None]
  /\ UNCHANGED <<marked, bkl, task, held>>

----------------------------------------------------------------------------
Step(t) ==
  \/ LockPresent(t) \/ LockAbsent(t) \/ LockRefused(t) \/ PageIn(t) \/ Regain(t)
  \/ LockAgain(t) \/ LockMark(t) \/ LockUndo(t) \/ UnlockPage(t) \/ TranslatePage(t)

Call(t)  == \E b \in Buffers : Lock(t, b) \/ Unlock(t, b) \/ Translate(t, b)
Paging   == \E p \in Pages : Touch(p) \/ Reclaim(p)
MemNext  == (\E t \in Threads : Call(t) \/ Step(t)) \/ Paging
MemSpec  == MemInit /\ [][MemNext]_memVars

\* A thread in the helper goes on; one that waits for the big kernel lock gets it.
MemFair == MemSpec /\ \A t \in Threads : WF_memVars(Step(t)) /\ SF_memVars(Regain(t))

----------------------------------------------------------------------------
\* Properties.

\* The helper as it is between steps; at most one frame holds a page.
TypeOK ==
  /\ table \in [Pages -> Frames \cup {None}]
  /\ marked \subseteq Frames \cup {Wild}
  /\ bkl \in Threads \cup {None}
  /\ task \in [Threads -> Tasks]
  /\ held \subseteq Buffers
  /\ \A p, q \in Pages : Present(p) /\ table[p] = table[q] => p = q
  /\ \A t \in Threads : task[t].j <= task[t].i
  /\ \A t \in Threads : At(t, "none") \/ At(t, "fault") \/ At(t, "read") \/ bkl = t

\* Every page of a locked buffer stays in memory, where its translation put it.
LockedStay ==
  \A b \in held : \A p \in Touched(b) : Present(p) /\ table[p] \in marked

\* When no call is under way the marked frames are those of the locked buffers:
\* failures and unlocking leave nothing behind.
NothingLeaked ==
  (\A t \in Threads : Idle(t)) =>
    marked = {table[p] : p \in UNION {Touched(b) : b \in held}}

\* The addresses that are given for a locked buffer are those of its pages.
TranslationHolds ==
  [][\A t \in Threads : task[t].sure /\ ~task[t].ok /\ task'[t].op = "translate" /\ task'[t].ok =>
       \A k \in DOMAIN task'[t].bus : task'[t].bus[k] = table[PageOf(task[t].buf, k - 1)]]_task

\* Every ioctl returns.
CallsReturn == \A t \in Threads : ~Idle(t) ~> Idle(t)
=============================================================================
