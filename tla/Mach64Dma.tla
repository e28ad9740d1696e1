------------------------------ MODULE Mach64Dma ------------------------------
(***************************************************************************)
(* Frame transfers of the Mach64 driver (vidix/drivers/mach64_vid.c) over  *)
(* the user memory of DhaMem: vixPlaybackCopyFrame from bm_lock_mem to     *)
(* bm_unlock_mem, the descriptor tables, the bus-master engine and its     *)
(* interrupt.  mach64.h lists CRTC_BUSMASTER_EOL_INT among CRTC_INT_ACKS:  *)
(* the bit reads 1 after the end of a list and is cleared by writing 1.    *)
(***************************************************************************)
EXTENDS DhaMem

CONSTANTS
  Player,       \* the thread of the program
  Sources,      \* its buffers; dmai->idx numbers them
  Desc,         \* the descriptor table for a source, a buffer of one page
  Pinned,       \* pages the program locked by mlock()
  Flags         \* flag sets the program passes

ASSUME PlayerAssumption == Threads = {Player}
ASSUME DescAssumption   == Sources \subseteq Buffers /\ Desc \in [Sources -> Buffers]
ASSUME PinnedAssumption == Pinned \subseteq Pages
ASSUME FlagsAssumption  == Flags \subseteq SUBSET {"sync", "fixed"}

VARIABLES
  drv,          \* the call of vixPlaybackCopyFrame
  lists,        \* the descriptor tables: addresses of the pages to copy
  built,        \* dmai->internal: sources whose table was filled
  irq,          \* irq_installed, can_use_irq, and the event kept by the helper
  engine        \* BUS_CNTL, BM_SYSTEM_TABLE and CRTC_INT_CNTL

vars == <<memVars, drv, lists, built, irq, engine>>

Addresses == Frames \cup {Wild, None}
Calls   == [at : {"none", "lock", "locking", "sync", "wait", "reset", "setup", "building",
                  "desc", "describing", "transfer", "unlock", "unlocking"},
            buf : Sources \cup {None}, flags : SUBSET {"sync", "fixed"}, fits : BOOLEAN]
Irqs    == [installed : BOOLEAN, usable : BOOLEAN, event : BOOLEAN]
Engines == [busy : BOOLEAN, eol : BOOLEAN, enabled : BOOLEAN,
            desc : Addresses, buf : Sources \cup {None}]

NoCall == [at |-> "none", buf |-> None, flags |-> {}, fits |-> TRUE]

\* mlock() keeps the pinned pages where they are.
Init ==
  /\ table \in {m \in [Pages -> Frames \cup {None}] :
                  /\ \A p \in Pages : m[p] # None <=> p \in Pinned
                  /\ \A p, q \in Pinned : m[p] = m[q] => p = q}
  /\ marked = {} /\ bkl = None /\ held = {}
  /\ task = [t \in Threads |-> NoTask]
  /\ drv = NoCall
  /\ lists = [b \in Sources |-> <<>>]
  /\ built = {}
  /\ irq = [installed |-> FALSE, usable |-> FALSE, event |-> FALSE]
  /\ engine = [busy |-> FALSE, eol |-> TRUE, enabled |-> FALSE, desc |-> None, buf |-> None]

On(label)   == drv.at = label
GoOn(label) == drv' = [drv EXCEPT !.at = label]
Fixed       == "fixed" \in drv.flags
Sync        == "sync" \in drv.flags

\* The ioctl that was entered is answered.
Answered(label) == On(label) /\ Idle(Player)

----------------------------------------------------------------------------
AfterLock(flags) == IF "sync" \in flags THEN "sync" ELSE "reset"

CopyFrame(b, flags, fits) ==
  /\ On("none")
  /\ drv' = [at |-> IF "fixed" \in flags THEN AfterLock(flags) ELSE "lock",
             buf |-> b, flags |-> flags, fits |-> fits]
  /\ UNCHANGED <<memVars, lists, built, irq, engine>>

BeginLock ==
  /\ On("lock") /\ Lock(Player, drv.buf)
  /\ GoOn("locking")
  /\ UNCHANGED <<lists, built, irq, engine>>

\* The lock is there, or the call is over.
EndLock ==
  /\ Answered("locking")
  /\ IF task[Player].ok THEN GoOn(AfterLock(drv.flags)) ELSE drv' = NoCall
  /\ UNCHANGED <<memVars, lists, built, irq, engine>>

----------------------------------------------------------------------------
\* vixQueryDMAStatus: 0 when the end of a list was seen.
QueryDMAStatus == IF engine.eol THEN 0 ELSE 1

\* init_irq, once.
InitIrq ==
  /\ On("sync") /\ ~irq.installed
  /\ \E usable \in BOOLEAN :
       irq' = [installed |-> TRUE, usable |-> usable, event |-> FALSE]
  /\ UNCHANGED <<memVars, drv, lists, built, engine>>

SyncDone ==
  /\ On("sync") /\ irq.installed /\ QueryDMAStatus = 0
  /\ GoOn("reset")
  /\ UNCHANGED <<memVars, lists, built, irq, engine>>

\* Without an interrupt the status is asked again and again.
SyncWait ==
  /\ On("sync") /\ irq.usable /\ QueryDMAStatus # 0
  /\ GoOn("wait")
  /\ UNCHANGED <<memVars, lists, built, irq, engine>>

HwirqWait ==
  /\ On("wait") /\ irq.event
  /\ irq' = [irq EXCEPT !.event = FALSE]
  /\ GoOn("sync")
  /\ UNCHANGED <<memVars, lists, built, engine>>

----------------------------------------------------------------------------
\* Variant: the engine is left running.
EngineResetNot ==
  /\ On("reset") /\ GoOn("setup")
  /\ UNCHANGED <<memVars, lists, built, irq, engine>>

\* mach64_engine_reset kills what the engine does; a bit written 0 is not
\* acknowledged.
EngineReset ==
  /\ On("reset") /\ GoOn("setup")
  /\ engine' = [engine EXCEPT !.busy = FALSE, !.enabled = FALSE]
  /\ UNCHANGED <<memVars, lists, built, irq>>

\* Variant: a frame that does not fit ends the call at once.
SetupTooLargeReturns ==
  /\ On("setup") /\ ~drv.fits
  /\ drv' = NoCall
  /\ UNCHANGED <<memVars, lists, built, irq, engine>>

\* mach64_setup_frame: the frame does not fit into the video memory.
SetupTooLarge ==
  /\ On("setup") /\ ~drv.fits
  /\ GoOn(IF Fixed THEN "none" ELSE "unlock")
  /\ UNCHANGED <<memVars, lists, built, irq, engine>>

\* Variant: the table is taken as it is.
SetupReuseAlways ==
  /\ On("setup") /\ drv.fits /\ Fixed
  /\ GoOn("desc")
  /\ UNCHANGED <<memVars, lists, built, irq, engine>>

SetupReuse ==
  /\ On("setup") /\ drv.fits /\ Fixed /\ drv.buf \in built
  /\ GoOn("desc")
  /\ UNCHANGED <<memVars, lists, built, irq, engine>>

SetupTranslate ==
  /\ On("setup") /\ drv.fits /\ ~(Fixed /\ drv.buf \in built)
  /\ Translate(Player, drv.buf)
  /\ GoOn("building")
  /\ UNCHANGED <<lists, built, irq, engine>>

\* The table is written, which brings its page in.
SetupBuild ==
  /\ Answered("building")
  /\ lists' = [lists EXCEPT ![drv.buf] = task[Player].bus]
  /\ built' = built \cup {drv.buf}
  /\ LET p == PageOf(Desc[drv.buf], 0)
     IN  IF Present(p) THEN UNCHANGED table
         ELSE \E f \in Frames \ (InUse \cup marked) : table' = [table EXCEPT ![p] = f]
  /\ GoOn("desc")
  /\ UNCHANGED <<marked, bkl, task, held, irq, engine>>

\* The address of the table; nobody locked it.
Describe ==
  /\ On("desc") /\ Translate(Player, Desc[drv.buf])
  /\ GoOn("describing")
  /\ UNCHANGED <<lists, built, irq, engine>>

Described ==
  /\ Answered("describing")
  /\ GoOn("transfer")
  /\ UNCHANGED <<memVars, lists, built, irq, engine>>

\* Variant: the end of the last list is not acknowledged.
TransferNoAck ==
  /\ On("transfer")
  /\ engine' = [engine EXCEPT !.busy = TRUE, !.enabled = Sync /\ irq.usable,
                              !.desc = task[Player].bus[1], !.buf = drv.buf]
  /\ GoOn(IF Fixed THEN "none" ELSE "unlock")
  /\ UNCHANGED <<memVars, lists, built, irq>>

\* mach64_transfer_frame acknowledges the end of the last list and goes.
Transfer ==
  /\ On("transfer")
  /\ engine' = [busy |-> TRUE, eol |-> FALSE, enabled |-> Sync /\ irq.usable,
                desc |-> task[Player].bus[1], buf |-> drv.buf]
  /\ GoOn(IF Fixed THEN "none" ELSE "unlock")
  /\ UNCHANGED <<memVars, lists, built, irq>>

\* The buffer is unlocked, whatever the engine does; the result is not looked at.
BeginUnlock ==
  /\ On("unlock") /\ Unlock(Player, drv.buf)
  /\ GoOn("unlocking")
  /\ UNCHANGED <<lists, built, irq, engine>>

EndUnlock ==
  /\ Answered("unlocking")
  /\ drv' = NoCall
  /\ UNCHANGED <<memVars, lists, built, irq, engine>>

----------------------------------------------------------------------------
\* The card comes to the end of the list.
Complete ==
  /\ engine.busy
  /\ engine' = [engine EXCEPT !.busy = FALSE, !.eol = TRUE]
  /\ UNCHANGED <<memVars, drv, lists, built, irq>>

\* The handler of the helper keeps the event and writes the acknowledgement over
\* the whole register.
Interrupt ==
  /\ engine.eol /\ engine.enabled
  /\ irq' = [irq EXCEPT !.event = TRUE]
  /\ engine' = [engine EXCEPT !.eol = FALSE, !.enabled = FALSE]
  /\ UNCHANGED <<memVars, drv, lists, built>>

----------------------------------------------------------------------------
Driver ==
  \/ BeginLock \/ EndLock \/ InitIrq \/ SyncDone \/ SyncWait \/ HwirqWait \/ EngineReset
  \/ SetupTooLarge \/ SetupReuse \/ SetupTranslate \/ SetupBuild \/ Describe \/ Described
  \/ Transfer \/ BeginUnlock \/ EndUnlock
Helper == Step(Player) /\ UNCHANGED <<drv, lists, built, irq, engine>>
Kernel ==
  /\ \E p \in Pages \ Pinned : Touch(p) \/ Reclaim(p)
  /\ UNCHANGED <<drv, lists, built, irq, engine>>

Next ==
  \/ \E b \in Sources, flags \in Flags, fits \in BOOLEAN : CopyFrame(b, flags, fits)
  \/ Driver \/ Helper \/ Complete \/ Interrupt \/ Kernel

Spec == Init /\ [][Next]_vars

----------------------------------------------------------------------------
\* Properties.

\* The driver, its lists and the engine; only an installed interrupt is usable.
DrvTypeOK ==
  /\ drv \in Calls
  /\ lists \in [Sources -> Seq(Addresses)]
  /\ built \subseteq Sources
  /\ irq \in Irqs /\ (irq.usable => irq.installed)
  /\ engine \in Engines /\ (engine.enabled => irq.usable)

\* Outside a call the driver holds no lock: every way out gives the buffer back.
LocksBalanced == On("none") => held = {} /\ marked = {}

\* Status 0 is only given when the engine is at rest.
FreeMeansIdle == QueryDMAStatus = 0 => ~engine.busy

\* While the engine runs over a source the program locked itself, its list names
\* the frames that hold the source, whichever transfer built that list.  (A
\* source the driver locks is unlocked while the engine still reads it.)
ReadsSource ==
  engine.busy /\ Visited(engine.buf) \subseteq Pinned =>
    lists[engine.buf] = [k \in 1 .. Items(engine.buf) |-> table[PageOf(engine.buf, k - 1)]]

\* The list the engine reads is not rewritten under it, and for the sources of
\* ReadsSource it is not out of date.
ListHolds ==
  /\ []ReadsSource
  /\ [][engine.busy /\ engine'.busy /\ ~On("transfer")
          => lists'[engine.buf] = lists[engine.buf]]_vars
=============================================================================
