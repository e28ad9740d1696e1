# TLA+ models of VIDIX

VIDIX drives the video overlays of graphics cards from user space. A program
links `vidixlib`, which loads a driver for the card; the driver uses `libdha` to
reach the hardware; and `libdha` uses either a Linux kernel module, the kernel
helper behind `/dev/dhahelper`, or `/dev/mem` and `iopl`.

This directory holds TLA+ modules that model these parts, TLC configurations that
check them on small instances, and proofs for TLAPS. Paths are relative to
`src/vidix/`. `PROJECT.json` lists, for every definition that models code, the lines
it stands for, and for every run what it checks.

Contents: [the system](#the-system), [modules](#modules),
[runs](#runs), [bounds](#bounds), [fairness](#fairness), [proofs](#proofs),
[what is not modelled](#what-is-not-modelled),
[where documents and code disagree](#where-documents-and-code-disagree), [plan](#plan).

## The system

    program ── vidixlib ── driver (shared object) ── libdha ─┬─ /dev/dhahelper ── kernel helper
                                     │                       └─ /dev/mem, iopl, /proc
                                     └── registers and memory of the card ── interrupts, bus mastering

| part | source | state it keeps | operations | models |
|---|---|---|---|---|
| kernel helper, interrupts | `libdha/kernelhelper/dhahelper.c` 149-177, 583-782, 1331-1373 | `dha_irqs[256]`: lock, saved flags, handled, rcvd, ack address, device, wait queue | `INSTALL_IRQ`, `ACK_IRQ`, `FREE_IRQ`, the handler, open, release, module init and exit | `DhaIrq`, `IrqChannel` |
| kernel helper, memory | same file, 354-581 | the lock bit of each page frame | `LOCK_MEM`, `UNLOCK_MEM`, `VIRT_TO_BUS` | `DhaMem` |
| kernel helper, PCI | same file, 784-883 | one search cursor | `PCI_FIND`; `PCI_CONFIG` | `PciScan`; `PciConfig` |
| kernel helper, ports, MTRR, device file | same file, 192-352, 885-1330 | a file position | `PORT`, `MTRR`, `CPU_FLUSH`, read, write, mmap | - |
| libdha | `libdha/libdha.c`, `ports.c`, `irq.c`, `mmi.c` | file descriptors and counters in static variables | `map_phys_mem`, `enable_app_io`, `hwirq_*`, `bm_*` | `LibDha` |
| libdha, PCI | `libdha/pci.c`, `sysdep/pci_*.c` | the list being filled; the register pair 0xCF8/0xCFC | `pci_scan`; `pci_config_read`, `pci_config_write` | `PciScan`; `PciConfig` |
| driver loader | `vidix/vidixlib.c` | a stream's handle and function pointers; the static state of each shared object | `vdlOpen`, `vdlClose`, calls that are passed on | `VidixLib` |
| C++ interface | `vidix/vidixlibxx.cpp` | a handle, references to argument structures | constructors, assignment, destructor | - |
| drivers, probing | all of `vidix/drivers/*_vid.c` | tables of chips, the card found, what is remembered of it | `vixProbe`, `vixGetCapability`, `vixQueryFourcc` | `Probing` |
| drivers, resources | `vidix/drivers/*_vid.c` | mappings, blocks, descriptors, what is enabled | `vixProbe`, `vixInit`, `vixConfigPlayback`, `vixDestroy` | `DriverLife` |
| drivers, memory layout | thirteen of them | the table of frames, the shown frame | `vixConfigPlayback`, `vixPlaybackFrameSelect`, `vixPlaybackOn/Off`, `vixSetGrKeys` | `PlaybackLayout`, `Playback` |
| drivers, scaling | ten of them | the scale registers | `vixConfigPlayback`, `vixPlaybackOn` | `Scaling`, `RadeonScaler`, `Playback` |
| drivers, transfers | `pm3_vid.c`, `mach64_vid.c` | descriptor lists, the engine's registers | `vixPlaybackCopyFrame`, `vixQueryDMAStatus` | `Pm3Dma`, `Mach64Dma` |
| drivers, overlay | thirteen of them | the registers for the overlay, its key and its colours, and what the driver remembers of them | `vixSetGrKeys`, `vixPlaybackSetEq`, `vixPlaybackSetDeint` and the calls above, `vixInit` and `vixDestroy` included | `OverlayCards`, `Overlay` |
| drivers, other registers | all | register shadow | fifo levels, television encoders, equalizer values | - |

How they interact. A call of the program goes down through plain function calls and
ends in registers of the card or in an `ioctl`. What comes up is the end of a
transfer: the card raises its interrupt line, the helper's handler sets a flag and
wakes the process that waits in `ACK_IRQ`. Shared state is what makes it hard:
drivers of one program share the static variables of `libdha`, streams of one program
share the static variables of a driver, and programs share the interrupt table, the
search cursor, the PCI register pair and the card itself.

What is hard in it, and the property that states it:

- **Interrupts against waiters.** The handler runs between, and on several processors
  beside, the steps of an ioctl. No wake-up may be lost (`NoLostWakeup`), no interrupt
  answered twice (`PendingAccounted`); interrupts must be on when a process sleeps, although
  all takers of a lock save their flags in one field (`NoSleepWithIrqsOff`); the entry and
  the kernel's registration must agree on failing paths too (`EntryMatchesKernel`,
  `LockHasHolder`); owners die without `FREE_IRQ` and the module is unloaded
  (`UnloadClean`). All of it together is a promise to the caller (`ImplementsChannel`).
- **Transfers against events.** A transfer ends later; its event may be taken by the
  wrong wait (`FlagsHonoured`, `OwedOnce`, `CallReturns`, `FreeMeansIdle`), and the engine reads a
  descriptor list and source pages that the driver may meanwhile rewrite, free, unlock
  (`ListStable`, `ListHolds`).
- **Page locking.** Page-in gives up the kernel lock in the middle of a loop, and may fail
  (`LockedStay`, `NothingLeaked`, `TranslationHolds`, `LocksBalanced`).
- **Reference counts in static variables.** (`HandlesCounted`, `DestroyBeforeUnload`,
  `ResourcesHeld`, `NothingLeft`, `AppUnharmed`.)
- **Layouts.** A driver computes addresses, tells the program an alignment and offsets, and
  tells the card a pitch and addresses; nothing checks that the two stories are
  the same (`ProgramFits`, `FramesInside`). What is shown is one of several addresses that calls of
  different movies have left behind (`ShownFollows`), and the scaler steps through it by rounded quotients in registers of
  some bits (`WindowFilled`, `MovieWhole`).
- **Settings across movies.** Some settings go to the card at once, some when a movie is configured, some when it starts,
  and each of these calls resets others (`OverlayFollows`, `SettingsFollow`); the desktop wants its own key
  back at the end (`DeskBack`).
- **Discovery.** A scan goes through bridges, or through a cursor of the kernel, and registers are
  accessed in two steps (`Complete`, `Faithful`, `Ends`); a search asks one driver after the other, each with static variables and
  an idea of its own of what it can drive (`NothingPassedOver`, `DriverFitsCard`).

`PROJECT.json` lists under `hazards` where each of them bites, and which have no property yet.

## Modules

    IrqChannel <── refined by ── DhaIrq ── DhaIrqProofs
        └── instance in ── Pm3Dma ── Pm3DmaProofs
    DhaMem ── Mach64Dma ── Mach64DmaProofs
    PlaybackLayout ── Scaling ── RadeonScaler ── Playback ── PlaybackProofs
    OverlayCards ── Overlay ── OverlayProofs
    Probing ── VidixLib ── VidixLibProofs
    LibDha ── DriverLife ── DriverLifeInvariant ── DriverLifeProofs
    PciScan ── PciConfig ── PciScanProofs

A line from left to right is `EXTENDS`; the modules named `...Proofs` hold the theorems, Mach64DmaProofs those about DhaMem too.

Each `MC...` module gives values to the constants of one of them for TLC. Next to the
definitions that model code stand variants with a plausible slip, named in the comment above;
they are used to see that the properties can tell the difference, and by nothing else. A type invariant
is checked in the run `dhairq_smp`; those of the other modules with theorems are parts of their inductive invariants and proved
or, with those of the rest, were checked with TLC on the instances of their runs and are not listed as properties.

**DhaIrq.** `irq` is `dha_irqs`, `proc` the process inside an ioctl (program counter,
interrupt enable, task state), `bkl` the big kernel lock which `file_operations.ioctl` is called under
and `schedule()` gives up, `reg` the kernel's registrations of the handler, `hpc` the handler on each line.
An ioctl is cut where another actor can come between: `Save` and `Lock` are the two halves of
`spin_lock_irqsave` (the flags are stored in the shared entry *before* the lock is held), then one
action per critical section, `UnlockReturn`/`UnlockAck` restore the flags from the entry. The
handler is `HandlerEnter`, `HandlerLock`, `HandlerMark` or `HandlerIgnore`, `HandlerWake`,
`HandlerUnlock`. With `SMP = FALSE` a handler runs to its end before a process goes on
and spinlocks exclude nobody. `count` and `got` are history.
`DevToggle` lets a device raise and drop its line at any time. On a multiprocessor
`free_irq` waits for a running handler while its caller holds the spinlock the handler wants
(`FreeSync`, `HandlerLock`): the two can wait for each other for ever. TLC reports no deadlock of the whole system,
in which devices go on, and no run states liveness with `SMP = TRUE`; it is listed as a hazard.

**IrqChannel.** What a caller is promised: per line, events that become pending, join a pending
one, and are taken once. `DhaIrq!ImplementsChannel` maps `handled`, `rcvd`, `count` and `got` to it.
`Pm3Dma` uses it for the helper.

**VidixLib.** One action per step of `vdlOpen` (`dlopen`, version and probe, capabilities, filling in
of the pointers, `vixInit`) and `vdlClose` for several streams in any interleaving. `driver` is the static state of
a shared object, which lives from the first `dlopen` to the last `dlclose`; `card` and `kept` are the card its `vixProbe` settled on
and what it remembered of it, both static variables.

**Probing.** The `vixProbe` of sixteen drivers as functions of a machine, which is a list of cards, with the bit that enables a card's
ports, the frame buffer and YUV devices ivtv looks for, and the registers SiS reads to find a second overlay; the chips of their tables, in groups
that are treated alike; what they remember; the type in `vixGetCapability`; the formats of `vixQueryFourcc` and those `vixConfigPlayback` takes.
VidixLib runs them for the drivers it loads.

**Pm3Dma.** `vixPlaybackCopyFrame` in its steps (`Setup`, `Sync`, `Start`, `Block`) against the
engine (`Complete`) and the handler (`Interrupt`). `owed` is history: transfers nobody awaited.
With `Careful` the program passes `BM_DMA_SYNC` or `BM_DMA_BLOCK` so that each transfer is awaited
once; without it, any flags. `hwirq_wait` has the semantics of `IrqChannel!Take`.

**DhaMem.** One action per round of the loops in `dhahelper_lock_mem`, `_unlock_mem` and
`_virt_to_bus`; `PageIn` gives up the big kernel lock, `Regain` takes it back. `Touch` and `Reclaim`
are the kernel's paging. The look-up of a page and the marking of its frame are two
steps with, on one processor, nothing between; `Smp = TRUE` lets paging come between them and no
run uses it, because marking without a lock on the page is then plainly not enough.

**Mach64Dma.** Extends DhaMem: `vixPlaybackCopyFrame` from `bm_lock_mem` to `bm_unlock_mem`, each of
which is the ioctl of DhaMem, with the engine and its interrupt. `CRTC_BUSMASTER_EOL_INT` is an
acknowledge bit by `mach64.h` (`CRTC_INT_ACKS`): it reads 1 after the end of a list and writing 1 clears it.

**LibDha, DriverLife.** A process is one record: its descriptors and the static variables of `libdha`;
a call of `libdha` maps it to the set of processes it may leave. A process runs on one of several `Worlds`:
`Works[w][c]` says whether a system call of kind `c` may succeed there, fail, or both, and `Uses[w]` which drivers
the program uses. A handler of a driver is a script, a sequence of such
calls in their order with what it does when one fails; register values are left out. `OpenDriver`, `Config`,
`Play`, `CopyFrame` and `CloseDriver` run scripts; `Search` is `vixProbe` of a driver that is not taken. A script is one step:
there is one thread, and nothing of another process matters to these variables.

**PlaybackLayout, Playback.** PlaybackLayout is, for thirteen drivers, the arithmetic of `vixConfigPlayback` on real memory
sizes, as functions of the movie, the number of frames asked for and, for the Matrox driver, the frame size passed in. One
card of each driver is meant: a G400, a SiS 300, a Savage3D or older S3, a Mach64 with planar formats, a Radeon with bus mastering.
Playback has what the program was told (`play`), the static `frames` table, which outlives a movie, and the addresses the card is given
(`shown`). A program writes a line at the width of the movie rounded up to `dest.pitch.y`, and chroma lines at that divided by
the subsampling: this is what `ProgramFits` takes as the reader of `vidix_playback_t`. The source
rectangle starts at 0, 0, movie sizes are multiples of the chroma
subsampling, playback is configured while it is off, and a window may start left of or
above the screen in the drivers that look at that (mga, nvidia, sis; in the others it is on it).
The table of the Mach64 driver, `mach64_buffer_base`, has `MACH64_BUFFERS` entries, 64 in the code, while `vixConfigPlayback` counts up to 1024 frames and fills the table for
all of them (`mach64_vid.c:63`, 1014, 1084): a movie of more frames than entries (`Overruns`) writes over the variables behind the table. From there (`shown = Wild`) the driver is not followed.

**Scaling, RadeonScaler.** The scale factors that `vixConfigPlayback`, or what it leads to, computes for the drivers that scale (not ivtv and radeonhd). An `Axis`
is one direction of a scaler in the terms of the card: for each of `out` pixels of the window it goes on by `inc`, of which
`one` make a source pixel, after the width of the register's field has cut it. From this `Playback` states, in `WindowFilled` and `MovieWhole`, what
all formulas are for: what the card steps through is what the movie has, and what it fetches of a line is a whole line. RadeonScaler is the part
of `radeon_vid.c` that is shared with rage128: the ladder of increments and steps by surface format, the ranges of pixels, the accumulators' start, the lines of each
plane and the coefficients of the filter. Ratios are exact there and of type `double` in the code.

**OverlayCards, Overlay.** OverlayCards has one operator per function of a driver that writes to the overlay: it takes the
card, and the driver's own memory where it reads that, to what it leaves of the card. A card is a record of what such a function decides: whether the
overlay is enabled (`lit`), whether buffers, format, window and scaling are those of the movie (`whole`), the comparison that lets the
video through (`cmp`) and its key, the settings of the equalizer and the deinterlacer. Overlay composes them to the calls of one of the drivers, one action per
call, and keeps what the program asked for last (`asked`, `wish`). A key has one component for three; a desktop
of 16 bits keeps the upper five bits of it, and what a driver programs is compared with what such a desktop holds. `"mach64_old"` is the
Mach64 driver on a card without colour adjustment, whose brightness is a gamma in the register of the enable bit.

**PciScan.** `Find` is one `DHAHELPER_PCI_FIND`; `Select` and `ReadVendor`/`ReadRest` are the two halves of an access
through 0xCF8/0xCFC, of which the second access stands for the reads of all other registers, which select the same
function again. `Via = "proc"` reads the files of `/proc/bus/pci` as the x86_64 build does. Machines are tables of
functions with their kind, secondary bus, base registers and one bit of the command register, which the helper does not tell.
The table of buses holds `MaxBuses`, 16 in the code, which appends to it without a test (`pci.c:275`, 616, 621): a scan that meets one more (`Overruns`) writes over what lies behind
the table, in the end over the counter of the loop it is in. From there (`"overrun"`) it is not followed.

**PciConfig.** Extends PciScan by programs that access a register of the functions they found: `SelectRegister` and `ReadRegister` or `WriteRegister`
through the register pair the scans use as well, `Ioctl` through the helper, where reading falls through to writing and to the error
of an unknown operation. `space` is the register of each function, `meant` the history of what programs wrote to it. `KernelPorts` lets
the kernel use the register pair itself, as it does for the helper's calls without a lock that programs could take: with it TLC finds `Faithful` violated,
and the run is made without.

## Runs

A run that is expected to pass finishes without an error; one that is expected to fail shows
where the code does not do what a comment or a document of the repository says. The latter are
listed under `findings` in `PROJECT.json` with the line that is quoted. Some properties hold only of programs, or
of machines, with a restriction that the constants of the run name; the last column says what happens without it.

| run | what it shows | what it assumes, and what happens otherwise |
|---|---|---|
| `dhairq_up` | one processor, with fairness: ioctls return, a pending interrupt is taken, a signal ends a wait, nobody sleeps with interrupts off, unloading is clean | one device per line: `FREE_IRQ` with another device of the line leaves a registration that `UnloadClean` does not allow |
| `dhairq_smp` | several processors, two devices on one line, faulting copies: the safety properties and the refinement of `IrqChannel` | - |
| `vidixlib` | streams on different drivers: handles balance, open streams are ready, a search passes nothing that would do, a driver has a card it knows and remembers that one, drivers are destroyed before they are unloaded | streams use different drivers: otherwise `vidixlib_shared`. The capabilities of a driver that was named are not compared, a named ATI driver may have any card of ATI, and NV12, which mga offers on a G200 and refuses to configure, is excepted |
| `vidixlib_shared` | violation: a second stream on a driver loses it when the first one closes | |
| `pm3dma` | with a careful program events and transfers stay in step, flags mean what they say, lists stay and calls return, also when a translation fails or the interrupt is refused | the program awaits each transfer once, by `BM_DMA_SYNC` or `BM_DMA_BLOCK`, and changes no list under way: otherwise waits are answered by the wrong event or never end, and lists are rewritten while they are read. When the interrupt is refused `vixInit` succeeds all the same: calls return, but the flags await nothing and lists are rewritten under way, so `FlagsHonoured`, `OwedOnce` and `ListStable` are stated for an installed interrupt. A program stops after `MaxTransfers`, so deadlock is not checked |
| `dhamem` | locked pages stay, failures undo what was done and no more, translations hold, ioctls return | buffers start on a page and share none: otherwise the last page of one is not locked, and the first unlock ends both locks of a page |
| `mach64dma` | for any flags: no lock is left behind, status 0 means that the engine rests, the table in use is not rewritten, buffers the program locked are read where they are | the source was locked by the program: one the driver locks is unlocked while it is read, and the table is never locked. That a call with `BM_DMA_SYNC` returns is not checked; it may wait for ever when the end of the list is acknowledged between its two looks |
| `playback` | sequences of movies, frames and keys, every even width, and scaling over formats, sizes, windows and modes of the screen | `ShownFollows` is about movies of which a frame fits (SiS and Unichrome otherwise show address 0 or an old frame), and on Mach64 about movies of no more frames than its table of 64 has entries (`Overruns`), until one with more was configured; nothing looks at how many there are. Lines and planes are not compared (`Coarse`) for Savage, S3 and SiS, which report a coarser alignment than they program, and for packed lines of Matrox of which the width is no multiple of 16, which `(sw + 8) & ~8` rounds to no alignment, for UYVY on Unichrome, which is laid out as a planar format, and for heights of YVU9 that are no multiple of 8 on ATI cards, whose drivers count `h / 8` lines for both planes, too few then; the frame selected is not compared (`Unfollowed`) for nVidia, whose `vixSetGrKeys` shows frame 0, and for frames 4 and up of Matrox, whose card holds four, and for planes of YVU9 on cyberblade that start between what its registers count; the frames of Matrox lie in the memory (`Foretold`) if the frame size passed in, by which it counts them before it computes its own, was large enough. Scaling is compared within what the registers can say (`InReach`), and not (`Misjudged`) for Radeon's
own filter on screens whose pixels are repeated, windows cut by sis, and lines cut at the top by mga for packed formats and by nvidia for widths that are no multiple of 32; packed lines of 1023 pixels and more
wrap the line buffer level of cyberblade (`LevelFits`) |
| `overlay` | keys, equalizer and deinterlacer set before, during and between movies, with restarts, and with the driver loaded again, on two desktops | movies are off when the driver is unloaded. Calls that are let off by name: restarts without a new `vixConfigPlayback` (`Lost`: mga and pm2 stay dark, s3 from then on, savage shows an eighth of the stride, unichrome has a small FIFO); `vixSetGrKeys` of nVidia after `vixPlaybackOff`, which lights the overlay (`Relights`); key requests that are not carried out as made (`Misread`: black on s3 and savage, any but white on a Radeon, whose mask is the key; components of which s3, savage and unichrome take the low bits; on a desktop of 16 bits black, and any colour without the highest bit of red, with nVidia, which sets that bit in the key, `nvidia_vid.c:606`; requests without a key on cyberblade); comparisons the source does not tell (`Unknown`: sis and pm3 at 16 bits, radeonhd). s3 forgets the equalizer in `vixConfigPlayback`, rage128 and old Mach64 cards in `vixPlaybackOn`, and nVidia takes new values over when it next starts the overlay (`Remembering`). s3, savage, sis, unichrome, nVidia and radeonhd do not put the desktop's key back in `vixDestroy` (`Savers`, `FullSavers`) |
| `driver_life` | drivers beside each other with the helper, with bus mastering, and one at a time without the helper, with failing mappings, and drivers that leave something behind | by world: `Several` are those on which drivers are used side by side, `Clean` those on which the drivers give everything back. Without the helper a second driver takes the ports from the first; mga, s3, savage, pm3 and radeon leave mappings or blocks, ivtv and radeonhd descriptors; the drivers not in `unmapped` do not look at their mappings |
| `pci_scan` | 75 machines of up to three buses, which is what the table of buses holds, and one of four: lists are complete, or full, a scan leaves its table only on the machine of four, entries are of their function, accesses to registers are of the function they name, scans end | a scan that has left its table is not followed further. One program uses the helper and one the ports. Two that use the helper share its cursor, two that use the ports the selected address. Functions of a card are numbered without a gap, there is one host bridge, and base registers 0 and 3 are of the same kind |
| `pci_scan_proc` | violation: on x86_64 the functions of a card are described by the registers of the first | |

## Bounds

Every bound is a constant of a cfg.

- DhaIrq: two processes, one line, one or two devices, `MaxCount = 2` interrupts per installation and
  `MaxReg = 1` registration per device. Two processes are enough for an owner and an outsider, or for two waiters;
  lines share nothing but the big kernel lock, which two processes on one line contend for as well. Two interrupts
  are needed for one to join another. `UnloadClean` needs one device per line: `exit_dhahelper` frees the device of the entry.
- VidixLib: two streams and nine drivers, all complete but one without optional functions, one that lacks an essential one, one of another version and one file that is
  no driver; nine machines: one or two cards, two of one driver or of two, a card whose ports are off, a scan that fails, and frame buffers with and without
  their YUV device.
- Pm3Dma: two slots, two sources, three transfers: one running, one awaited, one that reuses a slot.
- DhaMem, Mach64Dma: pages of four bytes, buffers of up to two pages, three or four frames, so that frames are
  reused and paging has to wait for one.
- LibDha: `Width = 8` counter values in place of 2^32; `MaxLive` mappings of a kind; 64 descriptor lists are one
  block; a program leaves `Reserve` descriptors to the drivers, enough for those under study.
- Playback: real sizes, 8 MB of memory of which the screen takes 5; `MaxFrames = 5` stands for 1024 frames where a table is walked
  and for the 64 of Matrox, one more than its card holds; `MACH64_BUFFERS = 4` for the 64 entries of the table of Mach64, which movies of one, three and four frames do not fill or just fill and movies of five overrun. Movie sizes are picked so that a card
  holds fewer frames, as many, or more than that, and so that the ATI drivers, which put up with three frames or fewer above the
  screen, place them over it as well. Widths go up to 1536, the last stride the texture unit of the Permedia2
  has before they get sparse. Scaling is looked at for six formats, widths from 32 to 1920 and heights from 32 to 1080, windows smaller, larger and of odd sizes, and screens that repeat
  pixels or lines, interlace or stretch, one movie at a time.
- Overlay: every driver, desktops of 16 and 32 bits, four colours: black, white, a light one, and a dark one of which 16 bits keep one bit; two values of
  two parts of the equalizer. Sequences of calls are not bounded.
- PciScan: two slots for 32, three functions for 8, a list of three entries, which some of the machines fill, a table of three buses for 16, which one machine overruns. Registers have two values, a program makes two accesses between
  scans, and only on machines of one bus.

## Fairness

- DhaIrq: a handler that has started goes on (`WF`): interrupts are off on its processor and it waits only
  for a spinlock. A process inside the kernel is scheduled again and again however often handlers and other
  holders of the big kernel lock come between (`SF`), as the kernel's scheduler and the fairness of that lock give it. No fairness is assumed of
  programs or devices.
- Pm3Dma: the calling thread runs on, the card ends its transfer, its interrupt is delivered.
- DhaMem: a thread in the helper goes on; one that waits for the big kernel lock gets it (`SF`).
- PciScan: a program that scans or accesses a register goes on.
- The other modules state no liveness: VidixLib, Playback, Overlay and DriverLife are calls that run to their end, and a call of
  Mach64Dma may wait for ever.

## Proofs

TLAPS checks every theorem to its leaves, for every value of the constants that satisfies the assumptions named in the modules, and those in the last column. TLC checked
each inductive invariant, on the instance of its run, before it was proved.

| module | theorem | states | under |
|---|---|---|---|
| `DhaIrqProofs` | `TypeCorrect` | `TypeOK` | |
| | `WakeupCorrect` | `NoLostWakeup` | |
| | `AccountingCorrect` | `PendingAccounted` | |
| | `EnabledCorrect` | `NoSleepWithIrqsOff` | |
| | `Refinement` | `ImplementsChannel` | |
| | `EntriesCorrect` | `EntryMatchesKernel` | |
| | `LocksCorrect` | `LockHasHolder` | |
| | `UnloadCorrect` | `UnloadClean` | each device has a line of its own, no copy to a caller faults (`Apart`) |
| `VidixLibProofs` | `CountCorrect` | `HandlesCounted` | |
| | `ReadyCorrect` | `OpenStreamReady` | no driver is opened twice (`~Sharing`) |
| | `SearchCorrect` | `NothingPassedOver` | |
| | `DestroyCorrect` | `DestroyBeforeUnload` | |
| | `CardCorrect` | `DriverFitsCard` | no driver is opened twice (`~Sharing`) |
| `Pm3DmaProofs` | `OwedCorrect`, `FlagsCorrect`, `ListCorrect` | `OwedOnce`, `FlagsHonoured`, `ListStable` | a careful program, no wait ended by a signal |
| `Mach64DmaProofs` | `LockedCorrect`, `LeakedCorrect`, `TranslationCorrect` | `LockedStay`, `NothingLeaked`, `TranslationHolds` of DhaMem | buffers start on pages and share none, one processor |
| | `BalanceCorrect` | `LocksBalanced` | the same |
| | `ListCorrect` | `ListHolds` | the same |
| | `StatusCorrect` | `FreeMeansIdle` | |
| `PlaybackProofs` | `FramesCorrect` | `FramesInside` | |
| | `FitsCorrect` | `ProgramFits` | |
| | `ShownCorrect` | `ShownFollows` | a movie of more frames than the table of Mach64 has entries is not followed (`Overruns`) |
| `OverlayProofs` | `OverlayCorrect` | `OverlayFollows` | |
| | `SettingsCorrect` | `SettingsFollow` | but for `Lost`, and the keys of `Misread` and `Unknown` |
| | `DeskCorrect` | `DeskBack` | |
| `DriverLifeProofs` | `Soundness`, `OwnFilesOnly` | `SoundInv`, and that only the program closes its own descriptors | the programs of `DriverLife`, see below |
| | `Lives`, `Holders` | `LifeInv`, `ResourcesHeld` | the same |
| | `Survivors`, `Unharmed` | `AppSurvives`, `AppUnharmed` | the same |
| | `GivenBack` | `NothingLeft` | the same, on the systems in `Clean` |
| `PciScanProofs` | `FaithfulCorrect` | `Faithful` | a scan is followed until it writes past its table of buses; one program uses the register pair, the kernel and `/proc` do not (`Undisturbed`); base registers 3 to 5 are of the type of 0 to 2 (`SameTypes`) |
| | `CompleteCorrect` | `Complete` | `Undisturbed`; one program scans through the helper and is not killed (`OneHelper`); on every machine each bus but bus 0 is behind one bridge, on a bus of a lower number, there is one host bridge, and the functions of a card have no gap, the first telling that there are more (`Trees`). The number of buses is not bounded: `Complete` itself says that a scan leaves its table only on a machine with more of them than that holds |

None of the properties is inductive by itself. What they need:

**DhaIrq.** `Inductive` and `Invariance` give the invariant `IInv` for any processes, lines, devices and bounds, on one processor or several. `NoLostWakeup` depends on the order in which
`dhahelper_ack_irq` goes to sleep state and reads `rcvd`, so `IInv` says what a process
that has read FALSE may still miss (`ReadInv`, `WakeInv`) and on which queues a sleeper is (`WaitInv`);
that reading, and the resets of `INSTALL_IRQ`, are safe only because one process at a time is in an ioctl: `BklInv`;
`PendingAccounted` needs that an installation under way still has the counters it reset: `SetupInv`;
`NoSleepWithIrqsOff` needs that whatever state passes through the shared flags field is that of a process with
interrupts on: `EnabledInv`; `CallInv` and `ModuleInv` tie a program counter to its call, and an unloaded module to no open descriptor.
The refinement maps every action to one of the channel or to a stutter, with `IInv`
where the channel's guards need it (`Activate` needs the reset counters). The proof has one lemma per action; each shows the conjuncts the
action can disturb.

**The entries of `dha_irqs`.** On top of `IInv`, `TableInv` follows an entry through a set-up: a call about a device is about its line (`LinkInv`), the entry under set-up is that of the device which is registered
before it counts as handled (`FillInv`), and the acknowledge address is that of no other device (`DevInv`). For unloading, `RegInv` says where the one registration of a device is known: in the entry of its
line, which `exit_dhahelper` still visits, or with the process that is about to put it there. Without the assumptions it is false: a copy to the caller that faults, and `FREE_IRQ` for
another device of a line, leave registrations that nobody knows of. `LocksCorrect` pairs every taken lock with the actor inside.

**VidixLib.** `IInv` ties what a stream points to to the step it is at (`PathInv`), says that a driver between `dlopen` and `vixInit` is in its stream's hands (`BusyInv`, `AloneInv`), and what a search has
looked at (`SearchInv`). `CardInv` says that from its probe on a driver keeps the card it settled on and what it remembered of it; another stream could probe it for another card, so this is without sharing.
That card and memory belong together is a lemma on `vixProbe`, driver by driver (`ProbeFits`); SiS looks at every card and takes each one it knows over the one before, and a least counterexample shows that its loop ends with what it remembers of the last (`SisTakes`).

**Pm3Dma.** A transfer nobody awaited is known to exactly one of engine, interrupt flag and helper (`CountInv`), a call knows which it waits for (`CallInv`), and the list it built is the one that runs (`BuiltInv`).

**DhaMem, Mach64Dma.** `OwnInv` gives each frame to at most one buffer; `MarkInv` and `AccountInv` count what loops and roll-backs in progress have marked; `BusInv` says that an address that was looked up is still
right. Mach64Dma uses the same invariant as its own, with `AskInv` and `HeldInv` for the driver's side of a call, and `EngineInv`, which relates status bit, interrupt and engine and
has no assumptions. For `ListHolds`, `ListInv` follows a table through the calls: what was looked up so far of a source the program locked is right (`LookInv`), so is every filled table, whoever uses it later (`FillInv`),
and the engine rests from its reset until it is started (`RestInv`), which is the only time a table is written.

**Playback.** There are four lemmas for each driver's layout: the frames it counts fit the room behind the screen; a line rounded up to the alignment it reports is as long as the pitch it programs; the planes, as the program writes
them, lie in a frame beside each other; and frames and planes start at multiples of what the registers count in, where a driver that rounds one of these quantities relies on another being a multiple already.
Of a configured movie `LaidOut` keeps what the lemmas give, and `SizeKnown` the frame size that was told to the Matrox driver.
`ShownFollows` needs the tables and variables that calls for different movies leave behind. `TableInv`: entries of a table are this movie's as far as it has frames, and stale behind them. `ToldInv`: the address the card reads from is one
of this movie, for the drivers that point the card there in `vixConfigPlayback` from then on, for those that do in `vixPlaybackOn` (`Late`) only while the overlay is on. `FirstInv`: where selections of a movie of one frame are ignored,
the overlay has stayed where it started. `OnInv`: only a movie that is shown has a selection.

**Overlay.** `IInv` has a part for each driver, which says what it remembers between calls, in its memory or on the card, and when that is to be trusted.
The key is on the card from the request on with most drivers (mga, pm3, s3, savage, unichrome, mach64), from `vixConfigPlayback` with cyberblade and sis, whose memory holds it before, and from `vixPlaybackOn` with nVidia and the Radeons, which also clear it
and the deinterlacer in `vixConfigPlayback`. Whether the overlay is lit follows the phase (`Dimmed`), a flag in the driver's memory (mga, savage, pm3, of which two variables stand for one register), or stays as it was left (s3, pm2).
`DeskBack` needs that what was saved is the desktop's: from `vixInit` on (`DeskKey`, `DeskMode`), or, with mga, which saves with the first request, that until then the card still has it.
A request is compared with the card up to colours the depth of the desktop does not tell apart; that those painted with and those keyed on are the same is a lemma on rounding to the bits of the desktop. With nVidia the card has `NvidiaKey` of the request (`NvidiaInv`), which is the colour where `Misread` does not name it.

**LibDha, DriverLife.** These are for any number of descriptors, any counter width, any systems, and any of the thirteen drivers a program uses there, alone or beside others. The bottom layer says of each call of `libdha`
what it may leave, as a few outcomes (`OpenDo`, `EnableDo`, `OpenMemDo`, `BmOpenDo`, ...), of which one follows what it leaves alone of other drivers (`Left`). A handler is a script; its calls are run by a recursive function, and
`Unrolled` does induction on their number once, with the least-number principle of the library (`LeastMember`): what each call takes from `S[i - 1]` to `S[i]` holds in the last of these sets when the handler returns. After that
a driver's script is read only for what it asks in which order.
Three invariants build on each other. `SoundInv`: the variables of the library name descriptors it opened for that purpose (`memFd`, `ioFd`, `irqFd` are its own or nothing), `bmFd`, which `bm_close` does not reset, names
one while a driver is open that will close it, and the files of ivtv are ivtv's. From it, `OwnFilesOnly`. `LifeInv`: an open driver has what its handlers use, a closed one has no pointers, and if a program has ended, then because a mapping failed or
no descriptor was left. On the systems in `Clean` it adds the books of the library: `memLocks` is the number of mapped regions and `memFd` is open only while it is not 0, `ioCount` is 1 or 0 as the driver that needs the ports is open or
not, and each driver has once what its pointers say (`Account`). `ClearInv` adds that an interrupt, and the descriptor for bus mastering, belong to an open driver. Neither `ResourcesHeld` nor `NothingLeft` could do without `SoundInv`: a stale descriptor number
closed by one driver is by then another's.
The assumptions are about programs and systems, and each names a weakness of the code that the theorems leave out. `VersionAssumption`: a helper with another version makes `bm_open` close its descriptor and keep the number (`mmi.c:39`).
`MasterAssumption`: of the four drivers that close the one `bmFd` only one is in use at a time. `ServesAssumption`: mappings, memory and the privilege for ports are granted, but for the three drivers that look at what `map_phys_mem` returned
(where one failed, `vixDestroy` of mach64 ends the program: `DoomedRun`). `BesideAssumption`: the privilege level has no count of its users, so drivers with ports have others beside them only on the systems in `Clean`; `CleanAssumption` says which: of the
eight drivers that give back what they obtain, with a helper that is there or not, one of them with ports, without the helper none beside it, and three descriptors to spare so that `pci_scan` of another driver's probe finds the helper and does not touch the ports. The instance of the run satisfies them all, and TLC
evaluates them there.

**PciScan and PciConfig.** `WalkInv` and `AccessInv` say, for each half of an access through the register pair, that the address is still the one that was selected: of the scan's place, or of the function
an access names. `ScanTyped` says what an entry may be: what the kernel told of a function, or what the program read of it, with the base registers as `BaseOf` computes them; that these are the addresses of `ResourceOf` needs `SameTypes`, and nothing else does. Any number of programs may scan through the helper meanwhile,
and any may be killed. Each assumption is needed: `PciScanProc.cfg` shows a violation through `/proc`, and TLC finds one with a second program on the ports or with `KernelPorts`.
For `Complete`, `CompleteInv` counts. A walk has met exactly the functions before its place, in the order of its table of buses (`Met`); the table has bus 0 and the buses behind the bridges met, each once (`Charted`);
the list names those that were met, each once, as long as there was room (`Listed`). At the end no bus is left: of those without an entry in the table the lowest would be behind a bridge that was met. A table that is full when a bridge is met
lists as many buses of the machine as it has entries, and the one behind that bridge is none of them (`Crowded`). What the kernel's cursor has
told is all that is up to it in the order of places, which is well-founded (`Asked`).

Only model-checked: liveness, which is outside what the prover can do; and `WindowFilled` and `MovieWhole`, of which the scale registers of each driver would have to be bounded through quotients of products.

## What is not modelled

- Register programming without a promise in the source to hold it against: fifo levels, television encoders, clocks, memory detection, the bridges of SiS, the conversion of equalizer values to registers, colour transforms.
- Saturation, hue and intensity (they are handled like brightness and contrast), the blanking of pm3, the frame buffer that ivtv hides, the
  second overlay of sis, the second set of addresses the ATI drivers write for deinterlacing.
- Transfers of the Radeon drivers. `vixPlaybackCopyFrame` writes its descriptor list through the physical address of the video memory taken for a pointer (`radeon_vid.c:3137`, 3454),
  and gives the card a bus address that is never assigned (49, 3490): the call cannot work, and no property of it could hold or fail for an interesting reason.
- The C++ interface. Each assignment frees the structures its references are bound to and assigns through them (`vidixlibxx.cpp:7-31`), which is undefined, and an object whose
  `vdlOpen` failed calls `vdlClose(NULL)` when it is destroyed.
- In vidixlib: the statically linked build, the argument after `:` in a driver's name, `normalize_fourcc` (318-336) and the calls that are only passed on.
- `MTRR`, read, write and mmap of the helper: one call into the kernel each, no state and no interleaving. Status registers, of which writing back what was read clears bits, in `PCI_CONFIG`.
- Systems other than Linux, the Windows helper, configuration mechanism 2, `genfb` behind its `vixProbe`, which always fails, test programs and tables.
- What a copy between program and helper does that sleeps. `INSTALL_IRQ` copies its answer out with a spinlock held (`dhahelper.c:673`), where a page that is not there makes it sleep and give up the big kernel lock; DhaIrq has the copy fail
  or succeed at once. `VIRT_TO_PHYS` and `VIRT_TO_BUS` copy each address in and out (467, 483, 532, 565), and end with an error where a copy fails; DhaMem has the copies succeed.
- In Scaling: how many times narrower a window is, which cyberblade writes above the fraction (`cyberblade_vid.c:530`), and savage to another register (`savage_vid.c:505-518`); what of the vertical increment of Mach64 is above its 16 bits and
  spills into the horizontal one (`mach64_vid.c:1023`), of which `InReach` says nothing.
- In DriverLife: `vixPlaybackOn` of savage after `vixPlaybackOff` enables the ports once more (`savage_vid.c:454`, 603). Savage is not among the drivers that give everything back.
- The value that nVidia's key has above the colour on desktops of 32 bits (`nvidia_vid.c:616`); Overlay takes it that a card compares the colour only.
- Memory ordering of processors: steps of a module take effect at once.

## Where documents and code disagree

Beside the two findings of `PROJECT.json`, the following came up while the modules were written. The properties leave these cases out by name, or the models contain them without a property of their own.

- `vidix/drivers/mga_vid.c:1497`: on a G200 `vixQueryFourcc` offers NV12, and `vixConfigPlayback` answers ENOTSUP.
- Most drivers report more frames than were asked for; `vidix.txt` says less or equal.
- `dhahelper.c:852`: `PCI_CONFIG` falls through from reading to writing to an error. No read through the helper succeeds, and each writes the register.
- A search that settles on a driver which lacks essential functions, or whose `vixInit` fails, ends there and tries no other. A C++ object made with the default name, the empty string, never searches, since
  that is not a null pointer (`vidixlib.c:235`).
- `nvidia_vid.c:606-608`: the key for a desktop of 16 bits has the highest bit of red set whatever was asked for, so that a request to key on black keys on a dark red.
- Two tables are filled without a look at their size: `mach64_buffer_base` (`mach64_vid.c:63`, 1014) and `_pcibuses` (`pci.c:275`, 616), and `mach64_dma_desc_base` of 64 (54) is read at indices up to 1023 (1303).
- Savage, S3 and SiS report an alignment coarser than the pitch they program; SiS reports offsets of a window that is cut to the program, which then writes elsewhere, and computes the level of its line buffer
  from a decimation it sets afterwards; Savage divides the pitch of the movie by eight again on each restart.
- Radeon's own filter ignores that the overlay makes one pixel of several, its last pixel wraps at a width of 2048, and a selection of frame number `num_frames` passes the test.
- nVidia starts a movie on the frame selected in the last one, and moves a window cut at the top by the width of the movie in place of the pitch; mga moves packed lines by half; one TNT2
  is listed with the GeForce FX (`nvidia_vid.c:101`).
- Chroma planes of YVU9 start at multiples of four bytes on cyberblade, whose registers count eight (`cyberblade_vid.c:413`, 579), and have `h / 8` lines both together in the frame sizes of the ATI drivers.
- Unichrome takes UYVY and lays it out with the lines of a plane, half as long (`unichrome_vid.c:660`).
- The line buffer level of cyberblade has nine bits, which packed lines of 1023 pixels wrap; no driver compares a window with the smallest it announces.
- SiS takes itself for probed when the probe failed and it was not asked to be verbose (`sis_vid.c:336`); ivtv keeps descriptors of a probe that failed.
- An `INSTALL_IRQ` whose answer cannot be copied out leaves a handler registered for an entry that is not handled.

## Plan

Done, in this order: DhaIrq with its abstraction and proofs, VidixLib, Pm3Dma over IrqChannel, DhaMem, Mach64Dma over DhaMem, Playback for
thirteen drivers, LibDha with DriverLife, PciScan, Overlay for thirteen drivers; then Probing under VidixLib, PciConfig over PciScan, Scaling and RadeonScaler under Playback, and the
theorems about DhaMem, Pm3Dma, Mach64Dma, VidixLib, PciConfig and the entries of `dha_irqs`; then those about Overlay, about layouts, frames and selections in Playback, about
the scans of PciScan and the cards of VidixLib; and those about DriverLife, with the calls of LibDha under them.

Next:

1. `WindowFilled` and `MovieWhole` for the drivers whose scale registers are single quotients.
2. The abstract overlay, in which settings are values that stay until they are changed, refined by Overlay for the drivers that remember them.
3. Source rectangles that start elsewhere than at 0, 0 in Playback, with what each driver adds for them to addresses and scale registers.
