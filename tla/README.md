# Blue OS: specification and verification

TLA+ models of the kernel in `src/blue_Os`, checked with TLC on small instances and, for the safety core, proved with TLAPS for every value of the constants. File names below are relative to `src/blue_Os/src` (headers: `src/blue_Os/include`).

## The system

Blue OS is a 32-bit kernel of one address space and one CPU. `kernelMain` (kernel.cpp:98) builds every object on its stack, activates the drivers, turns interrupts on, probes the disks, calls `interrupts.activate()` a second time and spins. All concurrency comes from interrupts: they break into `kernelMain` between any two instructions once `sti` has been executed, and run to the end with the interrupt flag clear. The build has no optimisation flag, so each access in the source is an access in the program.

| Component | State | Operations | Talks to |
|---|---|---|---|
| Interrupt manager (hardwarecommunication/interrupts.cpp, interruptstubs.s) | IDT, handler table, static `activeInterruptManager`, the two 8259s | constructor, `activate`, `deactivate`, stubs, `handleInterrupt`, `doHandleInterrupt`, `ignoreInterruptRequest` | calls the drivers and `schedule`; sends the EOIs |
| Kernel boot (kernel.cpp, loader.s) | its program counter | the sequence of `kernelMain` | everything |
| Task manager (multitasking.cpp) | table of tasks, `numTasks`, `currentTask`; per task a saved context and a remaining time | `addTask`, `schedule`, `fcfs`, `sjf`, `srtf`, `prioritySchedule` | called by the timer interrupt with the interrupted stack, returns the stack to resume |
| ATA driver (drivers/ata.cpp) | ports only; the state is in the drives | `identify`, `read28`, `write28`, `flush`, all polling | `kernelMain`; prints |
| Console (common/print.cpp) | static cursor `x`, `y`, video memory | `print` and the number printers | called by `kernelMain` and by interrupt handlers |
| Keyboard and mouse drivers (drivers/keyboard.cpp, mouse.cpp) | packet buffer and offset, pointer position, saved cell | `activate`, `handleInterrupt` | the one 8042 controller; console; video memory |
| Driver manager (drivers/driver.cpp) | array of drivers | `addDriver`, `activateAll` | the drivers |
| Heap (memory/memorymanagment.cpp) | list of chunks | `kmalloc`, `kfree`, `new`, `delete` | set up by `setup_memory`, which nobody calls |
| PCI (hardwarecommunication/pci.cpp) | none of its own | `selectDrivers` and register access | commented out in `kernelMain` |
| VGA (drivers/vga.cpp) | VGA registers, frame buffer | `SetMode`, `PutPixel`, `fillRectangle` | commented out in `kernelMain` |
| GUI (gui/widget.cpp, desktop.cpp) | tree of widgets, focus chain, pointer | mouse and key events, `draw` | not created by `kernelMain` |
| Multiboot information (memory/multiboot.cpp) | none | prints the memory map | not called |
| Descriptor table, ports, runtime (gdt.cpp, port.cpp, cpp_support.cpp) | written once | set-up, `in`/`out` | everybody |

### What is hard here, and what makes each part correct

* **Interrupts.** EOIs are non-specific, so they name no interrupt; correct is that each retires the one being handled, and that nothing is left in service, because whatever is masks its line and all lower ones. Three vectors have gates; all others reach a C++ function that returns with `ret`. `deactivate()` clears the pointer one instruction before `cli`.
* **Scheduling.** A context is a pointer into a stack. It must exist exactly once; saving it in the wrong task, or resuming it twice, shows many ticks later. `addTask` counts a task before it stores it.
* **ATA.** Poll loops have no timeout, and two loops share one sector, one counting bytes that may be odd. A word too few leaves the drive in its data phase, where the next command trips over it.
* **Console.** `print()` is not reentrant and is reentered: the cursor is static, its increments are a read and a write, and the loops that clear the screen use it as their loop variable.
* **8042.** One output buffer carries key codes, mouse bytes, acknowledgements and answers; nobody waits for what he asked for.
* **Mouse pointer.** The pointer is drawn into the text screen that `print()` writes. It saves the cell it covers and puts it back later, over whatever was printed meanwhile; `print()` stores colours it read before, perhaps in another cell, since it computes the address twice from a cursor that key presses move. Its coordinates are `int8_t`.
* **GUI.** A focus chain that must lead to the widget last clicked; clicks routed in one order, widgets painted in the other.
* **PCI.** Empty slots and devices of one function still answer; the scan must find every function, once, and not take its ports from a register that was never read.
* **VGA.** The first CRTC registers are locked by a bit in a register that is itself hidden, and 0x3C0 takes indices and data in turn, from whichever the BIOS left; rectangles are clipped with unsigned sums that wrap.

## Modules

| Module | Extends / uses | Content |
|---|---|---|
| `Interrupts` | | 8259 pair, gates and stubs, dispatch, boot sequence by instruction around `activate` |
| `Interrupts_proof` | `Interrupts` | inductive invariant and theorems |
| `TaskManager` | instance of `Rounds` | task table, saved contexts, the five schedulers |
| `Rounds` | | abstract specification: every admitted task gets one turn a round |
| `Policies` | `TaskManager` | the system with each of the other schedulers |
| `MCTaskManager`, `MCPolicies` | | bursts and priorities |
| `TaskManager_proof` | `Policies` | inductive invariants for round robin and for the other schedulers, refinement of `Rounds` |
| `Ata`, `MCAta` | | the driver's four operations against drives that take their time; scripts and populations of the channels |
| `Ata_proof` | `Ata` | arithmetic of the transfer loops, what each call leaves in the drives and does on an empty socket |
| `Console`, `MCConsole` | | `print` by single accesses, interrupted by key presses |
| `Console_proof` | `Console` | inductive invariant over the points of `print` |
| `Ps2`, `MCPs2` | | both drivers' `activate` and interrupts on the 8042 |
| `Ps2_proof` | `Ps2` | where the mouse's acknowledgement is, and how far packets are shifted |
| `Pointer`, `MCPointer` | | the mouse pointer and `print` in the cells of one text screen |
| `Pointer_proof` | `Pointer` | inductive invariant over saved cells and values read; arithmetic of an `int8_t` |
| `Pci` | | the walk of `selectDrivers` over what a machine answers |
| `Vga` | | programming a mode register by register, drawing rectangles |
| `Devices` | `Vga`, instance of `Pci` | a kernel with one of two commented-out calls compiled in |
| `MCDevices` | `Devices` | machines, a register table, rectangles |
| `Devices_proof` | `Devices` | the order of locks and registers, the clipping, the walk over the buses |
| `Widgets`, `MCWidgets` | | tree of widgets, routing of mouse and key events, focus, pointer, drawing order; three layouts |
| `Widgets_proof` | `Widgets` | recursion over the tree, focus chain, moves, routing against drawing |

In every module, definitions that no action uses make a deliberate slip (a dropped test, a step in the wrong place). Putting one in the place of the definition it imitates must break a property; PROJECT.json (`mutants`) pairs them. They show that each property depends on the code.

### How the models correspond to the code

PROJECT.json (`map`) gives the lines of each definition. In words:

* `Interrupts`: `pc` walks through `kernelMain`; `activate()` is split into its test, `deactivate()`'s store and `cli`, its own store and `sti`, since an interrupt between two of them behaves differently. `Accept` is the CPU's acceptance with the 8259's acknowledge cycle, `Service` the call through `handleInterrupt`, `EndOfInterrupt` its last lines, `Iret` the end of `int_bottom`. `IgnoreInterrupt` is the default gate: no EOI, IF left clear, and two words too many on the stack, so that the interrupted code may run wild (`crashed`) unless it is the final loop. `irr`, `isrM`, `isrS` are the request and in-service registers, external hardware as its initialisation words set it up. `missed` is a history variable. kernelMain adds no task, so the timer's `schedule()` changes nothing here.
* `TaskManager`: `cpustate[t]` names the thread whose register frame the pointer leads to, and `Dangling` means that `iret` has popped it. `addTask` is two steps, as in `tasks[numTasks++] = task`. A tick is one action because interrupts are off. The source has its `addTask` calls commented out; the model keeps them, as this is what the table is for.
* `Ata`: a status byte is the set of its bits; `DriveReady` is the drive finishing whatever it is at, well or badly. `Transfer` is one turn of one of the two data loops, for a signed count that nothing bounds in `read28()`; `Rounded` is C's `count + (count % 2)`, whose remainder has the sign of the count. What the words contain and the digits of the sector number are left out. `nIEN` and `intrq` follow the control register that `identify()` writes.
* `Console`: an action of `Kernel` is one access to `x`, `y` or video memory. The handler's print is character by character with `kernelMain` standing still. A character is `"\n"` or visible.
* `Ps2`: a byte is the set of its bits, so that `|= 1`, `&= ~0x10` and `| 2` are set operations on whatever byte was read. The controller moves one byte at a time into the empty output buffer, from any source that has one, and latches the request if the configuration byte allows it at that moment.
* `Pointer`: `Packet` is the whole of `handleInterrupt` for a third byte (put the saved cell back, move and clamp, save, draw), one action as no interrupt enters it. `kernelMain`'s statement at print.cpp:21 (and the alike one at line 36) is three actions: `Begin` comes to it with the cursor at some cell, `ReadColours` and `Store` each compute `80*y+x` again, as the unoptimised build does. Until a key press both addresses are that cell; once a key press has moved the static cursor in between (`moved`), either may be any cell. `Mixed` is the `|` with a signed `char`: a byte above 127 sets all bits of the attribute. `HandlerPrint` is not split, since nothing interrupts a handler. Where `print()` has its cursor is left to `Console`: any cell may be next; what is stored below the screen meets no cell and is `Console`'s, too. The history variables: `straddled` says that a packet came since the read, `bright` which cells a byte above 127 made white on white, `stained` which have colours of another place or time, `lost` which were printed under the pointer, `text` what was printed.
* `Pci`: `Answer` is the configuration space. A device of one function may answer for all eight, and a machine reads as ones or as zeroes where nothing is fitted. The loops of `selectDrivers()` are actions of one turn each. `Garbage` stands for what `getBaseAddressRegister()` returns uninitialised. Identifiers that are only printed are left out.
* `Vga`: `boot` are the registers as the BIOS left them. `WriteRegisters()` is one pair of port writes per step, and the adapter keeps or drops a byte by its lock, its access bit and the flip-flop at 0x3C0, external hardware as `vga.cpp` uses it. `Fill` is one turn of the loops of `fillRectangle()`. `memory` is the set of bytes stored.
* `Devices`: `kernel` chooses which of `selectDrivers` and `SetMode` is compiled in; the other driver stays as it was constructed. The two share no state, so a kernel with both shows nothing more. `MCDevices` gives the driver that is not compiled in one initial state instead of all of them, so that the run does not explore the same walk once for each state of the adapter.
* `Widgets`: one action per call from outside (`addChild`, a mouse-down, a mouse move). `Path` follows a click down the tree by first match, `Told` counts how often a leaf hears of a move, `KeyTarget` follows the focus chain, `Seen` is the last widget that `draw()` paints over a point. `Path`, `Told` and `Seen` are functions on the tree, as the methods call themselves on a child; a point is a pair, relative to the parent of the widget it is given to. The tree is complete or partial, since children arrive in any order. `clicked` and `motion` are history variables.

## Runs

| Run | Instance | What it shows |
|---|---|---|
| `irq` | lines 0, 1, 3, 11, 12, 14 | in-service bookkeeping, EOIs, what a missed or unclaimed interrupt costs, service of requests |
| `tasks_rr` | four tasks for three slots | round robin: contexts, unset slots, refinement of `Rounds`, no starvation |
| `tasks_policies` | four tasks, four schedulers, 4-bit counters | contexts kept by `sjf`, `srtf`, `prioritySchedule` and lost by `fcfs`; whom each favours for ever; the tick by which `srtf` is late |
| `ata` | kernelMain's calls and every pair of calls on one channel, counts negative and oversized too, any population | accesses to the data port; what a call leaves in the drives, and does where there is none; which calls end |
| `console` | 3 x 2 screen, texts that wrap and clear | cursor, stores and termination of `print` under key presses |
| `ps2` | one key, eight BIOS configurations | how far packets are shifted, and which byte blocks the buffer |
| `pointer` | 2 x 1 screen, blanks and a byte above 127, motions past what an `int8_t` holds | which cells can have wrong colours or an old character; where the pointer goes |
| `devices` | 512 machines for `Pci`; 3 x 2 screen and the source's mode table for `Vga` | every function found once; the mode is set from each setting of locks and flip-flop, but behind two locks; clipping |
| `widgets` | two windows, four leaves: side by side, overlapping, overlapping with one that sticks out | focus, moves, and what a click hits |
| `ps2_config` | the same as `ps2` | finding: the keyboard interrupt can be switched off |
| `ata_interrupts`, `ata_write` | machine of BlueOs.vbox; two disks | findings about `ata.cpp` |

What the properties say, by module:

* `Interrupts`. `ServiceAccounted`: the in-service registers hold exactly what still awaits an EOI. `EOIRetiresOwn`: a non-specific EOI retires the interrupt being handled. `MissedMasksLower`: after a miss, only strictly higher priorities are served. `ClaimedMissOnlyInWindow`: an interrupt with a gate loses its EOI only inside the second `activate()`. `DeafForGood`: an unclaimed interrupt ends all interrupts until an `activate()` still to come, so a drive's INTRQ during its own polling (ata.cpp:55) does until the second one, and any after that for good. `Responsive`: while nothing is missed, a request is served although the timer or any other line before it never ceases, provided only that again and again a handler returns with none of them waiting.
* `TaskManager`. `SlotsFilled`: no tick follows a counted but unset slot. `ContextsKept`: every context exists once, on the CPU or where its task says. `RefinesRounds`: the turns are those of `Rounds`. `EveryTaskRuns`: nobody starves.
* `Policies`. `PoliciesKeepContexts`: contexts exist once under all of them but `fcfs()`, which stores kernelMain's frame in the first task (multitasking.cpp:100) before that has run, and returns the same frame, so that the task's context is gone and kernelMain keeps the CPU; `SjfMonopoly`: the first choice is never replaced, as nothing counts `remainingTime` down; `SrtfOverruns`: `srtf()` takes the CPU away only from a task whose counter passes 0 at that tick, so one that is done keeps it for a tick longer (multitasking.cpp:149 compares without leaving 0 out) and then counts as the longest; `PriorityFirst`: the first of the smallest priority value runs, and nobody else.
* `Ata`. `WholeSector`: one data access per word of a sector or none, for counts up to a sector, odd or even, and exactly the stated surplus for a negative count or one above a sector, which `read28()` does not refuse. `SectorsWhole`, `CommandsToIdle`: unless the last command was a write, a call leaves no drive in a data phase. `AbsentDrive`: what a call has done on an empty socket when it returns; nothing keeps the answer of `identify()`, so that `read28()` beside a present drive, and `write28()` anywhere, move a whole sector that no drive offers or takes. `BootTerminates`: the calls end unless one flushes an empty channel, and if one does they never end (`flush()`, ata.cpp:230, has no other exit).
* `Console`. `CursorRests`: after `print()` the cursor is on the screen. `KernelStoresOnScreen`: `kernelMain`'s stores are, too, though the address is computed in two reads with interrupts between. The handler can meet the cursor past the end and spill; `TypeOK` bounds by how much. `PrintReturns`: the clearing loops end.
* `Ps2`. `PacketsAligned`: how far the driver's packets are from the mouse's, exactly: one byte for an acknowledgement that `activate()` missed (`late`, mouse.cpp:103) and one the other way for a mouse byte that a keyboard interrupt took (`stolen`, keyboard.cpp:96, possible once, with a request latched during activation), and nothing else. `InputFlows`: whatever configuration activation left, a byte leaves the buffer unless it is not the mouse's, the keyboard's interrupt is off and no request of it is left over (`Blocked`); then it stays for ever, and both devices are mute, as the mouse driver does not take it (mouse.cpp:61).
* `Pointer`. `ColoursAccounted`: a cell has the screen's colours, or the white on white of a byte above 127, unless it is under the pointer, or where the pointer began (the first packet puts back a cell that was never saved, black on black), or one where `print()` stored what it read in another cell or before a packet. `TextAccounted`: a cell shows the last character printed there unless the pointer was on it then. `PointerFollows`: the pointer goes where the mouse does, up to the edges; where its way leads past what an `int8_t` holds (from column 79, by 49 or more) it goes where the wrapped sum leads, at motions up to half a byte to the opposite edge.
* `Pci`. `FunctionsFound`: all functions, once, in order, and an ordinary device's ports are its own.
* `Vga`. `ModeSet`: from any contents of the registers at boot, locked or not, accessible or not, and any state of the flip-flop, all registers of the table are in place. The exception is exact: if the BIOS left the CRTC locked and the lock hidden, the two writes that should undo this (vga.cpp:47-50) are dropped, and the registers 0 to 7, 0x10 and 0x11 keep what they held, while `SetMode()` reports success. `RectangleClipped`: exactly the visible pixels are stored, in the window of the mode; but a rectangle that begins left of or above the screen and reaches it is not drawn at all.
* `Widgets`. `KeysFollowClicks`: keys go to the leaf clicked last. `MovesTold`: the leaf the pointer leaves and the one it enters are told once, none twice. `ClickHitsSeen`: where children lie inside their parents, a click goes to the widget painted there if and only if no two siblings on its way cover the point. Where they do, the first gets the click and the last is painted on top.

### Bounds

* `Lines` has the claimed lines, an unclaimed one on the master between them, and unclaimed ones on the slave above and below the mouse; every relation between two priorities occurs.
* Four tasks for `Capacity = 3` make the refusal of the fourth happen; `UintSize = 16` makes the counter of `srtf()` wrap within a few rounds. Bursts are those of `kernelMain` plus a task with none.
* `SectorBytes = 6`. kernelMain's count is 3, odd and mid-sector; other reads ask for -3, 3 and 7, writes for 3 and 8, so that a count is odd or even and below 0 or above a sector, and one sector number is the first that LBA28 cannot name. Two calls are enough, as a call meets only what the previous ones left in a drive, and the proofs have no such bound.
* A 3 x 2 screen is the smallest with an inner column, and a text of four characters wraps and reaches the clearing. Loop bounds only scale.
* `Depth = 1` limits what a device has waiting to two key bytes or one packet; it bounds the state space, not the interleaving, since the output buffer holds a single byte anyhow.
* `Pointer`: the properties of cells relate one cell to the pointer's and to the one colours come from, so there are two cells, the home and another. A blank and one byte above 127 are the two sorts of characters. With `ByteSize = 8`, `Motions` has steps within the `int8_t`, one of half a byte, which leaves it, and one of more, which comes out on the other side. In one row the vertical coordinate has nowhere to go; the proofs hold for every screen, byte and set of motions.
* `Pci`: two buses of two devices of three functions, four kinds of slot: empty, one function, one aliased function, a bridge at function 0 with a controller at function 2 and a gap between. The source scans eight buses; what is beyond is out of its reach and of the model's.
* `Vga`: the register table is the source's, and at boot the lock and the access bit are set or not, each by itself, with the other registers all zeroes or all ones: four settings of the locks, the locked and hidden one among them. `MCInit` keeps the boot index of 0x3C0 to 0 or 32, since of it only the bit that shows the picture has an effect. The proof has any contents. The screen is 3 x 2 and `WordSize = 32`, with beginnings one and two pixels left of the screen or above it. A behaviour draws one rectangle, as `fillRectangle()` keeps nothing between calls. `ArgumentAssumption` leaves out sums that carry a signed loop variable past its largest value, which C++ does not define.
* The desktop is 5 x 4 with `MaxChildren = 2` for three top-level widgets, so that `addChild` refuses one. Windows nest once, which makes coordinates relative twice. `Motions` has a move that reaches every border, one that a division by 4 truncates to nothing, and one step; `-3` would be a step to the left if the division rounded down.

### Fairness

* `Interrupts`: the CPU executes (weakly fair `Boot`, `Handler`). Acceptance of a line is strongly fair: the CPU looks for a request after every instruction, and `Accept` of a line is enabled only when no line before it waits, so an offer that recurs for ever at such an instant is taken, though other interrupts disable it in between. Devices need not raise anything, and may raise for ever.
* `TaskManager`: the PIT runs freely and every resumed frame has IF set, so ticks go on.
* `Ata`: the driver's code runs, and a drive that raised BSY lowers it.
* `Console`: the CPU executes. `PrintReturns` assumes in its own premise that the keyboard is silent from some time on: key presses for ever can keep the clearing loops going.
* `Ps2`: the CPU executes and takes latched requests. Nothing obliges the controller or a user.

## Findings

* `ps2_config`: `MouseDriver::activate()` (drivers/mouse.cpp:96) reads the data port at once. With the keyboard's acknowledgement 0xFA in the buffer it writes 0xFA back as configuration, in which the bit that keyboard.cpp:39 sets ("enable interrupt from keyboard") is 0.
* `ata_interrupts`: `identify()` writes 0 to the control register (drivers/ata.cpp:55), which enables the drive's interrupt; the comment says it disables it. Lines 14 and 15 have no gate, and `DeafForGood` says what follows.
* `ata_write`: `write28()` does not wait for DRQ, as ata.h:134 says.

## Proofs

A `*_proof` module has an inductive invariant (`IInv`; one more where a module holds two arguments), lemmas that it holds initially and that every step keeps it (one proof step per action), a theorem that it is invariant and, from it, the listed theorems. Assumptions are only those the modules state about their constants; TLC evaluates them in the runs. Every invariant that a passing run checks, and every action property, is stated by a theorem.

* `Interrupts_proof`, for any set of lines. `ServiceAccounted` alone is not inductive: to know what a non-specific EOI clears, one must know that the interrupt being handled precedes everything left open (`PriorityInv`), which in turn holds because it was offered above it. `QuietInv` and `ProgressInv` tie the flag, the pointer and the table to the position of `kernelMain`. Proved: `TypeCorrect`, `ServiceAccounting`, `MissOnlyInWindow`, `DriversAlwaysReady`, and the action properties `EOIRetires`, `MissMasks`, `Deaf`. (`DriversReady`, that a claimed interrupt finds its driver in the table, is only proved: it follows from the order of boot.)
* `TaskManager_proof`, for any tasks, capacity, bursts and counter width. `IInv` adds that the admitted slots hold distinct tasks, that nothing is admitted after interrupts are on, and where each context is. Proved: `TypeCorrect`, `SlotsAlwaysFilled`, `ContextsAreKept`, `CurrentIsRunning`, and `Refinement`: every step of `schedule()` is a `Grant` or a `NewRound` of `Rounds`. For the other schedulers, with any priorities too, `PInv` has a part for each. `fcfs()` needs its own account of the contexts, which says that the first task's frame is gone once a tick came (`FcfsInv`); the other three keep that of round robin. Nobody is shorter than the job `sjf()` chose but the empty ones (`SjfInv`), nobody has less left than the current task of `srtf()`, and the others have all of their time or have run past 0, where the unsigned counter is largest (`SrtfInv`); the first of the smallest priority stays the first (`PriorityInv`). That the scans for a minimum end at the *first* one is `LeastNatural`, from the well-foundedness of the naturals. Proved: `PoliciesKeepAllContexts`, `SjfKeepsItsFirst`, `SrtfPreemptsLate`, `PriorityRunsFirst`.
* `Ata_proof`, for any even sector size, any scripts, counts and populations. `IInv` adds that loop variable, words moved and phase of the call agree. Proved: `TypeCorrect`, `SectorsAreWhole`. On top of it, `DInv` says that what is no disk is never in a data phase (`KindInv`), that every drive a call does not talk to is idle or was last given a write (`OthersInv`), and what the selected one still owes at each point of a call (`PollInv`, `ReadInv`, `CallInv`). `AbsentInv` says for every point of a call on an empty socket how many words have been moved; `LoopsEnd` adds up the two loops. Proved: `ReadsLeaveNothing`, `CommandsMeetIdle`, `AbsentDriveUnnoticed`.
* `Console_proof`, for any screen size and texts. `CursorInv` names the points of `print` where the cursor may be one past the last column or row; a key press leads back inside from all of them (`KeyCharacterLands`), and `RegisterInv` covers values read before a key press and used after it. Proved: `TypeCorrect`, `CursorAlwaysRests`, `KernelStaysOnScreen`.
* `Ps2_proof`, for any scan codes, BIOS configurations and depth. `PacketsAligned` speaks of the time after activation and is not inductive: `AckInv` says that while `activate()` waits, the acknowledgement is the head of the mouse's queue or the byte in the buffer, and `AlignedInv` that from then on every byte of the mouse but a late acknowledgement belongs to a packet, so that the driver's index and the mouse's differ by what was late and what was stolen. `StolenInv` bounds the latter: a keyboard request can meet a mouse byte only if it was latched before the interrupts were on. Proved: `TypeCorrect`, `PacketsStayAligned`.
* `Pointer_proof`, for any screen that an `int8_t` covers, any motions and bytes. `ReadColoursInv` says what the colours are that `print()` holds while packets and key presses come. `MovedArrives` is the arithmetic of the narrowed sum, from `NarrowExact` and `Wraps`. Proved: `TypeCorrect`, `ColoursAreAccounted`, `TextIsAccounted`, `PointerGoesAlong`.
* `Devices_proof`. The adapter, for any table that selects the graphics window, any contents of the registers, index and flip-flop at boot, screen, width of a word and rectangle: `LockInv` is the state of the lock and the access bit at each point of `WriteRegisters()`, closed for good if both were against it at boot (`SealHolds`) and open from the unlocking on otherwise (`OpenHolds`), `ProgressInv` which registers are in place; `DrawInv` says which rows and columns are stored when the loops stand at `X`, `Y`. Proved: `ModeIsSet`, `RectanglesAreClipped`. The walk, for any numbers of buses, devices and functions and any machine: `WalkInv` says that exactly what lies before the place of the walk has been reported, `ProbeInv` that the number of functions asked for is that of the device at hand, and `PortInv` that `portBase` is the port of the last I/O register read so far. Of a machine, `IsMachine` assumes what the PCI specification asks of one: a device has a function 0, says so if it has others, and no function has the vendors that an empty slot reads as. Without the second, the walk would stop at function 0 of a device that has more. A machine may have devices that answer for functions they do not have; `hasFunctions` keeps those out, and the run's mutant shows what happens without it. Proved: `FunctionsAreFound`, and `KernelDraws`, which carries the theorems about the adapter over to the composed kernel.
* `Widgets_proof`, for any tree of windows and leaves, any layout, any motions. `NestingAssumption` is all that is known of the tree: among any windows one has its parent elsewhere and one is the parent of none of them. The constructors justify it, as a widget is constructed with a parent that exists already. `Recursion` is the theorem that a recursive definition has a solution when each value depends on no more than the values at predecessors in a well-founded order; `PathDefined`, `ToldDefined`, `CornerDefined` and `SeenDefined` instantiate it, downwards or upwards, and an induction over the tree is an argument about a window that is last among those it fails for. `GuiInv` is the inductive invariant: a child is in the array of its parent only, and once (`TreeInv`), and a window focusses a child of its own (`FocusInv`), without which keys could leave the path of the last click. `GetFocus` then makes the focus chain the path (`KeysTakeTheWay`). `CountsRight` counts how often a leaf under any widget is told, and needs that no leaf is below two children (`Ancestors`, `NoCycle`, `Siblings`); `ShowsRight` says of any widget that what it shows and what a click finds are itself or below it, and the same unless two siblings on the way cover the point. At a window, the first child hit and the last one painted are one only if no other is there (`Crowd`); if they are two, nothing is below both. Proved: `TypesAreKept`, `KeysGoToTheClicked`, `MovesAreTold`, `ClicksHitTheSeen`.

Only model-checked: the liveness properties (`Responsive`, `EveryTaskRuns`, `BootTerminates`, `PrintReturns`, `InputFlows`). They hold under fairness, and their proofs need `ENABLED`, which the prover does not handle. What the three runs of the findings violate is false, and the run's counterexample is its proof.

## Not modelled, and why

* Heap: `setup_memory()` is never called, and the search loop of `kmalloc()` runs while `result` is not 0, which it is from the start; no allocation succeeds, so there is nothing to free or to merge, and the heap has one state.
* Multiboot information: prints the memory map once, a sum over a list; it changes no state and its call is commented out.
* Descriptor table, ports, C++ runtime: written once, single instructions, stubs.
* Driver manager: its array is written by `addDriver` before `activateAll`; only the order of activation is modelled, in `Ps2`.
* PCI: `write()` and `readByte()` have no caller, `getDriver()` returns 0.
* Tasks that print and are preempted there, sharing the cursor with each other: kernelMain adds no task.
* Buttons of the mouse, digits and wording of what is printed, colours of widgets: data that nothing reads back.
* The timing by which the 8042 or a drive could make a race impossible on a given machine: the models let hardware take any time.

## Left to do

1. `Kernel`: `Interrupts`, `TaskManager` and `Ata` composed, so that an INTRQ the driver leaves enabled meets the gate that does not exist, and a tick comes in mid-transfer. `DeafForGood` and `IdentifyDisablesInterrupts` say the two halves today.
2. `print()` entered by two tasks, once kernelMain adds some.
