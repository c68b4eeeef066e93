# TLA+ verification of anotherps4

anotherps4 runs PS4 executables natively: it loads and relocates them, replaces
the instructions that would enter the PS4 kernel by traps, jumps into the guest
code, and answers its calls from signal handlers (HLE). This directory models
the parts of it that keep state which several calls or several threads share,
checks them with TLC on small instances, and proves the safety properties with
TLAPS for every instance. Paths below are relative to `src/`.

## Inventory

| component | state | operations | talks to |
|---|---|---|---|
| direct memory pool `crates/core/src/memory/physical_memory.rs` | `BTreeMap` of areas (Free, Allocated) | `allocate`, `free`, inside them `carve_area`, `merge_adjacent` | `allocate` is called by `memory_syscalls.rs` through the memory manager and under its mutex; `free` has no caller yet, `sceKernelReleaseDirectMemory` only unmaps |
| virtual memory `memory/virtual_memory.rs`, `memory/address_space.rs` | `vma_map`, the host's mappings | `map_memory`, `unmap_memory`, `protect_memory`, `find_free_region`, `carve_vma` | `mmap`, `munmap`, `mprotect`; the syscalls, the loader and `scePthreadCreate` call it |
| trap dispatcher `hle/dispatcher.rs` | `THREAD_FS_MAP`, FS_BASE of each thread, `SIGSEGV_RECOVERY_COUNT` | `register_thread_fs`, `sigill_handler`, `sigsegv_handler` | runs every HLE call of `hle/exports.rs` inside a signal handler |
| thread start `hle/exports.rs:697-785`, end of `anotherps4-bin/src/main.rs` | host threads, their TCBs and stacks | `scePthreadCreate`, first jump | registers with the dispatcher, maps memory |
| stubs, symbols `hle/stubs.rs`, `hle/libraries.rs`, `loader/symbols.rs` | stub region and names, HLE symbol table | `allocate_stub`, `register_stub`, `resolve` | the linker asks, the dispatcher maps a trap back to a name |
| dynamic linker `linker/*.rs` | list of modules, TLS index | `load_module` (recursive), `Module::load`, `relocate_all` | ELF loader, memory manager, stubs |
| ELF and SELF loader `loader/elf.rs`, `linker/module.rs` | the file, its headers, dynamic entries and dynlib data; the memory of the module | `Elf::parse`, `resolve_file_offset`, `Module::load`, `parse_relocations` | reads files, maps memory, feeds the linker |
| code patches `linker/mod.rs:87-124`, `hle/dispatcher.rs:464-487` | the bytes of `eboot.bin` | assertion patch, `patch_syscalls` | ordered by `main.rs` around the relocations |
| GPU command processor `crates/gpu/src/` | `GPU_CONTEXT` (a mutex), registers, counters | `process_command_buffer`, `submit_done` | called from `sceGnmSubmitCommandBuffers` and others in signal handlers |
| Vulkan renderer `crates/gpu/src/renderer/vulkan.rs` | a fence, two semaphores, a swapchain | `present_blank_frame` | called by `submit_done` with `GPU_CONTEXT` held; waits for the device and the display |
| event queue `kernel/equeue.rs` | queue of pending events | `trigger_event`, `wait` | nothing yet: `sceKernelCreateEqueue` hands out numbers of its own |
| static guards `hle/exports.rs:173-199` | a byte in guest memory | `__cxa_guard_acquire`, `__cxa_guard_release` | guest threads |
| C streams `hle/exports.rs:20-41`, `84-111`, `397-545` | `OPEN_CFILES`, `NEXT_FILE_PTR`, `FS_MOUNTS` | `fopen`, `fread`, `fseek`, `ftell`, `fclose` | guest threads; files of the host |
| kernel filesystem `kernel/filesystem.rs` | mounts, descriptors, `next_fd` | `mount`, `open`, `close`, `read`, `write` | files of the host; no call of the guest reaches it yet |
| thread manager `kernel/threading.rs` | a counter and a list, each under a mutex | `create_thread`, `thread_count`, `sce_pthread_self` | likewise |
| PARAM.SFO reader `crates/formats/src/psf.rs` | the entries of one file | `Psf::parse` | `main` prints what it returns |
| kernel time, TLS manager, audio, input, shader, logging | see "Not modelled" | | |

What is hard to get right, and what correctness means for each:

* **Pool and VMAs**: long sequences of legal calls split and merge intervals.
  Intervals must tile their space, must agree with the host, no memory may be
  handed out twice or lost, and a call must change nothing outside its range,
  also when the host refuses it half way.
* **Dispatcher**: any instruction of a thread may trap or fault, threads start
  while others trap, handlers nest. Each side must run with its own FS_BASE,
  whoever writes the table of host FS_BASEs meanwhile; calls must return, the
  bound on recoveries must hold, and a recovery must leave RIP, RSP and RBP to one
  and the same caller.
* **Linker**: cyclic dependencies, modules of one name in two directories,
  failed loads; every import must end in the stub of its own function.
* **Loader**: a SELF stores the segments of its ELF in another order and at other
  places, some headers have no segment of their own, and files end too soon. What
  reaches memory, the relocations and the list of needed modules must be those
  of the ELF inside.
* **GPU**: packets cut short, bodies that look like packets, threads that
  submit at the same time; frames dropped after a resize, and a display that
  lags, while a thread holds the GPU's mutex.
* **Kernel objects, streams and guards**: state that is read, let go of, and used
  later; identifiers that must not be used twice; reads that end inside an item.

`PROJECT.json` lists these hazards line by line.

## Modules

| module | models | state and actions |
|---|---|---|
| `CommonTypes` | `common/src/types.rs` | `align_up`, `is_aligned`, and addition that wraps at `Word` |
| `DirectMemory` | abstract: what the direct-memory calls promise | `live`: regions held; `Allocate`, `Release` |
| `PhysicalMemory` | the pool | `areas` is the `BTreeMap` (base to area); `live` is history. The two actions are the whole calls: the scan, the carve, the merge loop with the panic it can raise, and the return value |
| `VirtualMemory` | VMAs over the host | `vma_map`, and for each host page what is mapped there (`host`) and how it may be accessed (`access`). One action per syscall, with each host call failing or not; `HostMaps` (external) is the rest of the process taking pages nobody has mapped |
| `TrapDispatcher` | handlers and thread start | `pc` names the place in the handler; one action per shared access, so the two words of a registration are two steps. `SegvNested` is a fault inside a handler: `Spec` excludes it, `NestedSpec` has it |
| `FrameWalk`, `MCTrap` | the recovery of `sigsegv_handler` on one stack | `mem`, `rip`, `rsp`, `rbp`; guest code calls, sets up frames and returns (external); `Fault` enters the handler, whose loop is `NextFrame` step by step (`depth`, `frame_rbp`), and `Unwind`, `Fallback` and `Dies` are its ways out. `frames` is what the calls really were. A stack is followed until a `Fallback`, after which RSP no longer belongs to RIP (see "Divergences"). `MCTrap` runs it next to `TrapDispatcher` |
| `Linker`, `MCLinker` | boot from stub registration to the last relocation | `stack` is the recursion of `load_module`; `image` and `wrote` are what relocations store; `target_addr` is where the code stores, `Slot` where the word is that the relocation is for. `MCLinker` builds the disks |
| `ElfLoader` | `Elf::parse` and `Module::load` | `file` is read in steps: headers, dynamic entries, dynlib data, memory, segments, relocations. A file also records what it was made from, which the reader never looks at and the properties compare with |
| `CodePatch` (extends `ElfLoader`) | the two scans of `eboot.bin` and the stores between them | continues on `image`, one action per turn of a loop; the relocations are the ones that were parsed |
| `Psf` | `Psf::parse` | header, index and entries, byte by byte behind the index |
| `MCEboot` (extends `CodePatch` and `Psf`) | | builds the files for the three modules above, and has TLC check that they are sound (`Sound`, `TablesSound`, `Made`): the hypotheses of the proofs |
| `Renderer` | `present_blank_frame` | the fence, the semaphores and the swapchain; `Execute`, `Show` and `Resize` (external) are the device, the display and the window |
| `CommandProcessor` (extends `Renderer`), `MCCommandProcessor` | submission, the packet loop, and presents with the mutex held | `GPU_CONTEXT` is the mutex; `Packet` is a turn of the loop; a word is the three fields the header parser reads |
| `EventQueue` | one queue | `wait` is one step, or two with the sleep between them; `Tick` (external) is time, and a sleep ends no sooner than `min(timeout, 16 ms)` after it began |
| `FileSystem` | mounts and descriptors | one action per call; the order a `HashMap` is iterated in is any, and a new key may change it. `handles` is history |
| `ThreadManager` | `create_thread` | two steps, one for each mutex |
| `MCKernel` (extends the three above) | the kernel objects side by side | |
| `CFiles`, `MCCFiles` | C streams and the mounts | `OPEN_CFILES` and `NEXT_FILE_PTR`; every call is one step under the lock of the table, `fopen` is two: `FopenTake`, `FopenInsert`. `BytesRead` and `Seekable` say what `read` and `lseek` do |
| `CxaGuard` | guards | the load and the store of the guard are two steps |

The theorems are in `PhysicalMemory_proofs`, `VirtualMemory_proofs`,
`TrapDispatcher_proofs`, `Linker_proofs`, `Eboot_proofs` (`ElfLoader`, `CodePatch`
and `Psf`), `CommandProcessor_proofs`, `Kernel_proofs` (`EventQueue`, `FileSystem` and
`ThreadManager`) and `CFiles_proofs`. A definition whose name ends in `_Something` after the name of another
is a mutant of it (a plausible bug); with the mutant in its place the property
that `PROJECT.json` pairs it with is violated.

Deliberate abstractions: addresses are small integers, with the machine's word
replaced by `Word` where a wrap matters; memory contents, registers, names of
VMAs, log messages and the four sets of GPU registers that are only logged are
left out; in `TrapDispatcher` whether the unwinder of `sigsegv_handler` finds a
frame is a free choice (`FrameWalk` computes it), and so are whether the
host grants a mapping, whether a module's file can be parsed and whether a spawn
succeeds. `ElfLoader` counts a header, a table entry, a character and a byte of
code as one word each, and takes two rules of the format for granted that the code
does not check: a segment has no more bytes in the file than in memory, and the
program headers are right behind the ELF header.

Four MC modules put parts side by side that do not interact, or not within one
instance: a variable `side`, chosen in the initial state, says which of them a
behaviour follows, so that their states add up instead of multiplying. `MCTrap`
has the threads or a stack, `MCKernel` one of the kernel objects, `MCEboot` a
boot or a PARAM.SFO, `MCCommandProcessor` all the buffers without a renderer or
frames with few buffers.

### Refinement

`DirectMemory` says what the direct memory calls promise: regions are handed out
apart from all held, and giving back takes away whole regions only.
`PhysicalMemory` instantiates it (`DM`) with its history of regions held;
`RefinesDirectMemory` is checked by the run `pool` and proved as `Refinement`.

## Runs

| run | shows | bounds, and why they are enough |
|---|---|---|
| `pool` | `AreasTile`: areas disjoint and covering; `LiveAccounted`: live regions backed and apart, no leak; `LowestFit`: the answer of the area scan is the lowest aligned run of free *bytes*; `PhysicalMemory` implements `DirectMemory`. `free` is called with any arguments | pool of 10 in pages of 2: up to five areas, so both sides of a carve and chains of merges occur; word 32, lengths 0, unaligned, ordinary and one that overflows |
| `pool_panic` (violation) | `merge_adjacent` panics | the same |
| `vma` | `VmasTile`: VMAs disjoint and covering, a page is mapped exactly when a VMA says so, placement only on free pages, `NeighboursKept`: a call changes nothing outside its range | user space of 6 pages inside 8, guest page of 2 host pages, one address that is aligned and one that is not, sizes 0, sub-page, ordinary, wrapping: mappings straddle, contain and touch VMAs |
| `trap` | guest code has its FS_BASE; `OwnHostTls`: a thread whose entry in `THREAD_FS_MAP` is whole runs Rust code with its own host TLS, whoever writes the table between its search and its load, and the main thread never loses its entry; recoveries bounded, calls return; `ResumesACaller`: a recovery along the frames is the return of one of the active calls | three threads for two slots: two registrations race, and one thread stays without a slot; one recovery, so two faults race for the last number. Stack of 5 words, frames looked at 2 (16 in the code), two recoveries: chains longer than the handler looks, functions without a frame between others, a second recovery after a first |
| `trap_race` (violation) | a registration is lost or torn | three threads, three slots |
| `trap_deadlock` (violation) | a recovered fault leaves both locks held | two threads, nested faults, fairness |
| `link` | every module loaded once, none skipped, TLS indices dense, imports dispatch, boot ends | all dependency lists over three names for three layouts of two directories (1728 disks), and 1000 disks of relocations of every type, half of them with an executable whose LOAD segments begin above 0, so that its stores go astray, one into the other module; four stubs, so that the region runs out on some of them |
| `gpu` | packets met only where they begin, buffers atomic, submissions return; `PresentsReturn`: so do presents, also when all images wait to be shown and after a resize; `AcquireSemaphoreFree`: no image is acquired on a semaphore in use | all buffers of up to three words from seven kinds of word, against a thread submitting lists of two to four buffers (four are refused); one call each: a list takes the mutex several times. Four frames by two threads, two images: the swapchain runs empty, and frames follow a dropped one |
| `kernel` | each event delivered once and in order; `PickedUpInTime`: no thread sleeps over a pending event for longer than the 16 ms cap; `DescriptorsKept`: a descriptor is that of one file, at the byte its reads have come to, and of none after `close`; `HandlesUnique`: threads created at once have handles of their own | three threads, four events, `max_events` of 0, 1, 2: a remainder stays in the queue, and two sleepers wake for one event; four ticks, timeouts below and above the cap of two: sleeps overlap and end late; three opens, a mount below another, a device, reads that end inside the file; three creators, five threads |
| `eboot` | `ImageFaithful`, `DynamicFaithful`, `TablesUnderstood`: memory, dynamic entries, relocations and needed modules are those of the ELF inside; no assertion trap and no SYSCALL survives; `SfoFaithful` | three layouts (PT_DYNAMIC at the end of a LOAD segment, at the start of one, in none), as an ELF and as a SELF with the segments in every order, cut after every word; images of up to three pieces, whole and partial patterns, one pointer stored anywhere; SFOs with all formats, cut after every byte |
| `files` | a `FILE*` names one stream for ever, positions valid, bytes passed over only in an item cut off by the end, a short count means the end | two threads, three streams (two being opened next to an open or a closed one), a file of three bytes and an empty one; items of two bytes end inside the file and one product overflows |
| `guard_early` (violation) | a variable is used before it is initialized | two threads, one guard |

Deadlock checking is off where the system may rest: a bound has been reached,
boot is over, the process has panicked or stopped, or nothing makes the guest
call. It is on for `kernel`.

### Fairness

* `TrapDispatcher`: weak fairness of the steps of a start and of a handler, since
  the kernel schedules every thread; strong fairness of the steps that take a
  lock, since a `parking_lot` mutex hands the lock over now and then. None for
  traps and faults: nothing makes the guest call.
* `Linker`: weak fairness of `Next`; boot is one thread that nothing blocks.
* `CommandProcessor`: weak fairness of the loop; strong fairness of taking the
  mutex, which is free during the 16 ms pause that ends every submission; weak
  fairness of the device and the display, which work off what was submitted and
  presented (what Vulkan guarantees). None for the calls and the resize.

## Proofs

Every safety property that a run checks is also a theorem, for arbitrary constants
under the named `ASSUME`s, which TLC evaluates on the instances of the runs; only
liveness is left to TLC. Where a theorem has a hypothesis of its own, in
`ASSUME ... PROVE`, the instance of the run satisfies it. Without it the code does what
"Divergences" says; only of files that keep to no format (`SoundFiles`, `SoundTables`,
`MadeSfos`) nothing is said.

* **`PhysicalMemory_proofs`** (`TypeCorrect`, `PoolTiled`, `RegionsSafe`,
  `Refinement`, `ScanAlwaysLowest`), for builds with overflow checks: any pool and
  page size, any requests. The inductive invariant `IInv` joins the type,
  `AreasDisjoint`, `AreasCover`, `LiveBacked`, `NoLeak`, `LiveDisjoint` and that
  regions are not empty. None of these is inductive alone: that a new region is
  apart from the others follows from their being backed by Allocated areas while
  the new one is cut out of a Free one, and that a freed area carries away exactly
  the bytes of the regions in it needs `NoLeak`. The argument goes through lemmas
  on one map at a time: `carve_area` turns an area into at most three that tile it
  (`CarveArea`, `SplitAreas`, `SplitGood`), one turn of the merge loop replaces
  two areas by their union (`MergePair`, `MergeGood`, `MergeBacks`).
  `Refinement` is step simulation under `IInv`: one `free` may return several
  regions whose areas have merged, and `NoLeak` with `LiveBacked` shows that the
  area freed is tiled by regions held, which is what `Release` allows.
  `ScanAlwaysLowest` (`LowestFit`) needs `ApartInv`, that no two free areas touch
  until a call has panicked: `merge_adjacent` merges one pair only, and goes on to
  panic unless it was the last (`MergeApart`). So a run of free bytes is in
  one area (`RunInOneArea`), the scan stops there at the latest (`FitIsSeen`), and
  `align_up` is the least multiple (`AlignUp`).
* **`VirtualMemory_proofs`**, any spaces, sizes, addresses and host failures.
  `VmasAlwaysTile`, `VmaMapIsTruthful` (`MappedIffBacked`) and `NeighboursAlwaysKept`
  share one invariant, that the VMAs are disjoint, cover the user space and agree
  with the host; what `carve_vma` and `insert` do to one map are lemmas.
  `PlacementNeverHitsGuest` says that a placement lies in free VMAs, in any case;
  that it also lies in the user space (`PlacementAlwaysFree`, `PlacementIsFree`)
  assumes `GuestStaysInUser`: `munmap` of a range outside leaves a free VMA there.
* **`TrapDispatcher_proofs`**, any number of threads, slots and recoveries.
  `TypeCorrect` (with nested faults) needs `TableInv`: a slot with a tid and no
  FS_BASE belongs to a thread about to store it, so no handler loads 0.
  `OwnTlsInRust` (`OwnHostTls`, with nested faults) rests on `OneSlot`: the words
  that name a thread are all in the one slot its index stays at, so an entry that is
  torn never becomes whole again, and a search that has found the tid loads from
  the slot the entry is in; `MainFirst` says that nobody else scans before the main
  thread has stored both words, and that nobody is about to store to slot 0 after
  that. `GuestContext` (`GuestFs`, without nested faults) rests on `SavesGuestFs`,
  and covers threads that lost their slot. `RecoveryLimit` (with nested faults) rests on counting: recoveries
  made, plus threads in the unwinder, never exceed the numbers handed out.
  `RecoveryResumesACaller` (`ResumesACaller`) and `GuestFramesReadable`
  (`NestedAtHost`) are about `FrameWalk`, for a stack and a walk of any size
  (`FrameWalkAssumption` only says that these are naturals). `WalkInv` ties the
  stack to the calls: these lie one below the other and above RSP (`OrderInv`); each
  has the return address of its caller in its slot and, with a frame, the RBP of its
  caller below it (`SavedInv`); that RBP is the frame of a call further out, or where
  the chain ends (`ChainInv`, `EndsInv`). `frame_rbp` is on the chain, so what the
  handler takes from it are the registers of one caller. None of these is inductive
  alone: a recovery cuts `frames` in the middle, past calls without a frame, and the
  stack must be in order for the calls that are left.
* **`Linker_proofs`**, any disks, names, stubs and relocations. `LinkInv` has three
  parts. `StubInv`: what the symbol table holds are stubs of the names it has.
  `LoadInv`: the type, `Unique`, `TlsIndicesDense`, and `NothingSkipped`, the invariant of the recursion: a
  dependency that is on disk is loaded, has failed, or is still ahead in a frame
  of `stack`. `RelocInv`: what was stored is where its relocation says, and an
  import that nothing overwrote has its stub. From it come `AlwaysLoadedOnce`,
  `DependenciesAlwaysLoaded`, `TlsIndicesAlwaysDense` and `ImportsAlwaysDispatch`,
  which is about the modules whose LOAD segments begin at 0, with others next to them.
* **`Eboot_proofs`**. `AssertionsTakenOut` and `SyscallsTakenOut` hold for any
  file, bytes and pointers: `ScanInv` says that no pattern begins before the offset,
  which a patch keeps although it may overlap the next one (`AssertionPatched`,
  `SyscallPatched`), and which the stores between the scans cannot break for
  SYSCALL. `ImageAlwaysFaithful` and `DynamicAlwaysFaithful` hold for `SoundFiles`,
  files that keep the words of each program header of the ELF inside in a segment
  of its own, in that of a header around it, or behind the headers, and whose LOAD
  segments are apart in memory; `ResolveFinds` shows that `resolve_file_offset`
  finds them in each case. `TablesAlwaysUnderstood` (`TablesUnderstood`) also needs
  `SoundTables`: the dynamic entries up to DT_NULL and the words of the dynlib data
  stand for the relocations and names the file was made with. The dynamic entries
  and the dynlib data that are read begin those of the ELF inside and are all of
  them if the file is whole (`EntriesAgree`, `LibRead`); so a tag that is found has the
  value it was given (`FirstTag`), an entry that is gone to is that of a relocation
  (`EntriesAre`, `EntryMade`), and the string read is its name or begins it
  (`TextRead`, `RelocationRead`). `TablesInv` carries this through the loop. The needed
  modules come out of a filter that is the same on both sides, so the proof compares
  what goes into it. `SfoAlwaysFaithful` holds for `MadeSfos`, files whose index
  entries stand for keys and values, cut off or not; `KeyEndFound` and
  `EntryParsed` say what one entry gives.
* **`CommandProcessor_proofs`**, any threads, buffers, registers and images.
  `TypesAlwaysHold` and `AcquireSemaphoreAlwaysFree` need mutual exclusion
  (`MutexHeld`), what each stage of a frame knows of the fence (`FenceInv`), and that
  images are conserved (`ImagesInv`). `AlwaysFramed` and `BufferAlwaysTakesEffect`
  assume `NoType0`; `PacketStarts` is a least set, and the loop stays in every set
  it is the least of, which replaces induction over the buffer.
* **`Kernel_proofs`**. `Delivery`: `ExactlyOnceInOrder` with the type is inductive;
  `PickedUp` (`PickedUpInTime`) needs `AfterSleep`: what is pending was triggered
  after every sleeping thread had gone to sleep, although others drain in between.
  `ConcatFacts` and `DrainFacts` say what taking the front of the queue does to the
  indices. `DescriptorsAlwaysKept` needs that descriptors are below `next_fd` and
  offsets inside their files; `HandlesAlwaysUnique` that a number a creator has
  taken and not yet stored is in no list and no other creator's (`IdsFresh`).
* **`CFiles_proofs`**, any threads, streams, files and arguments. `TypeCorrect` and
  `StreamIdentity` (`StreamsKept`) need `BelowCounter`: a `FILE*` taken or handed
  out is below the counter, so the one taken next is new although its stream is
  inserted later. `NoByteLost` and `ShortCountMeansEnd` (`AllReported`,
  `ShortMeansEnd`) assume `ReadsWhole`: checked multiplications and files that one
  `read` can return.

Induction over data is out of reach with an operator for the predicate; where a
proof needs a least number or induction over the naturals, it takes a set for the
predicate and uses `WFMin` (`MinOfNaturals`, `LeastOfNaturals`, `AllNaturals`).

Only model-checked: liveness (`CallsReturn`, `BootEnds`, `SubmissionsReturn`,
`PresentsReturn`), since fairness is out of the prover's reach. Every
other property of a passing run is stated by a theorem.

## Divergences

Four are runs with `expect: violation`, described under `findings` in
`PROJECT.json`: `merge_adjacent` panics on a removed key, the registration race,
the locks lost by a recovered fault, and guards set before the initializer ran.

Others are stated next to the properties of their module, under the heading
"What the code does not keep", and come out of the same models with the constants
given here:

| property | what the code does | constants that show it |
|---|---|---|
| `LiveFreeable` (`PhysicalMemory`) | two Allocated areas merge after a `free` elsewhere; the second region can no longer be freed (`physical_memory.rs:34-38`, `125`) | those of `pool_panic` |
| `LiveAccounted` in a release build | `aligned_base + size` wraps for a huge length and memory in use is handed out again (`physical_memory.rs:95`) | `OverflowChecks = FALSE` |
| `HostMemoryKept` (`VirtualMemory`) | `munmap` leaves a hole in the reservation; a later `MAP_FIXED` replaces what the process put there | those of `vma` |
| `NoRegionIsTrue` | free VMAs that touch are never merged, and each is looked at alone (`virtual_memory.rs:329`) | `Sizes = {2, 4, 6}`, `FixedAddrs = {2, 4, 6}` |
| `ProtIsTracked` | mappings are readable and writable whatever was asked, and `protect_memory` does not update the VMA | two members in `Prots` |
| `FlexibleWithinTotal` | nothing compares with `total_flexible_size` | `FlexibleSize = 4` |
| `GpuMappingsValid` | the 40-bit bound is written as 2^36, below the user space (`types.rs:19`) | those of `vma` |
| `HostTls` (`TrapDispatcher`) | `sigsegv_handler` runs Rust code with the guest's FS_BASE in a thread without a slot | `Slots = 1` |
| `GuestFs` under `NestedSpec` | a fault inside a handler is recovered from with the host's FS_BASE (`dispatcher.rs:348`) | those of `trap_deadlock` |
| `ModuleExportsResolve` (`Linker`) | imports that another module exports get a stub (`relocation.rs:17`) | those of `link` |
| `StoresHitTheirSlots` | segments are copied to `base + vaddr - min_addr` (`module.rs:123`), relocations go to `base + offset` (`relocation.rs:19`): where LOAD segments begin above 0, each store misses its word | those of `link` |
| `EmptyOnlyAtTimeout` (`EventQueue`) | a wait returns empty after 16 ms, however long its timeout (`equeue.rs:92`) | those of `kernel` |
| `Framed` with Type 0 headers | a Type 0 header is stepped over alone and its values are executed (`command_processor.rs:56`) | a buffer with one |
| `AllReported`, `ShortMeansEnd` (`CFiles`) in a release build | `size * count` wraps and a wrong number of bytes is read (`exports.rs:448`) | `OverflowChecks = FALSE` |
| the same for files longer than one `read` of the host returns | `fread` reads once and does not go on (`exports.rs:458`) | `ReadCap = 1` |
| `InitializedOnce` (`CxaGuard`) | two threads read the guard before either sets it | those of `guard_early` |
| `PointersKept` (`CodePatch`) | a stored pointer that holds 0F 05 is patched | `<<15, 5>>` in `Pointers` |
| `CutFilesTolerated` (`ElfLoader`) | dynlib data that is cut off is accepted, and slices of it that begin behind its end panic (`module.rs:238`, `246`, `230`) | those of `eboot` |
| `NothingMissing` | a LOAD segment the file does not hold is left out, and the load succeeds (`module.rs:127`) | those of `eboot` |
| `FallbackPops` (`FrameWalk`) | the fallback returns to the address at RSP with an RSP above the last frame walked (`dispatcher.rs:322`, `344`) | those of `trap` |
| `ToTheCaller` | a function that faults before it has set up its frame ends together with its caller, whose frame is the one RBP points to (`dispatcher.rs:304`) | those of `trap` |
| `WalkStaysInside` | in the main thread the chain leads to the stack of the host and from there to a register saved on it (`cpu/jump.rs:31`): the handler itself may fault | those of `trap` |
| `RenderFinishedFree` (`CommandProcessor`) | the fence says nothing about the display: `render_finished_semaphore` may be signaled again before the present that waits for it has run (`vulkan.rs:269`) | those of `gpu` |
| `CodesAsDocumented` (`FileSystem`) | -0x7FFE_0002 is 0x8001FFFE and not 0x80020002 (`kernel/mod.rs:26-37`) | those of `kernel` |
| `MostSpecific` | the first prefix in the order of a `HashMap` decides, whichever is longer (`filesystem.rs:56`) | those of `kernel` |
| `FilesWritable` | files are opened for reading only, so every write to one fails (`filesystem.rs:93`) | those of `kernel` |
| `SelvesDiffer` (`ThreadManager`) | the handle is the length of a text: threads whose numbers have as many digits share one (`threading.rs:129`) | those of `kernel` |

In addition: `patch_syscalls` is run on `eboot.bin` only (`main.rs:252`), so a
SYSCALL of another module stays; every TLS relocation is given module index 1
(`relocation.rs:73`, marked FIXME there); a register offset that passes 2^32
in the course of a packet aborts a debug build (`command_processor.rs:76`, a step of
`CommandProcessor`); and a spawn
that fails is ignored (`exports.rs:760`, a step of `TrapDispatcher`).

## Not modelled

* String, math, print, pad, video-out, user and save-data calls, and the packets
  `sceGnmDrawInitDefaultHardwareState350` writes: they compute or store constants and
  share no state.
* Setting Vulkan up and taking it down: a sequence of calls, without state of its
  own that a later call could find changed.
* `EventQueueManager`: its list only grows and is never read.
* Kernel time: reads of the host's clock.
* `TlsManager`, audio, input, shader: nothing uses them or they are placeholders.
* Logging, arguments and messages.

## Plan

1. Done: pool with its abstract specification and proofs; virtual memory;
   dispatcher and proofs; the frame walk; linker; loader and patches in one boot;
   PARAM.SFO; GPU front end with the renderer; event queue and proof; kernel
   filesystem and thread manager; C streams and proofs; guards.
2. Done: proofs of the safety properties of all of these.
3. Composition of `scePthreadCreate` with `VirtualMemory`: the TCB that stays
   mapped when the stack cannot be.
