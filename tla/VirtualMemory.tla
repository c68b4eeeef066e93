---------------------------- MODULE VirtualMemory ----------------------------
(***************************************************************************)
(* The virtual side of the memory manager: the VMA map of                  *)
(* crates/core/src/memory/virtual_memory.rs over the host mappings that    *)
(* address_space.rs makes with mmap, munmap and mprotect, and the kernel   *)
(* calls of memory_syscalls.rs and exports.rs.  Every caller holds a mutex *)
(* for the whole call, so a call is one step; the rest of the process (the *)
(* host's allocator, thread stacks, the graphics driver) maps memory       *)
(* between calls.                                                          *)
(*                                                                         *)
(* Addresses and sizes count host pages.  A VMA is its size, its type and  *)
(* its prot: the name and disallow_merge are stored and never read.        *)
(* Additions wrap at Word, as in a release build; a dev build panics where *)
(* one wraps and otherwise does the same.                                  *)
(***************************************************************************)
EXTENDS CommonTypes, FiniteSets, FiniteSetsExt

CONSTANTS
    PAGE_SIZE,        \* the guest page, in host pages
    UserBase,         \* where the reservation of the user space landed
    UserSize,         \* its length
    HostTop,          \* the end of the host's address space
    Sizes,            \* the sizes callers pass
    FixedAddrs,       \* the addresses callers pass to map with FIXED,
                      \* to munmap and to mprotect
    Prots,            \* the protections callers pass, sets of "R", "W", "X"
    FlexibleSize,     \* total_flexible_size
    MAX_GPU_ADDRESS,  \* the bound of is_valid_gpu_mapping
    GpuLimit          \* the 40-bit limit that bound stands for

ASSUME VirtualMemoryAssumption ==
    /\ PAGE_SIZE \in Nat \ {0}
    /\ UserBase \in Nat \ {0}
    /\ UserSize \in Nat \ {0}
    /\ HostTop \in Nat
    /\ UserBase + UserSize <= HostTop
    /\ HostTop + PAGE_SIZE < Word
    /\ Sizes \subseteq 0 .. Word - 1
    /\ FixedAddrs \subseteq 1 .. HostTop - 1
    /\ Prots \subseteq SUBSET {"R", "W", "X"}
    /\ FlexibleSize \in Nat
    /\ MAX_GPU_ADDRESS \in Nat
    /\ GpuLimit \in Nat

VARIABLES
    vma_map,   \* base -> [size, vma_type, prot]
    host,      \* what the host has at each page
    access,    \* the host's protection of each page
    ret,       \* what the last call returned
    touched    \* history: the pages the last call worked on

vars == <<vma_map, host, access, ret, touched>>

Pages == 0 .. HostTop - 1

UserPages == UserBase .. UserBase + UserSize - 1

Span(addr, size) == addr .. addr + size - 1

-----------------------------------------------------------------------------
(* The host calls of address_space.rs.  Each may fail for reasons of the   *)
(* host's own; an empty range or one past the address space always fails.  *)

ValidRange(addr, size) == size > 0 /\ addr + size <= HostTop

\* MAP_FIXED replaces whatever was there; the pages are readable and writable
\* whatever prot the guest asked for.
map(addr, size, executable) ==
    /\ ValidRange(addr, size)
    /\ host' = [p \in Pages |-> IF p \in Span(addr, size) THEN "guest" ELSE host[p]]
    /\ access' = [p \in Pages |->
                    IF p \in Span(addr, size)
                    THEN {"R", "W"} \cup (IF executable THEN {"X"} ELSE {})
                    ELSE access[p]]

\* The pages go back to the host, which may use them for anything.
unmap(addr, size) ==
    /\ ValidRange(addr, size)
    /\ host' = [p \in Pages |-> IF p \in Span(addr, size) THEN "none" ELSE host[p]]
    /\ access' = [p \in Pages |-> IF p \in Span(addr, size) THEN {} ELSE access[p]]

\* mprotect stops at the first page with nothing mapped, and has changed the
\* pages before it.
Protected(addr, size) ==
    {p \in Span(addr, size) : \A q \in addr .. p : q \in Pages /\ host[q] # "none"}

protect(addr, size, prot) ==
    access' = [p \in Pages |-> IF p \in Protected(addr, size) THEN prot ELSE access[p]]

-----------------------------------------------------------------------------
(* The VMA map. *)

Vma(size, vma_type, prot) == [size |-> size, vma_type |-> vma_type, prot |-> prot]

is_free(vma) == vma.vma_type = "Free"

AlignedBase(b) == align_up(b, PAGE_SIZE)

\* Mutant: the aligned base is checked against the size alone.
RegionFits_IgnoresAlignment(m, b, size) == size <= m[b].size

RegionFits(m, b, size) == Plus(AlignedBase(b), size) <= Plus(b, m[b].size)

\* The free VMAs in which find_free_region would place size pages; it takes the
\* first one in address order.
FreeRegions(m, size) ==
    {b \in DOMAIN m : is_free(m[b]) /\ RegionFits(m, b, size)}

find_free_region(m, size) == AlignedBase(Min(FreeRegions(m, size)))

\* Mutant: a VMA that contains the whole range is not seen as overlapping it.
overlaps_PartialOnly(m, b, addr, size) ==
    /\ addr < b + m[b].size /\ addr + size > b
    /\ ~(b < addr /\ addr + size < b + m[b].size)

overlaps(m, b, addr, size) == addr < b + m[b].size /\ addr + size > b

\* Mutant: the part of a VMA behind the carved range is dropped.
KeysAfter_Dropped(m, cut, stop) == {}

KeysAfter(m, cut, stop) == {e \in {stop} : \E b \in cut : b + m[b].size > stop}

\* Every VMA that overlaps the range is removed and its parts outside the range
\* are put back with its attributes.  VMAs are disjoint, so at most one has a
\* part before the range and at most one a part after it.
carve_vma(m, addr, size) ==
    LET stop   == addr + size
        cut    == {b \in DOMAIN m : overlaps(m, b, addr, size)}
        before == {b \in cut : b < addr}
        after  == KeysAfter(m, cut, stop)
        last   == CHOOSE b \in cut : b + m[b].size > stop
    IN  [b \in (DOMAIN m \ cut) \cup before \cup after |->
            IF b \in after THEN [m[last] EXCEPT !.size = last + m[last].size - stop]
            ELSE IF b \in before THEN [m[b] EXCEPT !.size = addr - b]
            ELSE m[b]]

insert(m, addr, vma) ==
    [b \in DOMAIN m \cup {addr} |-> IF b = addr THEN vma ELSE m[b]]

-----------------------------------------------------------------------------
(* The manager's operations. *)

Fails(code) ==
    /\ ret' = code
    /\ touched' = {}
    /\ UNCHANGED <<vma_map, host, access>>

\* Mutant: the VMA is recorded with the length the caller passed.
VmaSize_NotAligned(size) == size

VmaSize(size) == align_up(size, PAGE_SIZE)

\* addr is 0, or without FIXED: the manager picks the place.
Chooses(addr, fixed) == addr = 0 \/ ~fixed

MapAt(addr, size, prot, vma_type) ==
    /\ map(addr, align_up(size, PAGE_SIZE), "X" \in prot)
    /\ vma_map' = insert(carve_vma(vma_map, addr, align_up(size, PAGE_SIZE)), addr,
                         Vma(VmaSize(size), vma_type, prot))
    /\ touched' = Span(addr, align_up(size, PAGE_SIZE))
    /\ ret' = "OK"

map_memory(addr, size, prot, fixed, vma_type) ==
    LET aligned_size == align_up(size, PAGE_SIZE)
    IN  \/ /\ Chooses(addr, fixed)
           /\ FreeRegions(vma_map, aligned_size) # {}
           /\ MapAt(find_free_region(vma_map, aligned_size), size, prot, vma_type)
        \/ /\ ~Chooses(addr, fixed)
           /\ MapAt(addr, size, prot, vma_type)
        \/ Fails("ENOMEM")   \* no region found, or mmap failed

unmap_memory(addr, size) ==
    LET aligned_size == align_up(size, PAGE_SIZE)
    IN  \/ /\ unmap(addr, aligned_size)
           /\ vma_map' = insert(carve_vma(vma_map, addr, aligned_size), addr,
                                Vma(aligned_size, "Free", {}))
           /\ touched' = Span(addr, aligned_size)
           /\ ret' = "OK"
        \/ Fails("EINVAL")

\* The VMA map is not told.
protect_memory(addr, size, prot) ==
    /\ protect(addr, size, prot)
    /\ touched' = Span(addr, size)
    /\ ret' = IF Protected(addr, size) = Span(addr, size) THEN "OK" ELSE "ENOMEM"
    /\ UNCHANGED <<vma_map, host>>

is_valid_gpu_mapping(addr, size) == Plus(addr, size) < MAX_GPU_ADDRESS

sce_kernel_map_direct_memory(addr, len, prot, fixed) ==
    map_memory(addr, len, prot, fixed, "Direct")

sce_kernel_map_flexible_memory(addr, len, prot, fixed) ==
    map_memory(addr, len, prot, fixed, "Flexible")

sce_kernel_munmap(addr, len) == unmap_memory(addr, len)

\* malloc and operator new of exports.rs; 4096 bytes are a host page.  free gives
\* nothing back.
malloc(len) == map_memory(0, IF len = 0 THEN 1 ELSE len, {"R", "W"}, FALSE, "Flexible")

\* The guest's calls of exports.rs: the direct memory is mapped when it is allocated,
\* and mapping it or giving it back does nothing more.
sceKernelAllocateDirectMemory(len) == map_memory(0, len, {"R", "W"}, FALSE, "Direct")

\* The rest of the process maps a page the host has free.
HostMaps(p) ==
    /\ host[p] = "none"
    /\ host' = [host EXCEPT ![p] = "other"]
    /\ access' = [access EXCEPT ![p] = {"R", "W"}]
    /\ touched' = {}
    /\ UNCHANGED <<vma_map, ret>>

Init ==
    /\ vma_map = [b \in {UserBase} |-> Vma(UserSize, "Free", {})]
    /\ host = [p \in Pages |-> IF p \in UserPages THEN "reserved" ELSE "other"]
    /\ access = [p \in Pages |-> IF p \in UserPages THEN {} ELSE {"R", "W"}]
    /\ ret = "none"
    /\ touched = {}

Next ==
    \/ \E addr \in FixedAddrs \cup {0}, len \in Sizes, prot \in Prots, fixed \in BOOLEAN :
          \/ sce_kernel_map_direct_memory(addr, len, prot, fixed)
          \/ sce_kernel_map_flexible_memory(addr, len, prot, fixed)
    \/ \E addr \in FixedAddrs, len \in Sizes : sce_kernel_munmap(addr, len)
    \/ \E len \in Sizes : malloc(len) \/ sceKernelAllocateDirectMemory(len)
    \/ \E addr \in FixedAddrs, len \in Sizes \cap 1 .. HostTop, prot \in Prots :
          protect_memory(addr, len, prot)
    \/ \E p \in Pages : HostMaps(p)

Spec == Init /\ [][Next]_vars

-----------------------------------------------------------------------------
(* Properties. *)

Kinds == {"none", "reserved", "guest", "other"}

\* The type of the state.
TypeOK ==
    /\ DOMAIN vma_map \subseteq Pages
    /\ vma_map \in [DOMAIN vma_map ->
                       [size : Nat, vma_type : {"Free", "Direct", "Flexible"},
                        prot : SUBSET {"R", "W", "X"}]]
    /\ host \in [Pages -> Kinds]
    /\ access \in [Pages -> SUBSET {"R", "W", "X"}]
    /\ ret \in {"none", "OK", "ENOMEM", "EINVAL"}
    /\ touched \subseteq Nat

InVma(b, p) == b <= p /\ p < b + vma_map[b].size

\* The VMAs never overlap and none is empty: what carve_vma keeps when map and
\* munmap cut through several of them.
VmasDisjoint ==
    \A b, c \in DOMAIN vma_map :
        /\ vma_map[b].size > 0
        /\ b < c => b + vma_map[b].size <= c

\* Every page of the user space stays in some VMA, so find_free_region never
\* loses track of a page.
VmasCoverUser == \A p \in UserPages : \E b \in DOMAIN vma_map : InVma(b, p)

\* The state has its type, and the VMAs tile the user space however map_memory and
\* unmap_memory cut through them.
VmasTile == TypeOK /\ VmasDisjoint /\ VmasCoverUser

\* A page is backed by a mapping of the guest exactly when a VMA says it is
\* mapped, whichever calls failed on the way.
MappedIffBacked ==
    \A p \in Pages :
        host[p] = "guest" <=>
            \E b \in DOMAIN vma_map : InVma(b, p) /\ ~is_free(vma_map[b])

\* Where find_free_region would put a mapping of any size the host accepts,
\* there is only free user space, on a guest page boundary: the MAP_FIXED that
\* follows replaces nothing of the guest's.
PlacementIsFree ==
    \A size \in {align_up(n, PAGE_SIZE) : n \in Sizes} :
        LET addr == find_free_region(vma_map, size)
        IN  FreeRegions(vma_map, size) # {} /\ ValidRange(addr, size) =>
                /\ is_aligned(addr, PAGE_SIZE)
                /\ \A p \in Span(addr, size) :
                      p \in UserPages /\ host[p] # "guest"

\* What the VMA map says of a page.
Described(p) ==
    {<<vma_map[b].vma_type, vma_map[b].prot>> : b \in {c \in DOMAIN vma_map : InVma(c, p)}}

\* No call changes what the VMA map says of a page outside the range it worked
\* on: the parts carve_vma puts back keep their type and their protection.
NeighboursKept ==
    [][\A p \in Pages : p \notin touched' => Described(p)' = Described(p)]_vars

-----------------------------------------------------------------------------
(* What the code does not keep: README.md, "Divergences", says how.        *)

\* "The raw pointers in AddressSpace are to memory-mapped regions that persist
\* for the lifetime of the struct" (address_space.rs:33): the user space stays
\* the emulator's, so a placement chosen by the manager never replaces memory
\* of the rest of the process.
HostMemoryKept ==
    [][\A p \in Pages : host[p] = "other" => host'[p] = "other"]_vars

\* "No free virtual memory region of size {} found" (virtual_memory.rs:344):
\* the manager says so only if no aligned run of free pages is long enough.
NoRegionIsTrue ==
    \A size \in {align_up(n, PAGE_SIZE) : n \in Sizes} :
        FreeRegions(vma_map, size) = {} =>
            ~\E addr \in UserPages :
                /\ is_aligned(addr, PAGE_SIZE)
                /\ \A p \in Span(addr, size) :
                      \E b \in DOMAIN vma_map : InVma(b, p) /\ is_free(vma_map[b])

\* "Tracks virtual address space allocations, mapping state, and memory
\* protection." (virtual_memory.rs:3): the prot of a mapped VMA is the
\* protection its pages have.
ProtIsTracked ==
    \A b \in DOMAIN vma_map :
        ~is_free(vma_map[b]) =>
            \A p \in Span(b, vma_map[b].size) : access[p] = vma_map[b].prot

\* "Total flexible memory size." (virtual_memory.rs:144): the flexible mappings
\* never exceed it.
FlexibleWithinTotal ==
    Cardinality({p \in Pages : \E b \in DOMAIN vma_map :
                    InVma(b, p) /\ vma_map[b].vma_type = "Flexible"}) <= FlexibleSize

\* "Check if a GPU mapping is valid (within 40-bit address space)."
\* (virtual_memory.rs:323): every mapping below the 40-bit limit is valid.
GpuMappingsValid ==
    \A b \in DOMAIN vma_map :
        ~is_free(vma_map[b]) /\ b + vma_map[b].size < GpuLimit =>
            is_valid_gpu_mapping(b, vma_map[b].size)

=============================================================================
