--------------------------- MODULE PhysicalMemory ---------------------------
(***************************************************************************)
(* The direct-memory allocator of the emulator's memory manager,           *)
(* crates/core/src/memory/physical_memory.rs, behind the kernel call       *)
(* sce_kernel_allocate_direct_memory (crates/core/src/kernel/              *)
(* memory_syscalls.rs).  The manager sits behind one mutex, so each call   *)
(* is one step.                                                            *)
(*                                                                         *)
(* The BTreeMap of areas is a function from base address to area; its key  *)
(* order is the order of the addresses.  memory_type is the constant 0 in  *)
(* every area the code builds (allocate_direct_memory drops the argument), *)
(* so an area is its size and its dma_type.                                *)
(***************************************************************************)
EXTENDS CommonTypes, FiniteSets, FiniteSetsExt

CONSTANTS
    PAGE_SIZE,       \* the guest page, the least alignment of an area
    TotalSize,       \* size of the direct-memory pool
    OverflowChecks,  \* TRUE: a dev build, an overflowing + panics;
                     \* FALSE: a release build, it wraps
    SearchBounds,    \* the search_start and search_end callers pass
    Lens,            \* the len callers pass
    Alignments,      \* the alignment callers pass, powers of two or 0
    AnyFree          \* TRUE: free is called with any arguments;
                     \* FALSE: only with a region somebody holds

ASSUME PhysicalMemoryAssumption ==
    /\ PAGE_SIZE \in Nat \ {0}
    /\ TotalSize \in Nat \ {0}
    /\ TotalSize + TotalSize < Word
    /\ OverflowChecks \in BOOLEAN
    /\ SearchBounds \subseteq 0 .. Word - 1
    /\ Lens \subseteq 0 .. Word - 1
    /\ Alignments \subseteq 0 .. Word - 1
    /\ AnyFree \in BOOLEAN

VARIABLES
    areas,      \* areas: base -> [size, dma_type]
    panicked,   \* a Rust panic unwound out of the manager
    ret,        \* what the last call returned
    live        \* history: the regions handed out and not yet freed

vars == <<areas, panicked, ret, live>>

-----------------------------------------------------------------------------
\* a + b panics.
Overflows(a, b) == OverflowChecks /\ a + b >= Word

-----------------------------------------------------------------------------
(* The area map. *)

end(m, b) == Plus(b, m[b].size)

\* Mutant: the scan forgets to skip the areas that are not Free.
FreeBases_NoSkip(m) == DOMAIN m

FreeBases(m) == {b \in DOMAIN m : m[b].dma_type = "Free"}

NextKeys(m, b) == {c \in DOMAIN m : c > b}

\* memory_type is 0 everywhere, so only the dma_type is compared.
can_merge_with(m, b, c) ==
    /\ end(m, b) = c
    /\ m[b].dma_type = m[c].dma_type

\* Mutant: the part before the carved region is forgotten.
PartBefore_Lost(base, addr) == {}

\* Key of the part before the carved region, if there is one.
PartBefore(base, addr) == {b \in {base} : addr > base}

\* Mutant: an empty part is inserted when the region ends the area.
PartAfter_Empty(m, base, stop) == {e \in {stop} : stop <= end(m, base)}

\* Key of the part after the carved region, if there is one.
PartAfter(m, base, stop) == {e \in {stop} : stop < end(m, base)}

AfterSize(m, base, stop) == end(m, base) - stop

\* Replaces the area that contains addr by the part before it, the carved
\* region and the part after it, inserted in that order: a later insert
\* overwrites an earlier one under the same key.
carve_area(m, addr, size) ==
    LET containing == {b \in DOMAIN m : b <= addr /\ addr < end(m, b)}
    IN  IF containing = {} THEN m ELSE
        LET base   == Min(containing)
            before == PartBefore(base, addr)
            stop   == Plus(addr, size)
            after  == PartAfter(m, base, stop)
        IN  [b \in (DOMAIN m \ {base}) \cup before \cup {addr} \cup after |->
                IF b \in after THEN [m[base] EXCEPT !.size = AfterSize(m, base, stop)]
                ELSE IF b = addr THEN [m[base] EXCEPT !.size = size]
                ELSE IF b \in before THEN [m[base] EXCEPT !.size = addr - base]
                ELSE m[b]]

\* Keys whose area merges with the area of the next key.
MergeableKeys(m) ==
    {b \in DOMAIN m : NextKeys(m, b) # {} /\ can_merge_with(m, b, Min(NextKeys(m, b)))}

\* The area at b swallows the area of the next key.
MergeNext(m, b) ==
    LET next == Min(NextKeys(m, b))
    IN  [c \in DOMAIN m \ {next} |->
            IF c = b THEN [m[b] EXCEPT !.size = Plus(@, m[next].size)] ELSE m[c]]

\* Mutant: freeing never merges.
merge_adjacent_Never(m) == [areas |-> m, panics |-> FALSE]

\* The loop runs over a snapshot of the keys.  The first pair that merges
\* removes the second key of the pair; if the loop goes on, it indexes the map
\* with that key and panics.  It goes on unless the pair was the last one.
merge_adjacent(m) ==
    IF MergeableKeys(m) = {} THEN [areas |-> m, panics |-> FALSE] ELSE
    LET first == Min(MergeableKeys(m))
        next  == Min(NextKeys(m, first))
    IN  [areas |-> MergeNext(m, first), panics |-> NextKeys(m, next) # {}]

-----------------------------------------------------------------------------
(* allocate: the scan over the free areas, in address order. *)

Request == [start : SearchBounds, stop : SearchBounds, len : Lens, align : Alignments]

aligned_base(b, req) ==
    align_up(Larger(b, req.start), Larger(req.align, PAGE_SIZE))

AreaOverflows(b, req) ==
    \/ Overflows(Larger(b, req.start), Larger(req.align, PAGE_SIZE) - 1)
    \/ Overflows(aligned_base(b, req), req.len)

AreaFits(m, b, req) ==
    LET stop == Plus(aligned_base(b, req), req.len)
    IN  /\ aligned_base(b, req) >= b
        /\ stop <= end(m, b)
        /\ stop <= req.stop

\* The free areas at which the scan stops, by a match or by a panic.
ScanStops(m, req) ==
    {b \in FreeBases(m) : AreaOverflows(b, req) \/ AreaFits(m, b, req)}

ScanPanics(m, req) ==
    ScanStops(m, req) # {} /\ AreaOverflows(Min(ScanStops(m, req)), req)

ScanFinds(m, req) ==
    ScanStops(m, req) # {} /\ ~AreaOverflows(Min(ScanStops(m, req)), req)

ScanAddr(m, req) == aligned_base(Min(ScanStops(m, req)), req)

\* The map after the allocation: carved, and the carved area marked.
Allocated(m, req) ==
    LET addr   == ScanAddr(m, req)
        carved == carve_area(m, addr, req.len)
    IN  [b \in DOMAIN carved |->
            IF b = addr THEN [carved[b] EXCEPT !.dma_type = "Allocated"] ELSE carved[b]]

InvalidLength(len) == len = 0 \/ ~is_aligned(len, PAGE_SIZE)

-----------------------------------------------------------------------------
(* The calls. *)

sce_kernel_allocate_direct_memory(req) ==
    /\ ~panicked
    /\ \/ /\ InvalidLength(req.len)
          /\ ret' = "EINVAL"
          /\ UNCHANGED <<areas, panicked, live>>
       \/ /\ ~InvalidLength(req.len)
          /\ ScanPanics(areas, req)
          /\ panicked' = TRUE
          /\ UNCHANGED <<areas, ret, live>>
       \/ /\ ~InvalidLength(req.len)
          /\ ScanStops(areas, req) = {}
          /\ ret' = "ENOMEM"
          /\ UNCHANGED <<areas, panicked, live>>
       \/ /\ ~InvalidLength(req.len)
          /\ ScanFinds(areas, req)
          /\ areas' = Allocated(areas, req)
          /\ live' = live \cup {[addr |-> ScanAddr(areas, req), size |-> req.len]}
          /\ ret' = "OK"
          /\ UNCHANGED panicked

\* A region lies inside the range of size bytes at addr.
Within(r, addr, size) == addr <= r.addr /\ r.addr + r.size <= addr + size

\* Mutant: free does not compare the sizes.
HasArea_AnySize(addr, size) == addr \in DOMAIN areas

HasArea(addr, size) == addr \in DOMAIN areas /\ areas[addr].size = size

\* free accepts any area that starts at addr and has this size, whatever its
\* dma_type.
free(addr, size) ==
    /\ ~panicked
    /\ \/ /\ HasArea(addr, size)
          /\ LET merged == merge_adjacent([areas EXCEPT ![addr].dma_type = "Free"])
             IN  /\ areas' = merged.areas
                 /\ panicked' = merged.panics
          /\ live' = {r \in live : ~Within(r, addr, size)}
          /\ ret' = IF panicked' THEN ret ELSE "true"
       \/ /\ ~HasArea(addr, size)
          /\ ret' = "false"
          /\ UNCHANGED <<areas, panicked, live>>

Init ==
    /\ areas = [b \in {0} |-> [size |-> TotalSize, dma_type |-> "Free"]]
    /\ panicked = FALSE
    /\ ret = "none"
    /\ live = {}

Next ==
    \/ \E req \in Request : sce_kernel_allocate_direct_memory(req)
    \/ \E addr \in 0 .. TotalSize - 1, size \in 1 .. TotalSize :
          /\ AnyFree \/ [addr |-> addr, size |-> size] \in live
          /\ free(addr, size)

Spec == Init /\ [][Next]_vars

-----------------------------------------------------------------------------
(* Properties. *)

DM == INSTANCE DirectMemory WITH live <- live, TotalSize <- TotalSize

\* The map of areas implements the pool of DirectMemory: what allocate returns
\* is in the pool and apart from every region held, and free gives back the
\* regions that make up the range it names and no part of any other, however
\* the areas have been merged.
RefinesDirectMemory == DM!Spec

Area == [size : Nat, dma_type : {"Free", "Allocated"}]

Region == [addr : Nat, size : Nat]

\* The type of the state: the map holds areas under natural keys, and the
\* history holds regions.
TypeOK ==
    /\ DOMAIN areas \subseteq 0 .. TotalSize - 1
    /\ areas \in [DOMAIN areas -> Area]
    /\ panicked \in BOOLEAN
    /\ ret \in {"none", "OK", "EINVAL", "ENOMEM", "true", "false"}
    /\ live \subseteq Region

Disjoint(m) ==
    \A b \in DOMAIN m :
        /\ m[b].size > 0
        /\ b + m[b].size <= TotalSize
        /\ \A c \in DOMAIN m : b < c => b + m[b].size <= c

\* No area of the map is empty, reaches past the pool or overlaps another one:
\* what carve_area and merge_adjacent must keep between them.
AreasDisjoint == Disjoint(areas)

Cover(m) ==
    \A x \in 0 .. TotalSize - 1 :
        \E b \in DOMAIN m : b <= x /\ x < b + m[b].size

\* Every byte of the pool lies in some area: no split or merge loses memory.
AreasCover == Cover(areas)

\* The areas tile the pool: carve_area and merge_adjacent, in whatever order they
\* come, leave neither an overlap nor a hole.
AreasTile == AreasDisjoint /\ AreasCover

\* Every region handed out by allocate and not freed since lies inside one
\* Allocated area, so no later allocation can be given any of it.
LiveBacked ==
    \A r \in live :
        \E b \in DOMAIN areas :
            /\ areas[b].dma_type = "Allocated"
            /\ Within(r, b, areas[b].size)

\* Every Allocated byte belongs to a region somebody holds: free leaks nothing.
NoLeak ==
    \A b \in DOMAIN areas :
        areas[b].dma_type = "Allocated" =>
            \A x \in b .. b + areas[b].size - 1 :
                \E r \in live : r.addr <= x /\ x < r.addr + r.size

\* Two outstanding regions share no byte.
LiveDisjoint ==
    \A r, s \in live :
        r # s => DM!Apart(r, s)

\* What allocate has handed out and free has not taken back is accounted for, byte
\* by byte: Allocated memory is that of the regions held, each has its own, and
\* merging areas of different owners gives none of it away.
LiveAccounted == LiveBacked /\ NoLeak /\ LiveDisjoint

ByteFree(x) == \E b \in FreeBases(areas) : b <= x /\ x < b + areas[b].size

\* The addresses a request may be given, stated on bytes and not on areas.
Fits(req) ==
    {x \in 0 .. TotalSize - 1 :
        /\ is_aligned(x, Larger(req.align, PAGE_SIZE))
        /\ x >= req.start
        /\ x + req.len <= req.stop
        /\ x + req.len <= TotalSize
        /\ \A y \in x .. x + req.len - 1 : ByteFree(y)}

\* Whatever was allocated and freed before, the scan over areas answers every
\* request with the lowest aligned run of free bytes in its search range, and
\* says None only when there is no such run.  Two neighbouring free areas left
\* unmerged would break it.
LowestFit ==
    ~panicked =>
        \A req \in Request :
            InvalidLength(req.len) \/ ScanPanics(areas, req) \/
                IF Fits(req) = {} THEN ScanStops(areas, req) = {}
                ELSE ScanFinds(areas, req) /\ ScanAddr(areas, req) = Min(Fits(req))

-----------------------------------------------------------------------------
(* What the code does not keep: README.md, "Divergences", says how.        *)

\* "Free a previously allocated region." (physical_memory.rs:124): free would
\* accept every outstanding region.
LiveFreeable ==
    ~panicked => \A r \in live : HasArea(r.addr, r.size)

\* "Merge adjacent free areas around the given address."
\* (physical_memory.rs:194): merging is what free does, it does not panic.
NoPanic == ~panicked

=============================================================================
