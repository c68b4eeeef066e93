------------------------ MODULE PhysicalMemory_proofs ------------------------
(***************************************************************************)
(* Proofs about the direct-memory allocator, for every pool size, page     *)
(* size and set of requests, in a build with overflow checks.              *)
(***************************************************************************)
EXTENDS PhysicalMemory, TLAPS, WellFoundedInduction

\* The arithmetic facts about the pool that the proofs below need.
LEMMA PoolSize ==
    TotalSize \in Nat /\ Word \in Nat /\ TotalSize > 0 /\ TotalSize < Word
BY PhysicalMemoryAssumption, WordAssumption

\* What the constants say of a request.
LEMMA RequestType ==
    ASSUME NEW req \in Request
    PROVE  /\ req.start \in Nat /\ req.stop \in Nat
           /\ req.len \in Nat /\ req.align \in Nat
           /\ PAGE_SIZE \in Nat \ {0}
<1>1. /\ SearchBounds \subseteq Nat /\ Lens \subseteq Nat /\ Alignments \subseteq Nat
      /\ PAGE_SIZE \in Nat \ {0}
  BY PhysicalMemoryAssumption, WordAssumption
<1> QED
  BY <1>1 DEF Request

\* A non-empty set of naturals has a least element, and Min names it: what the
\* scans of the code in key order rely on.
LEMMA MinOfNaturals ==
    ASSUME NEW S \in SUBSET Nat, S # {}
    PROVE  Min(S) \in S /\ \A y \in S : Min(S) <= y
<1>1. \E x \in S : \A y \in S : ~(<<y, x>> \in OpToRel(<, Nat))
  BY NatLessThanWellFounded, WFMin
<1>2. PICK x \in S : \A y \in S : ~(<<y, x>> \in OpToRel(<, Nat))
  BY <1>1
<1>3. \A y \in S : x <= y
  <2>1. SUFFICES ASSUME NEW y \in S, y < x PROVE FALSE
    OBVIOUS
  <2>2. <<y, x>> \in OpToRel(<, Nat)
    BY <2>1 DEF OpToRel
  <2> QED
    BY <1>2, <2>2
<1> QED
  BY <1>2, <1>3 DEF Min

-----------------------------------------------------------------------------
(* The map of areas. *)

\* A map the code can hold: areas under keys in the pool, disjoint, covering it.
GoodMap(m) ==
    /\ DOMAIN m \subseteq 0 .. TotalSize - 1
    /\ m \in [DOMAIN m -> Area]
    /\ Disjoint(m)
    /\ Cover(m)

\* The end of an area of a good map does not wrap.
LEMMA EndOfArea ==
    ASSUME NEW m, GoodMap(m), NEW b \in DOMAIN m
    PROVE  /\ b \in Nat
           /\ m[b].size \in Nat
           /\ m[b].size > 0
           /\ end(m, b) = b + m[b].size
           /\ b + m[b].size <= TotalSize
<1>1. b \in Nat /\ m[b].size \in Nat
  BY PoolSize DEF GoodMap, Area
<1>2. m[b].size > 0 /\ b + m[b].size <= TotalSize
  BY DEF GoodMap, Disjoint
<1> QED
  BY <1>1, <1>2, PoolSize DEF end, Plus

\* Two areas of a good map that share a byte are the same area.
LEMMA OneArea ==
    ASSUME NEW m, GoodMap(m), NEW b \in DOMAIN m, NEW c \in DOMAIN m,
           NEW x \in Nat,
           b <= x, x < b + m[b].size, c <= x, x < c + m[c].size
    PROVE  b = c
BY EndOfArea DEF GoodMap, Disjoint

\* The map in which the area at base is replaced by at most three parts.
CarvedMap(m, base, addr, size) ==
    LET stop   == addr + size
        before == {b \in {base} : addr > base}
        after  == {e \in {stop} : stop < base + m[base].size}
    IN  [b \in (DOMAIN m \ {base}) \cup before \cup {addr} \cup after |->
            IF b \in after THEN [m[base] EXCEPT !.size = base + m[base].size - stop]
            ELSE IF b = addr THEN [m[base] EXCEPT !.size = size]
            ELSE IF b \in before THEN [m[base] EXCEPT !.size = addr - base]
            ELSE m[b]]

\* carve_area on a region inside one area of a good map replaces that area.
LEMMA CarveArea ==
    ASSUME NEW m, GoodMap(m),
           NEW base \in DOMAIN m, NEW addr \in Nat, NEW size \in Nat \ {0},
           base <= addr, addr + size <= base + m[base].size
    PROVE  carve_area(m, addr, size) = CarvedMap(m, base, addr, size)
<1> DEFINE containing == {b \in DOMAIN m : b <= addr /\ addr < end(m, b)}
<1>1. base \in containing
  BY EndOfArea
<1>2. containing = {base}
  BY <1>1, EndOfArea, OneArea
<1>3. containing \in SUBSET Nat
  BY EndOfArea
<1>4. Min(containing) = base
  BY <1>1, <1>2, <1>3, MinOfNaturals
<1>5. /\ base + m[base].size <= TotalSize
      /\ base \in Nat /\ m[base].size \in Nat
      /\ end(m, base) = base + m[base].size
  BY EndOfArea
<1>6. Plus(addr, size) = addr + size
  BY <1>5, PoolSize DEF Plus
<1> QED
  BY <1>1, <1>4, <1>5, <1>6 DEF carve_area, PartBefore, PartAfter, AfterSize, CarvedMap

\* The map in which the region of size bytes at addr, cut out of the free area
\* at base, is allocated.
SplitMap(m, base, addr, size) ==
    LET stop   == addr + size
        before == {b \in {base} : addr > base}
        after  == {e \in {stop} : stop < base + m[base].size}
    IN  [b \in (DOMAIN m \ {base}) \cup before \cup {addr} \cup after |->
            IF b \in after
            THEN [size |-> base + m[base].size - stop, dma_type |-> "Free"]
            ELSE IF b = addr THEN [size |-> size, dma_type |-> "Allocated"]
            ELSE IF b \in before THEN [size |-> addr - base, dma_type |-> "Free"]
            ELSE m[b]]

\* The facts under which the code splits an area.
Splits(m, base, addr, size) ==
    /\ base \in DOMAIN m
    /\ m[base].dma_type = "Free"
    /\ addr \in Nat
    /\ size \in Nat \ {0}
    /\ base <= addr
    /\ addr + size <= base + m[base].size

\* A scan that finds an area of a good map found a free one with room in it.
LEMMA ScanSplits ==
    ASSUME OverflowChecks, NEW m, GoodMap(m), NEW req \in Request,
           ~InvalidLength(req.len), ScanFinds(m, req)
    PROVE  Splits(m, Min(ScanStops(m, req)), ScanAddr(m, req), req.len)
<1> DEFINE base == Min(ScanStops(m, req))
<1>1. ScanStops(m, req) \in SUBSET Nat /\ ScanStops(m, req) # {}
  BY EndOfArea DEF ScanStops, FreeBases, ScanFinds
<1>2. base \in ScanStops(m, req)
  BY <1>1, MinOfNaturals
<1>3. /\ base \in DOMAIN m
      /\ m[base].dma_type = "Free"
      /\ ~AreaOverflows(base, req)
      /\ AreaFits(m, base, req)
  BY <1>2 DEF ScanStops, FreeBases, ScanFinds
<1>4. /\ base \in Nat
      /\ m[base].size \in Nat
      /\ end(m, base) = base + m[base].size
      /\ base + m[base].size <= TotalSize
  BY <1>3, EndOfArea
<1>5. req.len \in Nat \ {0}
  BY RequestType DEF InvalidLength
<1>6. aligned_base(base, req) \in Int
  <2>1. Larger(req.align, PAGE_SIZE) \in Nat \ {0}
    BY RequestType DEF Larger
  <2>2. Larger(base, req.start) \in Nat
    BY <1>4, RequestType DEF Larger
  <2>3. Plus(Larger(base, req.start), Larger(req.align, PAGE_SIZE) - 1) \in Int
    BY <2>1, <2>2, PoolSize DEF Plus
  <2> QED
    BY <2>1, <2>3 DEF aligned_base, align_up
<1>7. base <= aligned_base(base, req)
  BY <1>3 DEF AreaFits
<1>8. aligned_base(base, req) + req.len < Word
  BY <1>3, <1>5, <1>6, PoolSize DEF AreaOverflows, Overflows
<1>9. Plus(aligned_base(base, req), req.len) = aligned_base(base, req) + req.len
  BY <1>8 DEF Plus
<1>10. aligned_base(base, req) + req.len <= base + m[base].size
  BY <1>3, <1>4, <1>9 DEF AreaFits
<1> QED
  BY <1>3, <1>4, <1>5, <1>6, <1>7, <1>10 DEF Splits, ScanAddr

\* Carving and marking is splitting.
LEMMA AllocatedSplits ==
    ASSUME NEW m, GoodMap(m), NEW req, NEW base,
           Splits(m, base, ScanAddr(m, req), req.len)
    PROVE  Allocated(m, req) = SplitMap(m, base, ScanAddr(m, req), req.len)
<1> DEFINE addr   == ScanAddr(m, req)
           size   == req.len
           carved == carve_area(m, addr, size)
           before == {b \in {base} : addr > base}
           after  == {e \in {addr + size} : addr + size < base + m[base].size}
           keys   == (DOMAIN m \ {base}) \cup before \cup {addr} \cup after
<1>1. /\ base \in Nat /\ m[base].size \in Nat /\ m[base] \in Area
      /\ m[base].dma_type = "Free"
      /\ addr \in Nat /\ size \in Nat \ {0}
      /\ base \in DOMAIN m /\ base <= addr /\ addr + size <= base + m[base].size
  BY EndOfArea DEF Splits, GoodMap
<1>2. carved = CarvedMap(m, base, addr, size)
  BY <1>1, CarveArea
<1>3. addr \notin after
  BY <1>1
<1>4. \A n : [m[base] EXCEPT !.size = n] = [size |-> n, dma_type |-> "Free"]
  BY <1>1 DEF Area
<1>5. DOMAIN carved = keys /\ addr \in keys
  BY <1>2 DEF CarvedMap
<1>6. Allocated(m, req) =
        [b \in keys |->
            IF b = addr THEN [carved[b] EXCEPT !.dma_type = "Allocated"] ELSE carved[b]]
  BY <1>5 DEF Allocated
<1>7. ASSUME NEW b \in keys
      PROVE  Allocated(m, req)[b] = SplitMap(m, base, addr, size)[b]
  <2>1. CASE b \in after
    BY <2>1, <1>2, <1>3, <1>4, <1>6 DEF SplitMap, CarvedMap
  <2>2. CASE b = addr
    <3>1. carved[b] = [size |-> size, dma_type |-> "Free"]
      BY <2>2, <1>2, <1>3, <1>4 DEF CarvedMap
    <3>2. Allocated(m, req)[b] = [size |-> size, dma_type |-> "Allocated"]
      BY <3>1, <2>2, <1>6
    <3> QED
      BY <3>2, <2>2, <1>3 DEF SplitMap
  <2>3. CASE b \notin after /\ b # addr
    BY <2>3, <1>2, <1>4, <1>6 DEF SplitMap, CarvedMap
  <2> QED
    BY <2>1, <2>2, <2>3
<1>8. DOMAIN SplitMap(m, base, addr, size) = keys /\ DOMAIN Allocated(m, req) = keys
  BY <1>6 DEF SplitMap
<1> QED
  BY <1>6, <1>7, <1>8 DEF SplitMap

\* The areas of a split map n, one by one.
SplitInto(m, n, base, addr, size) ==
    LET stop == addr + size
    IN  /\ addr \in DOMAIN n
        /\ n[addr] = [size |-> size, dma_type |-> "Allocated"]
        /\ addr > base =>
              base \in DOMAIN n /\ n[base] = [size |-> addr - base, dma_type |-> "Free"]
        /\ stop < base + m[base].size =>
              /\ stop \in DOMAIN n
              /\ n[stop] = [size |-> base + m[base].size - stop, dma_type |-> "Free"]
        /\ \A b \in DOMAIN m \ {base} :
              /\ b \in DOMAIN n /\ n[b] = m[b]
              /\ b < base \/ b >= base + m[base].size
        /\ \A b \in DOMAIN n :
              \/ b \in DOMAIN m \ {base}
              \/ b = addr
              \/ b = base /\ addr > base
              \/ b = stop /\ stop < base + m[base].size

\* SplitMap has these areas.
LEMMA SplitAreas ==
    ASSUME NEW m, GoodMap(m), NEW base, NEW addr, NEW size,
           Splits(m, base, addr, size)
    PROVE  SplitInto(m, SplitMap(m, base, addr, size), base, addr, size)
<1> DEFINE n    == SplitMap(m, base, addr, size)
           stop == addr + size
<1>1. /\ base \in DOMAIN m /\ addr \in Nat /\ size \in Nat \ {0}
      /\ base <= addr /\ stop <= base + m[base].size
      /\ base \in Nat /\ m[base].size \in Nat
  BY EndOfArea DEF Splits
<1>2. \A b \in DOMAIN m \ {base} : b \in Nat /\ (b < base \/ b >= base + m[base].size)
  <2> TAKE b \in DOMAIN m \ {base}
  <2>1. b \in Nat
    BY EndOfArea
  <2>2. base < b => base + m[base].size <= b
    BY <1>1 DEF GoodMap, Disjoint
  <2> QED
    BY <1>1, <2>1, <2>2
<1>3. /\ addr \in DOMAIN n
      /\ n[addr] = [size |-> size, dma_type |-> "Allocated"]
  BY <1>1 DEF SplitMap
<1>4. addr > base =>
         base \in DOMAIN n /\ n[base] = [size |-> addr - base, dma_type |-> "Free"]
  BY <1>1 DEF SplitMap
<1>5. stop < base + m[base].size =>
         /\ stop \in DOMAIN n
         /\ n[stop] = [size |-> base + m[base].size - stop, dma_type |-> "Free"]
  BY <1>1 DEF SplitMap
<1>6. \A b \in DOMAIN m \ {base} : b \in DOMAIN n /\ n[b] = m[b]
  BY <1>1, <1>2 DEF SplitMap
<1>7. \A b \in DOMAIN n :
         \/ b \in DOMAIN m \ {base}
         \/ b = addr
         \/ b = base /\ addr > base
         \/ b = stop /\ stop < base + m[base].size
  BY DEF SplitMap
<1> QED
  BY <1>2, <1>3, <1>4, <1>5, <1>6, <1>7 DEF SplitInto

\* Splitting a good map gives a good map.
LEMMA SplitGood ==
    ASSUME NEW m, GoodMap(m), NEW base, NEW addr, NEW size,
           Splits(m, base, addr, size)
    PROVE  GoodMap(SplitMap(m, base, addr, size))
<1> DEFINE n    == SplitMap(m, base, addr, size)
           stop == addr + size
<1>1. /\ base \in DOMAIN m /\ addr \in Nat /\ size \in Nat \ {0}
      /\ base <= addr /\ stop <= base + m[base].size
      /\ base \in Nat /\ m[base].size \in Nat
      /\ base + m[base].size <= TotalSize
  BY EndOfArea DEF Splits
<1> SplitInto(m, n, base, addr, size)
  BY SplitAreas
<1> HIDE DEF n
<1>2. /\ addr \in DOMAIN n
      /\ n[addr] = [size |-> size, dma_type |-> "Allocated"]
      /\ addr > base =>
            base \in DOMAIN n /\ n[base] = [size |-> addr - base, dma_type |-> "Free"]
      /\ stop < base + m[base].size =>
            /\ stop \in DOMAIN n
            /\ n[stop] = [size |-> base + m[base].size - stop, dma_type |-> "Free"]
      /\ \A b \in DOMAIN m \ {base} :
            /\ b \in DOMAIN n /\ n[b] = m[b]
            /\ b < base \/ b >= base + m[base].size
      /\ \A b \in DOMAIN n :
            \/ b \in DOMAIN m \ {base}
            \/ b = addr
            \/ b = base /\ addr > base
            \/ b = stop /\ stop < base + m[base].size
  BY DEF SplitInto
<1>3. \A b \in DOMAIN m :
         /\ b \in Nat /\ m[b].size \in Nat /\ m[b].size > 0
         /\ b + m[b].size <= TotalSize
         /\ m[b] \in Area
         /\ \A c \in DOMAIN m : b < c => b + m[b].size <= c
  BY EndOfArea DEF GoodMap, Disjoint
<1>4. DOMAIN n \subseteq 0 .. TotalSize - 1
  BY <1>1, <1>2, <1>3, PoolSize
<1>5. n \in [DOMAIN n -> Area]
  <2>1. \A b \in DOMAIN n : n[b] \in Area
    BY <1>1, <1>2, <1>3 DEF Area
  <2>2. n = [b \in DOMAIN n |-> n[b]]
    BY DEF n, SplitMap
  <2> QED
    BY <2>1, <2>2
<1>6. Disjoint(n)
  <2>1. ASSUME NEW b \in DOMAIN n
        PROVE  n[b].size > 0 /\ b + n[b].size <= TotalSize
    <3>1. CASE b \in DOMAIN m \ {base}
      BY <3>1, <1>2, <1>3
    <3>2. CASE b = addr
      BY <3>2, <1>1, <1>2, PoolSize
    <3>3. CASE b = base /\ addr > base
      BY <3>3, <1>1, <1>2, PoolSize
    <3>4. CASE b = stop /\ stop < base + m[base].size
      BY <3>4, <1>1, <1>2, PoolSize
    <3> QED
      BY <3>1, <3>2, <3>3, <3>4, <1>2
  <2>2. ASSUME NEW b \in DOMAIN n, NEW c \in DOMAIN n, b < c
        PROVE  b + n[b].size <= c
    <3>1. CASE b \in DOMAIN m \ {base} /\ c \in DOMAIN m \ {base}
      BY <2>2, <3>1, <1>2, <1>3
    <3>2. CASE b \in DOMAIN m \ {base} /\ c \notin DOMAIN m \ {base}
      BY <2>2, <3>2, <1>1, <1>2, <1>3
    <3>3. CASE b \notin DOMAIN m \ {base} /\ c \in DOMAIN m \ {base}
      BY <2>2, <3>3, <1>1, <1>2, <1>3
    <3>4. CASE b \notin DOMAIN m \ {base} /\ c \notin DOMAIN m \ {base}
      BY <2>2, <3>4, <1>1, <1>2
    <3> QED
      BY <3>1, <3>2, <3>3, <3>4
  <2> QED
    BY <2>1, <2>2 DEF Disjoint
<1>7. Cover(n)
  <2>1. SUFFICES ASSUME NEW x \in 0 .. TotalSize - 1
                 PROVE  \E b \in DOMAIN n : b <= x /\ x < b + n[b].size
    BY DEF Cover
  <2>2. PICK b \in DOMAIN m : b <= x /\ x < b + m[b].size
    BY DEF GoodMap, Cover
  <2>3. CASE b # base
    BY <2>2, <2>3, <1>2
  <2>4. CASE b = base /\ x < addr
    BY <2>2, <2>4, <1>1, <1>2, PoolSize
  <2>5. CASE b = base /\ addr <= x /\ x < stop
    BY <2>5, <1>1, <1>2
  <2>6. CASE b = base /\ stop <= x
    BY <2>2, <2>6, <1>1, <1>2, PoolSize
  <2> QED
    BY <2>3, <2>4, <2>5, <2>6, <1>1, PoolSize
<1> QED
  BY <1>4, <1>5, <1>6, <1>7 DEF GoodMap, n

\* Marking an area free changes nothing else.
LEMMA MarkFreeGood ==
    ASSUME NEW m, GoodMap(m), NEW addr \in DOMAIN m
    PROVE  LET n == [m EXCEPT ![addr].dma_type = "Free"]
           IN  /\ GoodMap(n)
               /\ DOMAIN n = DOMAIN m
               /\ n[addr].dma_type = "Free"
               /\ \A b \in DOMAIN m : n[b].size = m[b].size
               /\ \A b \in DOMAIN m \ {addr} : n[b] = m[b]
<1> DEFINE n == [m EXCEPT ![addr].dma_type = "Free"]
<1>1. m \in [DOMAIN m -> Area]
  BY DEF GoodMap
<1>2. /\ DOMAIN n = DOMAIN m
      /\ n[addr] = [size |-> m[addr].size, dma_type |-> "Free"]
      /\ \A b \in DOMAIN m \ {addr} : n[b] = m[b]
  BY <1>1 DEF Area
<1>3. \A b \in DOMAIN m : n[b].size = m[b].size
  BY <1>2
<1>4. n \in [DOMAIN n -> Area]
  BY <1>1, <1>2 DEF Area
<1>5. Disjoint(n)
  BY <1>2, <1>3 DEF GoodMap, Disjoint
<1>6. Cover(n)
  BY <1>2, <1>3 DEF GoodMap, Cover
<1> QED
  BY <1>2, <1>3, <1>4, <1>5, <1>6 DEF GoodMap

\* The pair of areas that merge_adjacent joins, and the map it leaves.
LEMMA MergePair ==
    ASSUME NEW m, GoodMap(m), MergeableKeys(m) # {}
    PROVE  LET first == Min(MergeableKeys(m))
               next  == Min(NextKeys(m, first))
               n     == MergeNext(m, first)
           IN  /\ first \in DOMAIN m /\ next \in DOMAIN m
               /\ next = first + m[first].size
               /\ m[next].dma_type = m[first].dma_type
               /\ n \in [DOMAIN m \ {next} -> Area]
               /\ n[first].size = m[first].size + m[next].size
               /\ n[first].dma_type = m[first].dma_type
               /\ \A b \in DOMAIN m \ {first, next} : n[b] = m[b]
<1> DEFINE first == Min(MergeableKeys(m))
           next  == Min(NextKeys(m, first))
           n     == MergeNext(m, first)
<1>1. first \in MergeableKeys(m)
  <2>1. MergeableKeys(m) \in SUBSET Nat
    BY EndOfArea DEF MergeableKeys
  <2> QED
    BY <2>1, MinOfNaturals
<1>2. /\ first \in DOMAIN m
      /\ NextKeys(m, first) # {}
      /\ can_merge_with(m, first, next)
  BY <1>1 DEF MergeableKeys
<1>3. next \in DOMAIN m
  <2>1. NextKeys(m, first) \in SUBSET Nat
    BY EndOfArea DEF NextKeys
  <2>2. next \in NextKeys(m, first)
    BY <1>2, <2>1, MinOfNaturals
  <2> QED
    BY <2>2 DEF NextKeys
<1>4. next = first + m[first].size /\ m[next].dma_type = m[first].dma_type
  BY <1>2, EndOfArea DEF can_merge_with
<1>5. /\ first \in Nat /\ m[first].size \in Nat /\ m[first].size > 0
      /\ m[next].size \in Nat /\ next + m[next].size <= TotalSize
      /\ m[first] \in Area /\ m[next] \in Area
      /\ m \in [DOMAIN m -> Area]
  BY <1>2, <1>3, EndOfArea DEF GoodMap
<1>6. Plus(m[first].size, m[next].size) = m[first].size + m[next].size
  BY <1>4, <1>5, PoolSize DEF Plus
<1>7. n = [c \in DOMAIN m \ {next} |->
             IF c = first
             THEN [m[first] EXCEPT !.size = m[first].size + m[next].size]
             ELSE m[c]]
  BY <1>6 DEF MergeNext
<1>8. first # next
  BY <1>4, <1>5
<1>9. /\ n[first].size = m[first].size + m[next].size
      /\ n[first].dma_type = m[first].dma_type
      /\ n[first] \in Area
  <2>1. n[first] = [m[first] EXCEPT !.size = m[first].size + m[next].size]
    BY <1>2, <1>7, <1>8
  <2> QED
    BY <2>1, <1>5 DEF Area
<1>10. \A b \in DOMAIN m \ {first, next} : n[b] = m[b]
  BY <1>7
<1>11. n \in [DOMAIN m \ {next} -> Area]
  BY <1>5, <1>7, <1>9, <1>10
<1> QED
  BY <1>2, <1>3, <1>4, <1>9, <1>10, <1>11

\* Merging a pair of a good map gives a good map.
LEMMA MergeGood ==
    ASSUME NEW m, GoodMap(m), MergeableKeys(m) # {}
    PROVE  GoodMap(MergeNext(m, Min(MergeableKeys(m))))
<1> DEFINE first == Min(MergeableKeys(m))
           next  == Min(NextKeys(m, first))
           n     == MergeNext(m, first)
<1>1. /\ first \in DOMAIN m /\ next \in DOMAIN m
      /\ next = first + m[first].size
      /\ n \in [DOMAIN m \ {next} -> Area]
      /\ n[first].size = m[first].size + m[next].size
      /\ \A b \in DOMAIN m \ {first, next} : n[b] = m[b]
  BY MergePair
<1>2. \A b \in DOMAIN m :
         /\ b \in Nat /\ m[b].size \in Nat /\ m[b].size > 0
         /\ b + m[b].size <= TotalSize
         /\ \A c \in DOMAIN m : b < c => b + m[b].size <= c
  BY EndOfArea DEF GoodMap, Disjoint
<1>3. DOMAIN n = DOMAIN m \ {next} /\ first \in DOMAIN n
  BY <1>1, <1>2
<1> HIDE DEF first, next, n
<1>4. Disjoint(n)
  <2>1. ASSUME NEW b \in DOMAIN n
        PROVE  n[b].size > 0 /\ b + n[b].size <= TotalSize
    BY <1>1, <1>2, <1>3, PoolSize
  <2>2. ASSUME NEW b \in DOMAIN n, NEW c \in DOMAIN n, b < c
        PROVE  b + n[b].size <= c
    <3>1. CASE b = first
      <4>1. c \in DOMAIN m /\ c # next /\ first < c
        BY <2>2, <3>1, <1>3
      <4>2. next < c
        BY <4>1, <1>1, <1>2
      <4>3. next + m[next].size <= c
        BY <4>1, <4>2, <1>1, <1>2
      <4> QED
        BY <4>1, <4>3, <3>1, <1>1, <1>2
    <3>2. CASE b # first
      BY <2>2, <3>2, <1>1, <1>2, <1>3
    <3> QED
      BY <3>1, <3>2
  <2> QED
    BY <2>1, <2>2 DEF Disjoint
<1>5. Cover(n)
  <2>1. SUFFICES ASSUME NEW x \in 0 .. TotalSize - 1
                 PROVE  \E b \in DOMAIN n : b <= x /\ x < b + n[b].size
    BY DEF Cover
  <2>2. PICK b \in DOMAIN m : b <= x /\ x < b + m[b].size
    BY DEF GoodMap, Cover
  <2>3. CASE b \in {first, next}
    BY <2>2, <2>3, <1>1, <1>2, <1>3, PoolSize
  <2>4. CASE b \notin {first, next}
    BY <2>2, <2>4, <1>1, <1>3
  <2> QED
    BY <2>3, <2>4
<1> QED
  BY <1>1, <1>2, <1>3, <1>4, <1>5, PoolSize DEF GoodMap, n, first

-----------------------------------------------------------------------------
(* The outstanding regions. *)

\* LiveBacked and NoLeak, for any map and any set of regions.
Backs(m, lv) ==
    /\ \A r \in lv :
          \E b \in DOMAIN m :
              m[b].dma_type = "Allocated" /\ Within(r, b, m[b].size)
    /\ \A b \in DOMAIN m :
          m[b].dma_type = "Allocated" =>
              \A x \in b .. b + m[b].size - 1 :
                  \E r \in lv : r.addr <= x /\ x < r.addr + r.size

\* The inductive invariant: what the runs check of the map and of the regions
\* handed out, and that no region handed out is empty.
IInv ==
    /\ TypeOK
    /\ AreasDisjoint
    /\ AreasCover
    /\ LiveBacked
    /\ NoLeak
    /\ LiveDisjoint
    /\ \A r \in live : r.size > 0

\* The invariant in the vocabulary of the lemmas.
LEMMA IInvParts ==
    IInv <=> /\ GoodMap(areas)
             /\ Backs(areas, live)
             /\ LiveDisjoint
             /\ live \subseteq Region
             /\ \A r \in live : r.size > 0
             /\ panicked \in BOOLEAN
             /\ ret \in {"none", "OK", "EINVAL", "ENOMEM", "true", "false"}
BY DEF IInv, TypeOK, AreasDisjoint, AreasCover, LiveBacked, NoLeak, GoodMap, Backs

\* A region cut out of a free area is apart from every region already backed.
LEMMA SplitApart ==
    ASSUME NEW m, GoodMap(m), NEW base, NEW addr, NEW size,
           Splits(m, base, addr, size),
           NEW lv \in SUBSET Region, Backs(m, lv), NEW s \in lv
    PROVE  DM!Apart([addr |-> addr, size |-> size], s)
<1>1. PICK b \in DOMAIN m : m[b].dma_type = "Allocated" /\ Within(s, b, m[b].size)
  BY DEF Backs
<1>2. b # base
  BY <1>1 DEF Splits
<1>3. /\ base \in DOMAIN m /\ base \in Nat /\ m[base].size \in Nat
      /\ addr \in Nat /\ size \in Nat
      /\ base <= addr /\ addr + size <= base + m[base].size
  BY EndOfArea DEF Splits
<1>4. b \in Nat /\ m[b].size \in Nat /\ s.addr \in Nat /\ s.size \in Nat
  BY EndOfArea DEF Region
<1>5. \/ b + m[b].size <= base
      \/ base + m[base].size <= b
  BY <1>2, <1>3, <1>4 DEF GoodMap, Disjoint
<1>6. b <= s.addr /\ s.addr + s.size <= b + m[b].size
  BY <1>1 DEF Within
<1> QED
  BY <1>3, <1>4, <1>5, <1>6 DEF DM!Apart

\* Splitting an area backs the new region and all the old ones.
LEMMA SplitBacks ==
    ASSUME NEW m, GoodMap(m), NEW base, NEW addr, NEW size,
           Splits(m, base, addr, size), NEW lv, Backs(m, lv)
    PROVE  Backs(SplitMap(m, base, addr, size),
                 lv \cup {[addr |-> addr, size |-> size]})
<1> DEFINE n   == SplitMap(m, base, addr, size)
           new == [addr |-> addr, size |-> size]
<1> SplitInto(m, n, base, addr, size)
  BY SplitAreas
<1> HIDE DEF n
<1>1. /\ addr \in DOMAIN n
      /\ n[addr] = [size |-> size, dma_type |-> "Allocated"]
      /\ \A b \in DOMAIN m \ {base} : b \in DOMAIN n /\ n[b] = m[b]
  BY DEF SplitInto
<1>2. \A b \in DOMAIN n :
         n[b].dma_type = "Allocated" => b = addr \/ (b \in DOMAIN m \ {base} /\ n[b] = m[b])
  BY DEF SplitInto
<1>3. addr \in Nat /\ size \in Nat /\ m[base].dma_type = "Free"
  BY DEF Splits
<1>4. ASSUME NEW r \in lv \cup {new}
      PROVE  \E b \in DOMAIN n :
                 n[b].dma_type = "Allocated" /\ Within(r, b, n[b].size)
  <2>1. CASE r = new
    BY <2>1, <1>1, <1>3 DEF Within
  <2>2. CASE r \in lv
    <3>1. PICK b \in DOMAIN m : m[b].dma_type = "Allocated" /\ Within(r, b, m[b].size)
      BY <2>2 DEF Backs
    <3> QED
      BY <3>1, <1>1, <1>3
  <2> QED
    BY <2>1, <2>2
<1>5. ASSUME NEW b \in DOMAIN n, n[b].dma_type = "Allocated",
             NEW x \in b .. b + n[b].size - 1
      PROVE  \E r \in lv \cup {new} : r.addr <= x /\ x < r.addr + r.size
  <2>1. CASE b = addr
    <3>1. new.addr <= x /\ x < new.addr + new.size
      BY <2>1, <1>1, <1>3, <1>5
    <3> QED
      BY <3>1
  <2>2. CASE b \in DOMAIN m \ {base} /\ n[b] = m[b]
    <3>1. PICK r \in lv : r.addr <= x /\ x < r.addr + r.size
      BY <2>2, <1>5 DEF Backs
    <3> QED
      BY <3>1
  <2> QED
    BY <2>1, <2>2, <1>2, <1>5
<1> QED
  BY <1>4, <1>5 DEF Backs, n

\* Merging two areas keeps every region backed and leaks nothing.
LEMMA MergeBacks ==
    ASSUME NEW m, GoodMap(m), MergeableKeys(m) # {},
           NEW lv \in SUBSET Region, Backs(m, lv)
    PROVE  Backs(MergeNext(m, Min(MergeableKeys(m))), lv)
<1> DEFINE first == Min(MergeableKeys(m))
           next  == Min(NextKeys(m, first))
           n     == MergeNext(m, first)
<1>1. /\ first \in DOMAIN m /\ next \in DOMAIN m
      /\ next = first + m[first].size
      /\ m[next].dma_type = m[first].dma_type
      /\ n \in [DOMAIN m \ {next} -> Area]
      /\ n[first].size = m[first].size + m[next].size
      /\ n[first].dma_type = m[first].dma_type
      /\ \A b \in DOMAIN m \ {first, next} : n[b] = m[b]
  BY MergePair
<1>2. \A b \in DOMAIN m : b \in Nat /\ m[b].size \in Nat /\ m[b].size > 0
  BY EndOfArea
<1>3. DOMAIN n = DOMAIN m \ {next} /\ first \in DOMAIN n
  BY <1>1, <1>2
<1> HIDE DEF first, next, n
<1>4. ASSUME NEW r \in lv
      PROVE  \E b \in DOMAIN n :
                 n[b].dma_type = "Allocated" /\ Within(r, b, n[b].size)
  <2>1. PICK b \in DOMAIN m : m[b].dma_type = "Allocated" /\ Within(r, b, m[b].size)
    BY DEF Backs
  <2>2. r.addr \in Nat /\ r.size \in Nat
    BY DEF Region
  <2>3. CASE b \in {first, next}
    <3>1. Within(r, first, n[first].size)
      BY <2>1, <2>2, <2>3, <1>1, <1>2 DEF Within
    <3> QED
      BY <3>1, <2>1, <2>3, <1>1, <1>3
  <2>4. CASE b \notin {first, next}
    BY <2>1, <2>4, <1>1, <1>3
  <2> QED
    BY <2>3, <2>4
<1>5. ASSUME NEW b \in DOMAIN n, n[b].dma_type = "Allocated",
             NEW x \in b .. b + n[b].size - 1
      PROVE  \E r \in lv : r.addr <= x /\ x < r.addr + r.size
  <2>1. CASE b # first
    <3>1. b \in DOMAIN m /\ n[b] = m[b]
      BY <2>1, <1>1, <1>3
    <3> QED
      BY <3>1, <1>5 DEF Backs
  <2>2. CASE b = first /\ x < next
    <3>1. x \in first .. first + m[first].size - 1
      BY <2>2, <1>1, <1>2
    <3> QED
      BY <3>1, <2>2, <1>1, <1>5 DEF Backs
  <2>3. CASE b = first /\ x >= next
    <3>1. x \in next .. next + m[next].size - 1
      BY <2>3, <1>1, <1>2
    <3> QED
      BY <3>1, <2>3, <1>1, <1>5 DEF Backs
  <2> QED
    BY <2>1, <2>2, <2>3, <1>1, <1>2
<1> QED
  BY <1>4, <1>5 DEF Backs, n, first

-----------------------------------------------------------------------------
(* One lemma per call. *)

\* The new region of a successful allocation comes out of a free area.
LEMMA AllocateSplits ==
    ASSUME OverflowChecks, IInv, NEW req \in Request,
           ~InvalidLength(req.len), ScanFinds(areas, req)
    PROVE  \E base :
              /\ Splits(areas, base, ScanAddr(areas, req), req.len)
              /\ Allocated(areas, req) =
                    SplitMap(areas, base, ScanAddr(areas, req), req.len)
<1>1. GoodMap(areas)
  BY IInvParts
<1> DEFINE base == Min(ScanStops(areas, req))
<1>2. Splits(areas, base, ScanAddr(areas, req), req.len)
  BY <1>1, ScanSplits
<1>3. Allocated(areas, req) = SplitMap(areas, base, ScanAddr(areas, req), req.len)
  BY <1>1, <1>2, AllocatedSplits
<1> QED
  BY <1>2, <1>3

\* sceKernelAllocateDirectMemory keeps the invariant, on every path.
LEMMA AllocateKeeps ==
    ASSUME OverflowChecks, IInv, NEW req \in Request,
           sce_kernel_allocate_direct_memory(req)
    PROVE  IInv'
<1>1. CASE UNCHANGED <<areas, live>> /\ panicked' \in BOOLEAN
           /\ ret' \in {"none", "OK", "EINVAL", "ENOMEM", "true", "false"}
  BY <1>1 DEF IInv, TypeOK, AreasDisjoint, AreasCover, LiveBacked, NoLeak, LiveDisjoint
<1>2. CASE /\ ~InvalidLength(req.len)
           /\ ScanFinds(areas, req)
           /\ areas' = Allocated(areas, req)
           /\ live' = live \cup {[addr |-> ScanAddr(areas, req), size |-> req.len]}
           /\ ret' = "OK"
           /\ UNCHANGED panicked
  <2> DEFINE addr == ScanAddr(areas, req)
             size == req.len
             new  == [addr |-> addr, size |-> size]
  <2>1. PICK base : /\ Splits(areas, base, addr, size)
                    /\ areas' = SplitMap(areas, base, addr, size)
    BY <1>2, AllocateSplits
  <2>2. GoodMap(areas) /\ Backs(areas, live) /\ live \in SUBSET Region /\ LiveDisjoint
    BY IInvParts
  <2>3. GoodMap(areas')
    BY <2>1, <2>2, SplitGood
  <2>4. Backs(areas', live')
    BY <1>2, <2>1, <2>2, SplitBacks
  <2>5. addr \in Nat /\ size \in Nat /\ size > 0
    BY <2>1 DEF Splits
  <2>6. live' \subseteq Region /\ \A r \in live' : r.size > 0
    BY <1>2, <2>2, <2>5, IInvParts DEF Region
  <2>7. LiveDisjoint'
    <3>1. \A r \in live : DM!Apart(new, r)
      BY <2>1, <2>2, SplitApart
    <3>2. \A r \in live : DM!Apart(r, new)
      BY <3>1 DEF DM!Apart
    <3> QED
      BY <1>2, <2>2, <3>1, <3>2 DEF LiveDisjoint, DM!Apart
  <2>8. panicked' \in BOOLEAN
    BY <1>2 DEF IInv, TypeOK
  <2> QED
    BY <1>2, <2>3, <2>4, <2>6, <2>7, <2>8
       DEF IInv, TypeOK, AreasDisjoint, AreasCover, LiveBacked, NoLeak, GoodMap, Backs
<1> QED
  BY <1>1, <1>2 DEF sce_kernel_allocate_direct_memory, IInv, TypeOK

\* Dropping the regions inside a freed area leaves the others backed.
LEMMA FreedBacks ==
    ASSUME NEW m, GoodMap(m), NEW lv \in SUBSET Region, Backs(m, lv),
           NEW addr \in DOMAIN m
    PROVE  Backs([m EXCEPT ![addr].dma_type = "Free"],
                 {r \in lv : ~Within(r, addr, m[addr].size)})
<1> DEFINE n    == [m EXCEPT ![addr].dma_type = "Free"]
           rest == {r \in lv : ~Within(r, addr, m[addr].size)}
<1>1. /\ DOMAIN n = DOMAIN m
      /\ n[addr].dma_type = "Free"
      /\ \A b \in DOMAIN m \ {addr} : n[b] = m[b]
  BY MarkFreeGood
<1> HIDE DEF n
<1>2. ASSUME NEW r \in rest
      PROVE  \E b \in DOMAIN n :
                 n[b].dma_type = "Allocated" /\ Within(r, b, n[b].size)
  <2>1. PICK b \in DOMAIN m : m[b].dma_type = "Allocated" /\ Within(r, b, m[b].size)
    BY DEF Backs
  <2>2. b # addr
    BY <2>1
  <2> QED
    BY <2>1, <2>2, <1>1
<1>3. ASSUME NEW b \in DOMAIN n, n[b].dma_type = "Allocated",
             NEW x \in b .. b + n[b].size - 1
      PROVE  \E r \in rest : r.addr <= x /\ x < r.addr + r.size
  <2>1. b # addr /\ b \in DOMAIN m /\ n[b] = m[b]
    BY <1>1, <1>3
  <2>2. PICK r \in lv : r.addr <= x /\ x < r.addr + r.size
    BY <2>1, <1>3 DEF Backs
  <2>3. /\ b \in Nat /\ m[b].size \in Nat /\ addr \in Nat /\ m[addr].size \in Nat
        /\ r.addr \in Nat /\ r.size \in Nat
    BY <2>1, EndOfArea DEF Region
  <2>4. x \in Nat /\ b <= x /\ x < b + m[b].size
    BY <2>1, <2>3
  <2>5. ~Within(r, addr, m[addr].size)
    <3>1. SUFFICES ASSUME Within(r, addr, m[addr].size) PROVE FALSE
      OBVIOUS
    <3>2. addr <= x /\ x < addr + m[addr].size
      BY <3>1, <2>2, <2>3, <2>4 DEF Within
    <3> QED
      BY <3>2, <2>1, <2>4, OneArea
  <2> QED
    BY <2>2, <2>5
<1> QED
  BY <1>2, <1>3 DEF Backs, n

\* free keeps the invariant, whether or not it merges and whether or not the
\* merge panics.
LEMMA FreeKeeps ==
    ASSUME IInv, NEW addr, NEW size, free(addr, size)
    PROVE  IInv'
<1>1. CASE UNCHANGED <<areas, panicked, live>> /\ ret' = "false"
  BY <1>1 DEF IInv, TypeOK, AreasDisjoint, AreasCover, LiveBacked, NoLeak, LiveDisjoint
<1>2. CASE /\ HasArea(addr, size)
           /\ areas' = merge_adjacent([areas EXCEPT ![addr].dma_type = "Free"]).areas
           /\ panicked' = merge_adjacent([areas EXCEPT ![addr].dma_type = "Free"]).panics
           /\ live' = {r \in live : ~Within(r, addr, size)}
           /\ ret' = IF panicked' THEN ret ELSE "true"
  <2> DEFINE m    == [areas EXCEPT ![addr].dma_type = "Free"]
             rest == {r \in live : ~Within(r, addr, size)}
  <2>1. /\ GoodMap(areas) /\ Backs(areas, live) /\ live \in SUBSET Region
        /\ LiveDisjoint /\ \A r \in live : r.size > 0
    BY IInvParts
  <2>2. addr \in DOMAIN areas /\ areas[addr].size = size
    BY <1>2 DEF HasArea
  <2>3. GoodMap(m)
    BY <2>1, <2>2, MarkFreeGood
  <2>4. Backs(m, rest)
    BY <2>1, <2>2, FreedBacks
  <2>5. rest \in SUBSET Region
    BY <2>1
  <2> HIDE DEF m, rest
  <2>6. live' = rest
    BY <1>2 DEF rest
  <2>7. areas' = merge_adjacent(m).areas /\ panicked' = merge_adjacent(m).panics
    BY <1>2 DEF m
  <2>8. GoodMap(areas') /\ Backs(areas', rest) /\ panicked' \in BOOLEAN
    <3>1. CASE MergeableKeys(m) = {}
      BY <3>1, <2>3, <2>4, <2>7 DEF merge_adjacent
    <3>2. CASE MergeableKeys(m) # {}
      <4>1. areas' = MergeNext(m, Min(MergeableKeys(m))) /\ panicked' \in BOOLEAN
        BY <3>2, <2>7 DEF merge_adjacent
      <4> QED
        BY <4>1, <3>2, <2>3, <2>4, <2>5, MergeGood, MergeBacks
    <3> QED
      BY <3>1, <3>2
  <2>9. LiveDisjoint' /\ \A r \in live' : r.size > 0
    BY <1>2, <2>1 DEF LiveDisjoint
  <2>10. ret' \in {"none", "OK", "EINVAL", "ENOMEM", "true", "false"}
    BY <1>2 DEF IInv, TypeOK
  <2> QED
    BY <2>5, <2>6, <2>8, <2>9, <2>10
       DEF IInv, TypeOK, AreasDisjoint, AreasCover, LiveBacked, NoLeak, GoodMap, Backs
<1> QED
  BY <1>1, <1>2 DEF free

-----------------------------------------------------------------------------
(* The theorems. *)

\* The invariant is inductive, in a build with overflow checks.
THEOREM Inductive ==
    ASSUME OverflowChecks
    PROVE  Spec => []IInv
<1>1. Init => IInv
  <2>1. SUFFICES ASSUME Init PROVE IInv
    OBVIOUS
  <2>2. /\ DOMAIN areas = {0}
        /\ areas[0] = [size |-> TotalSize, dma_type |-> "Free"]
        /\ areas \in [{0} -> Area]
        /\ live = {}
    BY <2>1, PoolSize DEF Init, Area
  <2>3. GoodMap(areas)
    BY <2>2, PoolSize DEF GoodMap, Disjoint, Cover
  <2>4. Backs(areas, live)
    BY <2>2 DEF Backs
  <2> QED
    BY <2>1, <2>2, <2>3, <2>4, IInvParts DEF Init, LiveDisjoint
<1>2. IInv /\ [Next]_vars => IInv'
  <2>1. ASSUME IInv, NEW req \in Request, sce_kernel_allocate_direct_memory(req)
        PROVE  IInv'
    BY <2>1, AllocateKeeps
  <2>2. ASSUME IInv, NEW addr, NEW size, free(addr, size)
        PROVE  IInv'
    BY <2>2, FreeKeeps
  <2>3. ASSUME IInv, UNCHANGED vars
        PROVE  IInv'
    BY <2>3 DEF vars, IInv, TypeOK, AreasDisjoint, AreasCover, LiveBacked, NoLeak,
                LiveDisjoint
  <2> QED
    BY <2>1, <2>2, <2>3 DEF Next
<1> QED
  BY <1>1, <1>2, PTL DEF Spec

\* Type correctness of the allocator.
THEOREM TypeCorrect ==
    ASSUME OverflowChecks
    PROVE  Spec => []TypeOK
<1>1. IInv => TypeOK
  BY DEF IInv
<1> QED
  BY <1>1, Inductive, PTL

\* The areas always tile the pool: they are disjoint and lose no byte, through
\* every sequence of splits, merges and panics of merge_adjacent.
THEOREM PoolTiled ==
    ASSUME OverflowChecks
    PROVE  Spec => []AreasTile
<1>1. IInv => AreasTile
  BY DEF IInv, AreasTile
<1> QED
  BY <1>1, Inductive, PTL

\* No byte is handed out twice: the outstanding regions are disjoint, each
\* backed by an Allocated area, and nothing Allocated belongs to nobody.
THEOREM RegionsSafe ==
    ASSUME OverflowChecks
    PROVE  Spec => []LiveAccounted
<1>1. IInv => LiveAccounted
  BY DEF IInv, LiveAccounted
<1> QED
  BY <1>1, Inductive, PTL

\* The allocator implements DirectMemory, with free called with any arguments: an
\* area that is freed is made up of regions somebody held, or was free already.
THEOREM Refinement ==
    ASSUME OverflowChecks
    PROVE  Spec => RefinesDirectMemory
<1>1. Init => DM!Init
  BY DEF Init, DM!Init
<1>2. IInv /\ [Next]_vars => [DM!Next]_live
  <2>1. ASSUME IInv, NEW req \in Request, sce_kernel_allocate_direct_memory(req)
        PROVE  [DM!Next]_live
    <3>1. CASE UNCHANGED live
      BY <3>1
    <3>2. CASE /\ ~InvalidLength(req.len)
               /\ ScanFinds(areas, req)
               /\ live' = live \cup {[addr |-> ScanAddr(areas, req), size |-> req.len]}
      <4> DEFINE addr == ScanAddr(areas, req)
                 size == req.len
                 new  == [addr |-> addr, size |-> size]
      <4>1. PICK base : Splits(areas, base, addr, size)
        BY <2>1, <3>2, AllocateSplits
      <4>2. GoodMap(areas) /\ Backs(areas, live) /\ live \in SUBSET Region
        BY <2>1, IInvParts
      <4>3. \A s \in live : DM!Apart(new, s)
        BY <4>1, <4>2, SplitApart
      <4>4. /\ base \in Nat /\ areas[base].size \in Nat
            /\ base + areas[base].size <= TotalSize
            /\ addr \in Nat /\ size \in Nat \ {0}
            /\ base <= addr /\ addr + size <= base + areas[base].size
        BY <4>1, <4>2, EndOfArea DEF Splits
      <4>5. new \in DM!Region /\ new.addr + new.size <= TotalSize
        BY <4>4, PoolSize DEF DM!Region
      <4>6. DM!Allocate(new)
        BY <3>2, <4>3, <4>5 DEF DM!Allocate
      <4> QED
        BY <4>5, <4>6 DEF DM!Next
    <3> QED
      BY <2>1, <3>1, <3>2 DEF sce_kernel_allocate_direct_memory
  <2>2. ASSUME IInv, NEW addr \in 0 .. TotalSize - 1, NEW size \in 1 .. TotalSize,
               free(addr, size)
        PROVE  [DM!Next]_live
    <3> DEFINE r == [addr |-> addr, size |-> size]
               S == {s \in live : Within(s, addr, size)}
    <3>1. CASE UNCHANGED live
      BY <3>1
    <3>2. CASE HasArea(addr, size) /\ live' = {s \in live : ~Within(s, addr, size)}
      <4>1. /\ GoodMap(areas) /\ Backs(areas, live) /\ live \subseteq Region
            /\ \A s \in live : s.size > 0
            /\ addr \in DOMAIN areas /\ areas[addr].size = size
        BY <2>2, <3>2, IInvParts DEF HasArea
      <4>2. ASSUME NEW s \in live, NEW x \in Nat,
                   s.addr <= x, x < s.addr + s.size, addr <= x, x < addr + size
            PROVE  areas[addr].dma_type = "Allocated" /\ Within(s, addr, size)
        <5>1. PICK b \in DOMAIN areas :
                  areas[b].dma_type = "Allocated" /\ Within(s, b, areas[b].size)
          BY <4>1 DEF Backs
        <5>2. /\ b \in Nat /\ areas[b].size \in Nat
              /\ s.addr \in Nat /\ s.size \in Nat
          BY <4>1, EndOfArea DEF Region
        <5>3. b <= x /\ x < b + areas[b].size
          BY <4>2, <5>1, <5>2 DEF Within
        <5>4. b = addr
          BY <4>1, <4>2, <5>3, OneArea
        <5> QED
          BY <4>1, <5>1, <5>4
      <4>3. live' = live \ S
        BY <3>2
      <4>4. CASE areas[addr].dma_type = "Allocated"
        <5>1. ASSUME NEW x \in addr .. addr + size - 1
              PROVE  \E s \in S : s.addr <= x /\ x < s.addr + s.size
          <6>1. PICK s \in live : s.addr <= x /\ x < s.addr + s.size
            BY <4>1, <4>4 DEF Backs
          <6>2. x \in Nat /\ addr <= x /\ x < addr + size
            BY PoolSize
          <6>3. Within(s, addr, size)
            BY <4>2, <6>1, <6>2
          <6> QED
            BY <6>1, <6>3
        <5>2. DM!Tile(S, r)
          BY <5>1 DEF DM!Tile, Within
        <5>3. DM!Release(r)
          BY <4>3, <5>2 DEF DM!Release
        <5>4. r \in DM!Region
          BY DEF DM!Region
        <5> QED
          BY <5>3, <5>4 DEF DM!Next
      <4>5. CASE areas[addr].dma_type # "Allocated"
        <5>1. ASSUME NEW s \in live, Within(s, addr, size)
              PROVE  FALSE
          <6>1. s.addr \in Nat /\ s.size \in Nat /\ s.size > 0
            BY <4>1 DEF Region
          <6>2. addr <= s.addr /\ s.addr < addr + size /\ s.addr < s.addr + s.size
            BY <5>1, <6>1, PoolSize DEF Within
          <6> QED
            BY <4>2, <4>5, <6>1, <6>2
        <5> QED
          BY <4>3, <5>1
      <4> QED
        BY <4>4, <4>5
    <3> QED
      BY <2>2, <3>1, <3>2 DEF free
  <2>3. ASSUME UNCHANGED vars
        PROVE  [DM!Next]_live
    BY <2>3 DEF vars
  <2> QED
    BY <2>1, <2>2, <2>3 DEF Next
<1> QED
  BY <1>1, <1>2, Inductive, PTL DEF Spec, RefinesDirectMemory, DM!Spec

-----------------------------------------------------------------------------
(* The scan finds the lowest fit. *)

\* No two free areas touch: what merge_adjacent is for.
FreeApart(m) ==
    \A b \in FreeBases(m), c \in FreeBases(m) : b + m[b].size # c

\* Cutting a region out of a free area leaves its neighbours as they were.
LEMMA SplitKeepsApart ==
    ASSUME NEW m, GoodMap(m), FreeApart(m), NEW base, NEW addr, NEW size,
           Splits(m, base, addr, size)
    PROVE  FreeApart(SplitMap(m, base, addr, size))
<1> DEFINE n    == SplitMap(m, base, addr, size)
           stop == addr + size
           last == base + m[base].size
<1>1. /\ base \in FreeBases(m) /\ addr \in Nat /\ size \in Nat \ {0}
      /\ base <= addr /\ stop <= last
      /\ base \in Nat /\ m[base].size \in Nat
  BY EndOfArea DEF Splits, FreeBases
<1> SplitInto(m, n, base, addr, size)
  BY SplitAreas
<1> HIDE DEF n
<1>2. /\ n[addr].dma_type = "Allocated"
      /\ addr > base => n[base].size = addr - base
      /\ stop < last => n[stop].size = last - stop
      /\ \A b \in DOMAIN m \ {base} : n[b] = m[b] /\ (b < base \/ b >= last)
      /\ \A b \in DOMAIN n :
            \/ b \in DOMAIN m \ {base}
            \/ b = addr
            \/ b = base /\ addr > base
            \/ b = stop /\ stop < last
  <2>1. /\ n[addr] = [size |-> size, dma_type |-> "Allocated"]
        /\ addr > base =>
              base \in DOMAIN n /\ n[base] = [size |-> addr - base, dma_type |-> "Free"]
        /\ stop < base + m[base].size =>
              /\ stop \in DOMAIN n
              /\ n[stop] = [size |-> base + m[base].size - stop, dma_type |-> "Free"]
    BY DEF SplitInto
  <2>2. /\ \A b \in DOMAIN m \ {base} : n[b] = m[b] /\ (b < base \/ b >= last)
        /\ \A b \in DOMAIN n :
              \/ b \in DOMAIN m \ {base}
              \/ b = addr
              \/ b = base /\ addr > base
              \/ b = stop /\ stop < last
    BY DEF SplitInto
  <2>3. n[addr].dma_type = "Allocated"
    BY <2>1
  <2>4. ASSUME addr > base PROVE n[base].size = addr - base
    BY <2>1, <2>4
  <2>5. ASSUME stop < last PROVE n[stop].size = last - stop
    <3>1. n[stop] = [size |-> last - stop, dma_type |-> "Free"]
      BY <1>1, <2>1, <2>5
    <3> HIDE DEF stop, last
    <3> QED
      BY <3>1
  <2> HIDE DEF stop, last
  <2> QED
    BY <2>2, <2>3, <2>4, <2>5
<1>3. \A b \in FreeBases(n) :
         \/ b \in FreeBases(m) \ {base}
         \/ b = base /\ addr > base
         \/ b = stop /\ stop < last
  BY <1>2 DEF FreeBases
<1>4. \A b \in FreeBases(m) : b \in Nat /\ m[b].size \in Nat /\ m[b].size > 0
  BY EndOfArea DEF FreeBases
<1>5. \A b \in FreeBases(m) \ {base} : n[b].size = m[b].size /\ (b < base \/ b >= last)
                                       /\ (b < base => b + m[b].size <= base)
  BY <1>1, <1>2 DEF FreeBases, GoodMap, Disjoint
<1>6. \A b \in FreeBases(m), c \in FreeBases(m) : b + m[b].size # c
  BY DEF FreeApart
<1>7. ASSUME NEW b \in FreeBases(n), NEW c \in FreeBases(n) PROVE b + n[b].size # c
  <2>1. CASE b \in FreeBases(m) \ {base} /\ c \in FreeBases(m) \ {base}
    BY <1>5, <1>6, <2>1
  <2>2. CASE b \in FreeBases(m) \ {base} /\ c = base
    BY <1>1, <1>5, <1>6, <2>2
  <2>3. CASE b \in FreeBases(m) \ {base} /\ c = stop
    <3> DEFINE z == m[b].size
    <3>1. /\ n[b].size = z /\ b \in Nat /\ z \in Nat /\ z > 0
          /\ b < base \/ b >= last
          /\ b < base => b + z <= base
      BY <1>4, <1>5, <2>3
    <3> HIDE DEF z
    <3>2. /\ base \in Nat /\ last \in Nat /\ addr \in Nat /\ size \in Nat /\ size > 0
          /\ base <= addr /\ addr + size <= last
      BY <1>1
    <3> HIDE DEF last
    <3>3. b + z # addr + size
      BY <3>1, <3>2
    <3> QED
      BY <2>3, <3>1, <3>3
  <2>4. CASE b = base /\ addr > base
    <3>1. b + n[b].size = addr
      BY <1>1, <1>2, <2>4
    <3>2. c # addr
      BY <1>2 DEF FreeBases
    <3> QED
      BY <3>1, <3>2
  <2>5. CASE b = stop /\ stop < last
    <3>1. b + n[b].size = last
      BY <1>1, <1>2, <2>5
    <3>2. c \in FreeBases(m) \ {base} => c # last
      BY <1>1, <1>6
    <3>3. c = base \/ c = stop => c # last
      BY <1>1, <2>5
    <3> QED
      BY <1>3, <3>1, <3>2, <3>3
  <2> QED
    BY <1>3, <2>1, <2>2, <2>3, <2>4, <2>5
<1> QED
  BY <1>7 DEF FreeApart, n

\* Two areas of the same type that touch are a pair for merge_adjacent.
LEMMA TouchingMerge ==
    ASSUME NEW m, GoodMap(m), NEW b \in DOMAIN m, NEW c \in DOMAIN m,
           b + m[b].size = c, m[b].dma_type = m[c].dma_type
    PROVE  b \in MergeableKeys(m)
<1>1. /\ b \in Nat /\ c \in Nat /\ m[b].size \in Nat /\ m[b].size > 0
      /\ end(m, b) = c
  BY EndOfArea
<1>2. c \in NextKeys(m, b) /\ NextKeys(m, b) \in SUBSET Nat
  BY <1>1, EndOfArea DEF NextKeys
<1>3. \A d \in NextKeys(m, b) : c <= d
  BY DEF NextKeys, GoodMap, Disjoint
<1>4. Min(NextKeys(m, b)) = c
  <2>1. Min(NextKeys(m, b)) \in NextKeys(m, b) /\ Min(NextKeys(m, b)) <= c
    BY <1>2, MinOfNaturals
  <2>2. c <= Min(NextKeys(m, b)) /\ Min(NextKeys(m, b)) \in Nat
    BY <1>2, <1>3, <2>1
  <2> QED
    BY <1>1, <2>1, <2>2
<1> QED
  BY <1>1, <1>2, <1>4 DEF MergeableKeys, can_merge_with

\* If merge_adjacent does not panic, no two free areas touch after it.
LEMMA MergeApart ==
    ASSUME NEW m, GoodMap(m), ~merge_adjacent(m).panics
    PROVE  FreeApart(merge_adjacent(m).areas)
<1>1. CASE MergeableKeys(m) = {}
  <2>1. merge_adjacent(m).areas = m
    BY <1>1 DEF merge_adjacent
  <2>2. FreeApart(m)
    BY <1>1, TouchingMerge DEF FreeApart, FreeBases
  <2> QED
    BY <2>1, <2>2
<1>2. CASE MergeableKeys(m) # {}
  <2> DEFINE first == Min(MergeableKeys(m))
             next  == Min(NextKeys(m, first))
             n     == MergeNext(m, first)
  <2>1. merge_adjacent(m).areas = n /\ NextKeys(m, next) = {}
    BY <1>2 DEF merge_adjacent
  <2>2. /\ first \in DOMAIN m /\ next \in DOMAIN m
        /\ next = first + m[first].size
        /\ n \in [DOMAIN m \ {next} -> Area]
        /\ n[first].size = m[first].size + m[next].size
        /\ n[first].dma_type = m[first].dma_type
        /\ \A b \in DOMAIN m \ {first, next} : n[b] = m[b]
    BY <1>2, MergePair
  <2>3. \A b \in MergeableKeys(m) : first <= b /\ b \in DOMAIN m
    <3>1. MergeableKeys(m) \in SUBSET Nat
      BY EndOfArea DEF MergeableKeys
    <3> QED
      BY <1>2, <3>1, MinOfNaturals DEF MergeableKeys
  <2>4. \A b \in DOMAIN m : b \in Nat /\ m[b].size \in Nat /\ m[b].size > 0
    BY EndOfArea
  <2>5. \A b \in DOMAIN m : ~(b > next)
    BY <2>1 DEF NextKeys
  <2>6. DOMAIN n = DOMAIN m \ {next}
    BY <2>2
  <2> HIDE DEF first, next, n
  <2>7. ASSUME NEW b \in FreeBases(n), NEW c \in FreeBases(n), b + n[b].size = c
        PROVE  FALSE
    <3>1. /\ b \in DOMAIN m \ {next} /\ c \in DOMAIN m \ {next}
          /\ n[b].dma_type = "Free" /\ n[c].dma_type = "Free"
      BY <2>6 DEF FreeBases
    <3>2. m[b].dma_type = "Free" /\ m[c].dma_type = "Free"
      BY <2>2, <3>1
    <3>3. CASE b = first
      <4>1. c = next + m[next].size /\ m[next].size > 0 /\ m[next].size \in Nat /\ next \in Nat
        BY <2>2, <2>4, <2>7, <3>3
      <4>2. c > next
        BY <4>1
      <4> QED
        BY <2>5, <3>1, <4>2
    <3>4. CASE b # first
      <4>1. b + m[b].size = c
        BY <2>2, <2>7, <3>1, <3>4
      <4>2. b \in MergeableKeys(m)
        BY <3>1, <3>2, <4>1, TouchingMerge
      <4>3. first < b /\ first \in Nat /\ b \in Nat /\ next \in Nat
        BY <2>2, <2>3, <2>4, <3>1, <3>4, <4>2
      <4>4. next <= b
        BY <2>2, <3>1, <4>3 DEF GoodMap, Disjoint
      <4>5. b > next
        BY <3>1, <4>3, <4>4
      <4> QED
        BY <2>5, <3>1, <4>5
    <3> QED
      BY <3>3, <3>4
  <2>8. FreeApart(n)
    BY <2>7 DEF FreeApart
  <2> QED
    BY <2>1, <2>8
<1> QED
  BY <1>1, <1>2

\* The multiples of a number.
LEMMA Multiples ==
    ASSUME NEW a \in Nat \ {0}, NEW q \in Int
    PROVE  (a * q) % a = 0
<1> DEFINE p == (a * q) \div a
           r == (a * q) % a
<1>1. a * q \in Int /\ p \in Int /\ r \in 0 .. a - 1 /\ a * q = a * p + r
  OBVIOUS
<1> HIDE DEF p, r
<1>2. a * (q - p) = r
  BY <1>1
<1>3. q - p <= 0
  <2>1. SUFFICES ASSUME q - p >= 1 PROVE FALSE
    BY <1>1
  <2>2. a * (q - p) >= a
    BY <1>1, <2>1
  <2> QED
    BY <1>1, <1>2, <2>2
<1>4. a * (q - p) <= 0
  BY <1>1, <1>3
<1>5. r = 0
  BY <1>1, <1>2, <1>4
<1> QED
  BY <1>5 DEF r

\* Rounding up gives the next multiple.
LEMMA AlignUp ==
    ASSUME NEW v \in Nat, NEW a \in Nat \ {0}, v + (a - 1) < Word
    PROVE  /\ align_up(v, a) \in Nat /\ v <= align_up(v, a)
           /\ is_aligned(align_up(v, a), a)
           /\ \A x \in Nat : v <= x /\ is_aligned(x, a) => align_up(v, a) <= x
<1> DEFINE s == v + (a - 1)
           q == s \div a
           r == s % a
<1>1. /\ s \in Nat /\ q \in Int /\ r \in 0 .. a - 1 /\ s = a * q + r
  OBVIOUS
<1>2. align_up(v, a) = s - r
  BY DEF align_up, Plus
<1> HIDE DEF q, r
<1>3. s - r = a * q /\ s - r \in Nat /\ v <= s - r
  BY <1>1
<1>4. (s - r) % a = 0
  BY <1>1, <1>3, Multiples
<1>5. ASSUME NEW x \in Nat, v <= x, x % a = 0
      PROVE  s - r <= x
  <2> DEFINE p == x \div a
  <2>1. p \in Int /\ x = a * p
    BY <1>5
  <2> HIDE DEF p
  <2>2. SUFFICES ASSUME a * q > a * p PROVE FALSE
    BY <1>1, <1>3, <2>1
  <2>3. q >= p + 1
    <3>1. SUFFICES ASSUME q <= p PROVE FALSE
      BY <1>1, <2>1
    <3>2. a * q <= a * p
      BY <1>1, <2>1, <3>1
    <3> QED
      BY <1>1, <2>1, <2>2, <3>2
  <2>4. a * q >= a * p + a
    BY <1>1, <2>1, <2>3
  <2> QED
    BY <1>1, <1>3, <1>5, <2>1, <2>4
<1> QED
  BY <1>2, <1>3, <1>4, <1>5 DEF is_aligned

\* The address the scan answers with is one the request may be given.
LEMMA FoundFits ==
    ASSUME OverflowChecks, GoodMap(areas), NEW req \in Request,
           ~InvalidLength(req.len), ScanFinds(areas, req)
    PROVE  ScanAddr(areas, req) \in Fits(req)
<1> DEFINE base  == Min(ScanStops(areas, req))
           addr  == ScanAddr(areas, req)
           align == Larger(req.align, PAGE_SIZE)
           from  == Larger(base, req.start)
<1>1. Splits(areas, base, addr, req.len)
  BY ScanSplits
<1>2. /\ base \in DOMAIN areas /\ areas[base].dma_type = "Free"
      /\ addr \in Nat /\ req.len \in Nat \ {0} /\ base <= addr
      /\ addr + req.len <= base + areas[base].size
  BY <1>1 DEF Splits
<1>3. /\ base \in Nat /\ areas[base].size \in Nat
      /\ base + areas[base].size <= TotalSize
  BY <1>2, EndOfArea
<1>4. base \in ScanStops(areas, req)
  <2>1. ScanStops(areas, req) \in SUBSET Nat /\ ScanStops(areas, req) # {}
    BY EndOfArea DEF ScanStops, FreeBases, ScanFinds
  <2> QED
    BY <2>1, MinOfNaturals
<1>5. ~AreaOverflows(base, req) /\ AreaFits(areas, base, req)
  BY <1>4 DEF ScanStops, ScanFinds
<1>6. /\ align \in Nat \ {0} /\ from \in Nat /\ from >= req.start
      /\ req.start \in Nat /\ req.stop \in Nat
  BY <1>3, RequestType DEF Larger
<1>7. addr = align_up(from, align)
  BY DEF ScanAddr, aligned_base
<1>8. from + (align - 1) < Word /\ addr + req.len < Word
  <2>1. ~(from + (align - 1) >= Word) /\ ~(aligned_base(base, req) + req.len >= Word)
    BY <1>5 DEF AreaOverflows, Overflows
  <2>2. aligned_base(base, req) = addr
    BY DEF ScanAddr
  <2> QED
    BY <1>2, <1>6, <2>1, <2>2, PoolSize
<1>9. Plus(addr, req.len) <= req.stop
  BY <1>5 DEF AreaFits, ScanAddr
<1> HIDE DEF base, addr, align, from
<1>10. is_aligned(addr, align) /\ from <= addr
  BY <1>6, <1>7, <1>8, AlignUp
<1>11. addr + req.len <= req.stop
  BY <1>8, <1>9 DEF Plus
<1>12. ASSUME NEW y \in addr .. addr + req.len - 1
       PROVE  ByteFree(y)
  <2>1. base \in FreeBases(areas)
    BY <1>2 DEF FreeBases
  <2>2. base <= y /\ y < base + areas[base].size
    BY <1>2, <1>3
  <2> QED
    BY <2>1, <2>2 DEF ByteFree
<1>13. addr \in 0 .. TotalSize - 1 /\ addr + req.len <= TotalSize /\ addr >= req.start
  BY <1>2, <1>3, <1>6, <1>10, PoolSize
<1>14. is_aligned(addr, Larger(req.align, PAGE_SIZE))
  BY <1>10 DEF align
<1>15. addr \in Fits(req)
  BY <1>11, <1>12, <1>13, <1>14 DEF Fits
<1> QED
  BY <1>15 DEF addr

\* A run of free bytes lies in one free area, when free areas do not touch.
LEMMA RunInOneArea ==
    ASSUME GoodMap(areas), FreeApart(areas),
           NEW x \in Nat, NEW len \in Nat \ {0}, x + len <= TotalSize,
           \A y \in x .. x + len - 1 : ByteFree(y)
    PROVE  \E b \in FreeBases(areas) : b <= x /\ x + len <= b + areas[b].size
<1>1. PICK b \in FreeBases(areas) : b <= x /\ x < b + areas[b].size
  BY DEF ByteFree
<1> DEFINE last == b + areas[b].size
<1>2. b \in DOMAIN areas /\ b \in Nat /\ areas[b].size \in Nat /\ last \in Nat
  BY EndOfArea DEF FreeBases
<1>3. SUFFICES ASSUME last < x + len PROVE FALSE
  BY <1>1, <1>2
<1>4. last \in x .. x + len - 1
  BY <1>1, <1>2, <1>3
<1>5. PICK c \in FreeBases(areas) : c <= last /\ last < c + areas[c].size
  BY <1>4 DEF ByteFree
<1>6. c \in DOMAIN areas /\ c \in Nat /\ areas[c].size \in Nat
  BY EndOfArea DEF FreeBases
<1>7. c # last
  BY DEF FreeApart
<1>8. c < last
  BY <1>2, <1>5, <1>6, <1>7
<1>9. c <= b
  BY <1>2, <1>6, <1>8 DEF GoodMap, Disjoint
<1>10. c # b
  BY <1>2, <1>5
<1>11. c + areas[c].size <= b
  BY <1>2, <1>6, <1>9, <1>10 DEF GoodMap, Disjoint
<1> HIDE DEF last
<1>12. b <= last
  BY <1>2 DEF last
<1> QED
  BY <1>2, <1>5, <1>6, <1>11, <1>12

\* The scan stops at the area of every address the request may be given, and
\* answers with an address no higher unless it stops before.
LEMMA FitIsSeen ==
    ASSUME OverflowChecks, GoodMap(areas), FreeApart(areas), NEW req \in Request,
           ~InvalidLength(req.len), NEW x \in Fits(req)
    PROVE  \E b \in ScanStops(areas, req) :
              b <= x /\ (AreaOverflows(b, req) \/ aligned_base(b, req) <= x)
<1> DEFINE align == Larger(req.align, PAGE_SIZE)
           len   == req.len
<1>1. /\ x \in Nat /\ is_aligned(x, align) /\ x >= req.start
      /\ x + len <= req.stop /\ x + len <= TotalSize
      /\ \A y \in x .. x + len - 1 : ByteFree(y)
  BY PoolSize DEF Fits
<1>2. len \in Nat \ {0} /\ req.start \in Nat /\ req.stop \in Nat
  BY RequestType DEF InvalidLength
<1>3. PICK b \in FreeBases(areas) : b <= x /\ x + len <= b + areas[b].size
  BY <1>1, <1>2, RunInOneArea
<1> DEFINE from == Larger(b, req.start)
           addr == aligned_base(b, req)
           last == b + areas[b].size
<1>4. /\ b \in Nat /\ areas[b].size \in Nat /\ end(areas, b) = last
      /\ last <= TotalSize /\ last \in Nat
  BY EndOfArea DEF FreeBases
<1>5. /\ align \in Nat \ {0} /\ from \in Nat /\ from >= b /\ from <= x
  BY <1>1, <1>2, <1>3, <1>4, RequestType DEF Larger
<1>6. CASE AreaOverflows(b, req)
  BY <1>3, <1>6 DEF ScanStops
<1>7. CASE ~AreaOverflows(b, req)
  <2>1. from + (align - 1) < Word
    <3>1. ~(from + (align - 1) >= Word)
      BY <1>7 DEF AreaOverflows, Overflows
    <3> QED
      BY <1>5, <3>1, PoolSize
  <2>2. addr = align_up(from, align)
    BY DEF aligned_base
  <2> HIDE DEF addr, from, align, last, len
  <2>3. addr \in Nat /\ from <= addr /\ addr <= x
    BY <1>1, <1>5, <2>1, <2>2, AlignUp
  <2>4. Plus(addr, len) = addr + len
    BY <1>1, <1>2, <2>3, PoolSize DEF Plus
  <2>5. addr >= b /\ addr + len <= last /\ addr + len <= req.stop
    <3>1. b <= from /\ b \in Nat /\ from \in Nat /\ last \in Nat /\ x + len <= last
      BY <1>3, <1>4, <1>5 DEF last
    <3> QED
      BY <1>1, <1>2, <2>3, <3>1
  <2>6. AreaFits(areas, b, req)
    BY <1>4, <2>4, <2>5 DEF AreaFits, addr, len
  <2>7. b \in ScanStops(areas, req)
    BY <2>6 DEF ScanStops
  <2> QED
    BY <1>3, <2>3, <2>7 DEF addr
<1> QED
  BY <1>6, <1>7

\* On a map whose free areas do not touch, the scan answers with the least
\* address the request may be given.
LEMMA ScanIsLowest ==
    ASSUME OverflowChecks, GoodMap(areas), FreeApart(areas), NEW req \in Request,
           ~InvalidLength(req.len), ~ScanPanics(areas, req)
    PROVE  IF Fits(req) = {} THEN ScanStops(areas, req) = {}
           ELSE ScanFinds(areas, req) /\ ScanAddr(areas, req) = Min(Fits(req))
<1> DEFINE base == Min(ScanStops(areas, req))
           addr == ScanAddr(areas, req)
<1>1. ScanStops(areas, req) # {} => ScanFinds(areas, req)
  BY DEF ScanPanics, ScanFinds
<1>2. CASE Fits(req) = {}
  BY <1>1, <1>2, FoundFits
<1>3. CASE Fits(req) # {}
  <2>1. ScanStops(areas, req) # {}
    BY <1>3, FitIsSeen
  <2>2. ScanFinds(areas, req) /\ addr \in Fits(req)
    BY <1>1, <2>1, FoundFits
  <2>3. /\ ScanStops(areas, req) \in SUBSET Nat
        /\ \A b \in ScanStops(areas, req) : b \in DOMAIN areas
    BY EndOfArea DEF ScanStops, FreeBases
  <2>4. base \in ScanStops(areas, req) /\ \A b \in ScanStops(areas, req) : base <= b
    BY <2>1, <2>3, MinOfNaturals
  <2>5. Splits(areas, base, addr, req.len)
    BY <2>2, ScanSplits
  <2>6. /\ addr \in Nat /\ req.len \in Nat \ {0} /\ base \in DOMAIN areas /\ base \in Nat
        /\ areas[base].size \in Nat
        /\ addr + req.len <= base + areas[base].size
    BY <2>5, EndOfArea DEF Splits
  <2>7. ~AreaOverflows(base, req) /\ addr = aligned_base(base, req)
    BY <2>2 DEF ScanFinds, ScanAddr
  <2> HIDE DEF base, addr
  <2>8. ASSUME NEW x \in Fits(req) PROVE addr <= x
    <3>1. x \in Nat
      BY PoolSize DEF Fits
    <3>2. PICK b \in ScanStops(areas, req) :
             b <= x /\ (AreaOverflows(b, req) \/ aligned_base(b, req) <= x)
      BY FitIsSeen
    <3>3. b \in Nat /\ b \in DOMAIN areas /\ base <= b
      BY <2>3, <2>4
    <3>4. CASE b = base
      BY <2>7, <3>2, <3>4
    <3>5. CASE b # base
      <4>1. base + areas[base].size <= b
        BY <2>6, <3>3, <3>5 DEF GoodMap, Disjoint
      <4> QED
        BY <2>6, <3>1, <3>2, <3>3, <4>1
    <3> QED
      BY <3>4, <3>5
  <2>9. Fits(req) \in SUBSET Nat
    BY PoolSize DEF Fits
  <2>10. Min(Fits(req)) \in Fits(req) /\ Min(Fits(req)) <= addr
    BY <1>3, <2>2, <2>9, MinOfNaturals
  <2>11. addr = Min(Fits(req))
    BY <2>6, <2>8, <2>9, <2>10
  <2> QED
    BY <1>3, <2>2, <2>11 DEF addr
<1> QED
  BY <1>2, <1>3

\* What LowestFit needs beside IInv: free areas do not touch, as long as no call
\* has panicked.
ApartInv == panicked \/ FreeApart(areas)

\* No call leaves two free areas touching, unless it panics.
LEMMA ApartKept ==
    ASSUME OverflowChecks, IInv, ApartInv, [Next]_vars
    PROVE  ApartInv'
<1>1. GoodMap(areas)
  BY IInvParts
<1>2. ASSUME NEW req \in Request, sce_kernel_allocate_direct_memory(req)
      PROVE  ApartInv'
  <2>1. CASE UNCHANGED areas
    BY <1>2, <2>1 DEF sce_kernel_allocate_direct_memory, ApartInv, FreeApart, FreeBases
  <2>2. CASE /\ ~InvalidLength(req.len)
             /\ ScanFinds(areas, req)
             /\ areas' = Allocated(areas, req)
    <3>1. FreeApart(areas)
      BY <1>2 DEF sce_kernel_allocate_direct_memory, ApartInv
    <3>2. PICK base :
             /\ Splits(areas, base, ScanAddr(areas, req), req.len)
             /\ areas' = SplitMap(areas, base, ScanAddr(areas, req), req.len)
      BY <2>2, AllocateSplits
    <3>3. FreeApart(areas')
      BY <1>1, <3>1, <3>2, SplitKeepsApart
    <3> QED
      BY <3>3 DEF ApartInv, FreeApart, FreeBases
  <2> QED
    BY <1>2, <2>1, <2>2 DEF sce_kernel_allocate_direct_memory
<1>3. ASSUME NEW addr, NEW size, free(addr, size)
      PROVE  ApartInv'
  <2> DEFINE m == [areas EXCEPT ![addr].dma_type = "Free"]
  <2>1. CASE UNCHANGED <<areas, panicked>>
    BY <2>1 DEF ApartInv, FreeApart, FreeBases
  <2>2. CASE /\ HasArea(addr, size)
             /\ areas' = merge_adjacent(m).areas
             /\ panicked' = merge_adjacent(m).panics
    <3>1. GoodMap(m)
      BY <1>1, <2>2, MarkFreeGood DEF HasArea
    <3> HIDE DEF m
    <3>2. ~panicked' => FreeApart(areas')
      BY <2>2, <3>1, MergeApart
    <3> QED
      BY <3>2 DEF ApartInv, FreeApart, FreeBases
  <2> QED
    BY <1>3, <2>1, <2>2 DEF free
<1>4. CASE UNCHANGED vars
  BY <1>4 DEF vars, ApartInv, FreeApart, FreeBases
<1> QED
  BY <1>2, <1>3, <1>4 DEF Next

\* The first-fit scan of allocate, which tries one area at a time, always answers
\* with the lowest run of free bytes, and refuses only when there is none.
THEOREM ScanAlwaysLowest ==
    ASSUME OverflowChecks
    PROVE  Spec => []LowestFit
<1>1. Init => ApartInv
  <2>1. SUFFICES ASSUME Init PROVE FreeApart(areas)
    BY DEF ApartInv
  <2>2. DOMAIN areas = {0} /\ areas[0].size = TotalSize
    BY <2>1 DEF Init
  <2> QED
    BY <2>2, PoolSize DEF FreeApart, FreeBases
<1>2. IInv /\ ApartInv /\ [Next]_vars => ApartInv'
  BY ApartKept
<1>3. IInv /\ ApartInv => LowestFit
  <2>1. SUFFICES ASSUME IInv, ApartInv, ~panicked, NEW req \in Request,
                        ~InvalidLength(req.len), ~ScanPanics(areas, req)
                 PROVE  IF Fits(req) = {} THEN ScanStops(areas, req) = {}
                        ELSE /\ ScanFinds(areas, req)
                             /\ ScanAddr(areas, req) = Min(Fits(req))
    BY DEF LowestFit
  <2>2. GoodMap(areas) /\ FreeApart(areas)
    BY <2>1, IInvParts DEF ApartInv
  <2> QED
    BY <2>1, <2>2, ScanIsLowest
<1> QED
  BY <1>1, <1>2, <1>3, Inductive, PTL DEF Spec

=============================================================================
