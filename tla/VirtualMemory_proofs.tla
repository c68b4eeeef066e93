------------------------ MODULE VirtualMemory_proofs ------------------------
(***************************************************************************)
(* Proofs about the VMA map and the host mappings under it, for every page *)
(* size, user space and set of requests.  All of them rest on one lemma,   *)
(* Replaced: what carve_vma followed by insert does to a map of disjoint   *)
(* VMAs.                                                                   *)
(***************************************************************************)
EXTENDS VirtualMemory, TLAPS, WellFoundedInduction

\* The arithmetic facts about the constants that the proofs below need.
LEMMA Arithmetic ==
    /\ PAGE_SIZE \in Nat \ {0} /\ HostTop \in Nat /\ Word \in Nat
    /\ UserBase \in Nat \ {0} /\ UserSize \in Nat \ {0}
    /\ UserBase + UserSize <= HostTop
    /\ HostTop + PAGE_SIZE < Word
BY VirtualMemoryAssumption, WordAssumption

\* align_up of a u64 is a u64 on a boundary, even where the sum wraps.
LEMMA AlignUpType ==
    ASSUME NEW value \in Nat, value < Word
    PROVE  /\ align_up(value, PAGE_SIZE) \in Nat
           /\ is_aligned(align_up(value, PAGE_SIZE), PAGE_SIZE)
<1> DEFINE sum == Plus(value, PAGE_SIZE - 1)
<1>1. sum \in Nat
  BY Arithmetic DEF Plus
<1> HIDE DEF sum
<1>2. PICK q \in Nat, r \in 0 .. PAGE_SIZE - 1 : sum = q * PAGE_SIZE + r /\ sum % PAGE_SIZE = r
  BY <1>1, Arithmetic
<1>3. align_up(value, PAGE_SIZE) = q * PAGE_SIZE
  BY <1>2, Arithmetic DEF align_up, sum
<1>4. q * PAGE_SIZE \in Nat /\ (q * PAGE_SIZE) % PAGE_SIZE = 0
  BY <1>2, Arithmetic
<1> QED
  BY <1>3, <1>4 DEF is_aligned

\* The aligned base of a page of the host lies at or behind it.
LEMMA AlignedBaseAbove ==
    ASSUME NEW b \in Pages
    PROVE  AlignedBase(b) \in Nat /\ b <= AlignedBase(b) /\ is_aligned(AlignedBase(b), PAGE_SIZE)
<1>1. b \in Nat /\ b < Word /\ Plus(b, PAGE_SIZE - 1) = b + PAGE_SIZE - 1
  BY Arithmetic DEF Pages, Plus
<1>2. (b + PAGE_SIZE - 1) % PAGE_SIZE \in 0 .. PAGE_SIZE - 1
  BY <1>1, Arithmetic
<1>3. b <= AlignedBase(b)
  BY <1>1, <1>2, Arithmetic DEF AlignedBase, align_up
<1> QED
  BY <1>1, <1>3, AlignUpType DEF AlignedBase

\* A non-empty set of naturals has a least element, and Min names it: the scan of
\* find_free_region in address order.
LEMMA MinOfNaturals ==
    ASSUME NEW S \in SUBSET Nat, S # {}
    PROVE  Min(S) \in S /\ \A y \in S : Min(S) <= y
<1>1. PICK x \in S : \A y \in S : ~(<<y, x>> \in OpToRel(<, Nat))
  BY NatLessThanWellFounded, WFMin
<1>2. \A y \in S : x <= y
  <2>1. SUFFICES ASSUME NEW y \in S, y < x PROVE FALSE
    OBVIOUS
  <2>2. <<y, x>> \in OpToRel(<, Nat)
    BY <2>1 DEF OpToRel
  <2> QED
    BY <1>1, <2>2
<1> QED
  BY <1>1, <1>2 DEF Min

-----------------------------------------------------------------------------
(* The VMA map. *)

VmaRecord ==
    [size : Nat, vma_type : {"Free", "Direct", "Flexible"}, prot : SUBSET {"R", "W", "X"}]

\* The VMA at b of the map m holds the page p.
Holds(m, b, p) == b <= p /\ p < b + m[b].size

\* A map the code can hold: disjoint, non-empty VMAs inside the host's address space.
GoodMap(m) ==
    /\ DOMAIN m \subseteq Pages
    /\ m \in [DOMAIN m -> VmaRecord]
    /\ \A b \in DOMAIN m : m[b].size > 0 /\ b + m[b].size <= HostTop
    /\ \A b, c \in DOMAIN m : b < c => b + m[b].size <= c

\* What a good map says of one VMA.
LEMMA VmaFacts ==
    ASSUME NEW m, GoodMap(m), NEW b \in DOMAIN m
    PROVE  /\ b \in Nat /\ b < HostTop
           /\ m[b] \in VmaRecord
           /\ m[b].size \in Nat /\ m[b].size > 0
           /\ b + m[b].size <= HostTop
<1>1. b \in Pages /\ m[b] \in VmaRecord
  BY DEF GoodMap
<1> QED
  BY <1>1, Arithmetic DEF GoodMap, Pages, VmaRecord

\* Two VMAs of a good map that hold the same page are the same VMA.
LEMMA OneVma ==
    ASSUME NEW m, GoodMap(m), NEW b \in DOMAIN m, NEW c \in DOMAIN m,
           NEW p \in Nat, Holds(m, b, p), Holds(m, c, p)
    PROVE  b = c
BY VmaFacts DEF GoodMap, Holds

\* The keys of a map after carve_vma and insert, and what is under them: the new
\* VMA, the VMAs that do not overlap it, the part of a VMA before the range and
\* the part of one behind it.
LEMMA ReplacedParts ==
    ASSUME NEW m, GoodMap(m), NEW addr \in Nat, NEW size \in Nat, ValidRange(addr, size),
           NEW vma \in VmaRecord,
           NEW n, n = insert(carve_vma(m, addr, size), addr, vma)
    PROVE  /\ addr \in DOMAIN n /\ n[addr] = vma
           /\ \A b \in DOMAIN m : ~overlaps(m, b, addr, size) =>
                 b \in DOMAIN n /\ b # addr /\ n[b] = m[b]
           /\ \A b \in DOMAIN m : overlaps(m, b, addr, size) /\ b < addr =>
                 b \in DOMAIN n /\ n[b] = [m[b] EXCEPT !.size = addr - b]
           /\ \A b \in DOMAIN m : overlaps(m, b, addr, size) /\ b + m[b].size > addr + size =>
                 /\ addr + size \in DOMAIN n
                 /\ n[addr + size] = [m[b] EXCEPT !.size = b + m[b].size - (addr + size)]
           /\ \A k \in DOMAIN n :
                 \/ k = addr
                 \/ k \in DOMAIN m /\ ~overlaps(m, k, addr, size)
                 \/ k \in DOMAIN m /\ overlaps(m, k, addr, size) /\ k < addr
                 \/ /\ k = addr + size
                    /\ \E b \in DOMAIN m : overlaps(m, b, addr, size) /\ b + m[b].size > addr + size
           /\ n = [b \in DOMAIN n |-> n[b]]
<1> DEFINE stop   == addr + size
           cut    == {b \in DOMAIN m : overlaps(m, b, addr, size)}
           before == {b \in cut : b < addr}
           after  == KeysAfter(m, cut, stop)
           last   == CHOOSE b \in cut : b + m[b].size > stop
           keys   == (DOMAIN m \ cut) \cup before \cup after
           value(b) == IF b \in after THEN [m[last] EXCEPT !.size = last + m[last].size - stop]
                       ELSE IF b \in before THEN [m[b] EXCEPT !.size = addr - b]
                       ELSE m[b]
<1>1. carve_vma(m, addr, size) = [b \in keys |-> value(b)]
  BY DEF carve_vma
<1>2. n = [b \in keys \cup {addr} |-> IF b = addr THEN vma ELSE value(b)]
  BY <1>1 DEF insert
<1>3. size > 0 /\ stop \in Nat /\ addr < stop
  BY DEF ValidRange
<1>4. \A b \in cut : b \in DOMAIN m /\ b \in Nat /\ m[b].size \in Nat /\ b < stop /\ addr < b + m[b].size
  BY VmaFacts DEF overlaps
<1>5. \A b, c \in cut : b + m[b].size > stop /\ c + m[c].size > stop => b = c
  <2>1. SUFFICES ASSUME NEW b \in cut, NEW c \in cut,
                        b + m[b].size > stop, c + m[c].size > stop
                 PROVE  b = c
    OBVIOUS
  <2>2. Holds(m, b, stop) /\ Holds(m, c, stop)
    BY <1>3, <1>4, <2>1 DEF Holds
  <2> QED
    BY <1>3, <1>4, <2>2, OneVma
<1>6. \A b \in cut : b + m[b].size > stop => last = b
  BY <1>5
<1>7. \A k : k \in after <=> k = stop /\ \E b \in cut : b + m[b].size > stop
  BY DEF KeysAfter
<1>8. \A b \in DOMAIN m \ cut : b # addr /\ b \notin after
  <2>1. SUFFICES ASSUME NEW b \in DOMAIN m \ cut PROVE b # addr /\ b \notin after
    OBVIOUS
  <2>2. b \in Nat /\ m[b].size \in Nat /\ m[b].size > 0
    BY VmaFacts
  <2>3. b # addr
    BY <2>2, <1>3 DEF overlaps
  <2>4. ASSUME b \in after PROVE FALSE
    <3>1. b = stop /\ \E c \in cut : c + m[c].size > stop
      BY <2>4, <1>7
    <3>2. PICK c \in cut : c + m[c].size > stop
      BY <3>1
    <3>3. c < b /\ b < c + m[c].size
      BY <3>1, <3>2, <1>4
    <3> QED
      BY <3>3, <2>2, <1>4 DEF GoodMap
  <2> QED
    BY <2>3, <2>4
<1>9. stop # addr /\ \A b \in before : b # addr /\ b \notin after
  BY <1>3, <1>4, <1>7
<1> HIDE DEF cut, before, after, last, keys, value, stop
<1>10. addr \in DOMAIN n /\ n[addr] = vma
  BY <1>2
<1>11. ASSUME NEW b \in DOMAIN m, ~overlaps(m, b, addr, size)
       PROVE  b \in DOMAIN n /\ b # addr /\ n[b] = m[b]
  <2>1. b \in DOMAIN m \ cut /\ b \notin before
    BY <1>11 DEF cut, before
  <2>2. b \in keys /\ value(b) = m[b] /\ b # addr
    BY <2>1, <1>8 DEF keys, value
  <2> QED
    BY <2>2, <1>2
<1>12. ASSUME NEW b \in DOMAIN m, overlaps(m, b, addr, size), b < addr
       PROVE  b \in DOMAIN n /\ n[b] = [m[b] EXCEPT !.size = addr - b]
  <2>1. b \in before
    BY <1>12 DEF before, cut
  <2>2. b \in keys /\ value(b) = [m[b] EXCEPT !.size = addr - b] /\ b # addr
    BY <2>1, <1>9 DEF keys, value
  <2> QED
    BY <2>2, <1>2
<1>13. ASSUME NEW b \in DOMAIN m, overlaps(m, b, addr, size), b + m[b].size > stop
       PROVE  stop \in DOMAIN n /\ n[stop] = [m[b] EXCEPT !.size = b + m[b].size - stop]
  <2>1. b \in cut
    BY <1>13 DEF cut
  <2>2. last = b /\ stop \in after
    BY <2>1, <1>13, <1>6, <1>7
  <2>3. stop \in keys /\ value(stop) = [m[b] EXCEPT !.size = b + m[b].size - stop]
    BY <2>2 DEF keys, value
  <2> QED
    BY <2>3, <1>2, <1>9
<1>14. ASSUME NEW k \in DOMAIN n
       PROVE  \/ k = addr
              \/ k \in DOMAIN m /\ ~overlaps(m, k, addr, size)
              \/ k \in DOMAIN m /\ overlaps(m, k, addr, size) /\ k < addr
              \/ /\ k = stop
                 /\ \E b \in DOMAIN m : overlaps(m, b, addr, size) /\ b + m[b].size > stop
  <2>1. k = addr \/ k \in DOMAIN m \ cut \/ k \in before \/ k \in after
    BY <1>2 DEF keys
  <2> QED
    BY <2>1, <1>7 DEF before, cut
<1>15. n = [b \in DOMAIN n |-> n[b]]
  BY <1>2
<1> QED
  BY <1>10, <1>11, <1>12, <1>13, <1>14, <1>15 DEF stop

\* The effect of carve_vma and insert on a good map: it stays good, the pages of the
\* range are held by the new VMA alone, and every other page is held by a VMA of the
\* type and protection it had, or by none as before.
LEMMA Replaced ==
    ASSUME NEW m, GoodMap(m), NEW addr \in Nat, NEW size \in Nat, ValidRange(addr, size),
           NEW vma \in VmaRecord, vma.size = size,
           NEW n, n = insert(carve_vma(m, addr, size), addr, vma)
    PROVE  /\ GoodMap(n)
           /\ addr \in DOMAIN n /\ n[addr] = vma
           /\ \A p \in Span(addr, size) :
                 /\ Holds(n, addr, p)
                 /\ \A k \in DOMAIN n : Holds(n, k, p) => k = addr
           /\ \A p \in Pages \ Span(addr, size) :
                 /\ \A b \in DOMAIN m : Holds(m, b, p) =>
                       \E k \in DOMAIN n : /\ Holds(n, k, p)
                                           /\ n[k].vma_type = m[b].vma_type
                                           /\ n[k].prot = m[b].prot
                 /\ \A k \in DOMAIN n : Holds(n, k, p) =>
                       \E b \in DOMAIN m : /\ Holds(m, b, p)
                                           /\ n[k].vma_type = m[b].vma_type
                                           /\ n[k].prot = m[b].prot
<1> DEFINE stop == addr + size
           Kept(b)  == b \in DOMAIN m /\ ~overlaps(m, b, addr, size)
           Front(b) == b \in DOMAIN m /\ overlaps(m, b, addr, size) /\ b < addr
           Back(b)  == b \in DOMAIN m /\ overlaps(m, b, addr, size) /\ b + m[b].size > stop
<1>1. /\ addr \in DOMAIN n /\ n[addr] = vma
      /\ \A b : Kept(b) => b \in DOMAIN n /\ b # addr /\ n[b] = m[b]
      /\ \A b : Front(b) => b \in DOMAIN n /\ n[b] = [m[b] EXCEPT !.size = addr - b]
      /\ \A b : Back(b) => /\ stop \in DOMAIN n
                           /\ n[stop] = [m[b] EXCEPT !.size = b + m[b].size - stop]
      /\ \A k \in DOMAIN n : k = addr \/ Kept(k) \/ Front(k) \/ (k = stop /\ \E b : Back(b))
      /\ n = [b \in DOMAIN n |-> n[b]]
  BY ReplacedParts
<1>2. size > 0 /\ stop \in Nat /\ addr < stop /\ stop <= HostTop
  BY DEF ValidRange
<1>3. \A b \in DOMAIN m : /\ b \in Nat /\ b < HostTop /\ m[b] \in VmaRecord
                          /\ m[b].size \in Nat /\ m[b].size > 0
                          /\ b + m[b].size <= HostTop
  BY VmaFacts
<1>4. ASSUME NEW b, Kept(b)
      PROVE  /\ n[b] \in VmaRecord /\ n[b].size = m[b].size
             /\ n[b].vma_type = m[b].vma_type /\ n[b].prot = m[b].prot
             /\ stop <= b \/ b + m[b].size <= addr
  BY <1>1, <1>2, <1>3, <1>4 DEF overlaps
<1>5. ASSUME NEW b, Front(b)
      PROVE  /\ n[b] \in VmaRecord /\ n[b].size = addr - b
             /\ n[b].vma_type = m[b].vma_type /\ n[b].prot = m[b].prot
             /\ b < addr /\ addr < b + m[b].size
  <2>1. n[b] = [m[b] EXCEPT !.size = addr - b] /\ m[b] \in VmaRecord /\ addr - b \in Nat
    BY <1>1, <1>3, <1>5
  <2> QED
    BY <2>1, <1>5 DEF VmaRecord, overlaps
<1>6. ASSUME NEW b, Back(b)
      PROVE  /\ n[stop] \in VmaRecord /\ n[stop].size = b + m[b].size - stop
             /\ n[stop].vma_type = m[b].vma_type /\ n[stop].prot = m[b].prot
             /\ b < stop /\ stop < b + m[b].size
  <2>1. /\ n[stop] = [m[b] EXCEPT !.size = b + m[b].size - stop]
        /\ m[b] \in VmaRecord /\ b + m[b].size - stop \in Nat
    BY <1>1, <1>2, <1>3, <1>6
  <2> QED
    BY <2>1, <1>6 DEF VmaRecord, overlaps
<1>7. \A b, c \in DOMAIN m : b < c => b + m[b].size <= c
  BY DEF GoodMap
<1>8. \A k \in DOMAIN n : k = addr \/ Kept(k) \/ Front(k) \/ (k = stop /\ \E b : Back(b))
  BY <1>1
<1>9. \A b : (Kept(b) \/ Front(b) \/ Back(b)) => b \in DOMAIN m
  OBVIOUS
<1>10. n[addr].size = size /\ addr \in DOMAIN n
  BY <1>1
<1> HIDE DEF Kept, Front, Back, stop
<1>11. \A k \in DOMAIN n : k \in Nat /\ n[k] \in VmaRecord /\ n[k].size > 0 /\ k + n[k].size <= HostTop
  <2>1. SUFFICES ASSUME NEW k \in DOMAIN n
                 PROVE  k \in Nat /\ n[k] \in VmaRecord /\ n[k].size > 0 /\ k + n[k].size <= HostTop
    OBVIOUS
  <2>2. CASE k = addr
    BY <2>2, <1>1, <1>2 DEF stop
  <2>3. CASE Kept(k)
    BY <2>3, <1>3, <1>4, <1>9
  <2>4. CASE Front(k)
    <3>1. k \in Nat /\ k < addr /\ n[k] \in VmaRecord /\ n[k].size = addr - k
      BY <2>4, <1>3, <1>5, <1>9
    <3> QED
      BY <3>1, <1>2, Arithmetic
  <2>5. CASE k = stop /\ \E b : Back(b)
    BY <2>5, <1>2, <1>3, <1>6, <1>9
  <2> QED
    BY <2>2, <2>3, <2>4, <2>5, <1>8
<1>12. \A j, k \in DOMAIN n : j < k => j + n[j].size <= k
  <2>1. SUFFICES ASSUME NEW j \in DOMAIN n, NEW k \in DOMAIN n, j < k
                 PROVE  j + n[j].size <= k
    OBVIOUS
  <2>2. CASE j = addr
    <3>1. CASE Kept(k)
      BY <2>1, <2>2, <3>1, <1>2, <1>3, <1>4, <1>9, <1>10 DEF stop
    <3>2. CASE Front(k)
      BY <2>1, <2>2, <3>2, <1>3, <1>5, <1>9
    <3>3. CASE k = stop
      BY <2>2, <3>3, <1>10 DEF stop
    <3> QED
      BY <2>1, <2>2, <3>1, <3>2, <3>3, <1>8
  <2>3. CASE Kept(j)
    <3>1. CASE k = addr
      BY <2>1, <2>3, <3>1, <1>2, <1>3, <1>4, <1>9
    <3>2. CASE Kept(k) \/ Front(k)
      BY <2>1, <2>3, <3>2, <1>4, <1>7, <1>9
    <3>3. CASE k = stop /\ \E b : Back(b)
      <4>1. PICK b : Back(b)
        BY <3>3
      <4>2. b # j /\ b \in DOMAIN m /\ j \in DOMAIN m
        BY <4>1, <2>3 DEF Back, Kept
      <4> QED
        BY <2>1, <2>3, <3>3, <4>1, <4>2, <1>2, <1>3, <1>4, <1>6, <1>7
    <3> QED
      BY <3>1, <3>2, <3>3, <1>8
  <2>4. CASE Front(j)
    <3>1. CASE k = addr
      BY <2>4, <3>1, <1>2, <1>3, <1>5, <1>9
    <3>2. CASE Kept(k) \/ Front(k)
      <4>1. j + m[j].size <= k
        BY <2>1, <2>4, <3>2, <1>7, <1>9
      <4> QED
        BY <4>1, <2>4, <3>2, <1>2, <1>3, <1>5, <1>9
    <3>3. CASE k = stop
      BY <2>4, <3>3, <1>2, <1>3, <1>5, <1>9
    <3> QED
      BY <3>1, <3>2, <3>3, <1>8
  <2>5. CASE j = stop /\ \E b : Back(b)
    <3>1. PICK b : Back(b)
      BY <2>5
    <3>2. k # addr /\ k # stop /\ ~Front(k)
      BY <2>1, <2>5, <1>2, <1>3, <1>5, <1>9
    <3>3. Kept(k)
      BY <3>2, <1>8
    <3>4. b < k /\ b \in DOMAIN m /\ k \in DOMAIN m
      BY <2>1, <2>5, <3>1, <3>3, <1>2, <1>3, <1>6, <1>9
    <3> QED
      BY <2>5, <3>1, <3>4, <1>2, <1>3, <1>6, <1>7
  <2> QED
    BY <2>2, <2>3, <2>4, <2>5, <1>8
<1>13. GoodMap(n)
  <2>1. DOMAIN n \subseteq Pages
    BY <1>11, Arithmetic DEF Pages, VmaRecord
  <2>2. n \in [DOMAIN n -> VmaRecord]
    BY <1>1, <1>11
  <2> QED
    BY <2>1, <2>2, <1>11, <1>12 DEF GoodMap
<1>14. ASSUME NEW p \in Span(addr, size)
       PROVE  Holds(n, addr, p) /\ \A k \in DOMAIN n : Holds(n, k, p) => k = addr
  <2>1. p \in Nat /\ addr <= p /\ p < stop
    BY DEF Span, stop
  <2>2. Holds(n, addr, p)
    BY <2>1, <1>10 DEF Holds, stop
  <2> QED
    BY <2>1, <2>2, <1>10, <1>13, OneVma
<1>15. ASSUME NEW p \in Pages \ Span(addr, size), NEW b \in DOMAIN m, Holds(m, b, p)
       PROVE  \E k \in DOMAIN n : /\ Holds(n, k, p)
                                  /\ n[k].vma_type = m[b].vma_type
                                  /\ n[k].prot = m[b].prot
  <2>1. p \in Nat /\ (p < addr \/ stop <= p) /\ b <= p /\ p < b + m[b].size
    BY <1>15 DEF Span, Pages, Holds, stop
  <2>2. CASE Kept(b)
    BY <2>1, <2>2, <1>1, <1>4, <1>9 DEF Holds
  <2>3. CASE ~Kept(b) /\ p < addr
    <3>1. Front(b)
      BY <2>1, <2>3, <1>3 DEF Kept, Front
    <3>2. b \in DOMAIN n /\ n[b].size = addr - b
      BY <3>1, <1>1, <1>5
    <3>3. Holds(n, b, p)
      BY <2>1, <2>3, <3>2, <1>3 DEF Holds
    <3> QED
      BY <3>1, <3>2, <3>3, <1>5
  <2>4. CASE ~Kept(b) /\ stop <= p
    <3>1. Back(b)
      BY <2>1, <2>4, <1>2, <1>3 DEF Kept, Back
    <3>2. stop \in DOMAIN n /\ n[stop].size = b + m[b].size - stop
      BY <3>1, <1>1, <1>6
    <3>3. Holds(n, stop, p)
      BY <2>1, <2>4, <3>2, <1>2, <1>3 DEF Holds
    <3> QED
      BY <3>1, <3>2, <3>3, <1>6
  <2> QED
    BY <2>1, <2>2, <2>3, <2>4
<1>16. ASSUME NEW p \in Pages \ Span(addr, size), NEW k \in DOMAIN n, Holds(n, k, p)
       PROVE  \E b \in DOMAIN m : /\ Holds(m, b, p)
                                  /\ n[k].vma_type = m[b].vma_type
                                  /\ n[k].prot = m[b].prot
  <2>1. p \in Nat /\ (p < addr \/ stop <= p) /\ k <= p /\ p < k + n[k].size
    BY <1>16 DEF Span, Pages, Holds, stop
  <2>2. k # addr
    BY <2>1, <1>2, <1>10 DEF stop
  <2>3. CASE Kept(k)
    BY <2>1, <2>3, <1>4, <1>9 DEF Holds
  <2>4. CASE Front(k)
    BY <2>1, <2>4, <1>3, <1>5, <1>9 DEF Holds
  <2>5. CASE k = stop /\ \E b : Back(b)
    <3>1. PICK b : Back(b)
      BY <2>5
    <3>2. b \in DOMAIN m
      BY <3>1, <1>9
    <3>3. Holds(m, b, p)
      BY <2>1, <2>5, <3>1, <3>2, <1>2, <1>3, <1>6 DEF Holds
    <3> QED
      BY <2>5, <3>1, <3>2, <3>3, <1>6
  <2> QED
    BY <2>2, <2>3, <2>4, <2>5, <1>8
<1> QED
  BY <1>1, <1>13, <1>14, <1>15, <1>16

-----------------------------------------------------------------------------
(* The inductive invariant: the VMA map is good, covers the user space and agrees   *)
(* with the host's pages.                                                           *)

\* The types of the variables beside the map.
RestOK ==
    /\ host \in [Pages -> Kinds]
    /\ access \in [Pages -> SUBSET {"R", "W", "X"}]
    /\ ret \in {"none", "OK", "ENOMEM", "EINVAL"}
    /\ touched \subseteq Nat

IInv == GoodMap(vma_map) /\ RestOK /\ VmasCoverUser /\ MappedIffBacked

\* Every requirement on the VMA map that a run checks is part of the invariant.
LEMMA IInvTiles == IInv => VmasTile
<1> SUFFICES ASSUME IInv PROVE VmasTile
  OBVIOUS
<1>1. TypeOK
  BY DEF IInv, GoodMap, RestOK, TypeOK, VmaRecord
<1>2. VmasDisjoint
  BY DEF IInv, GoodMap, VmasDisjoint
<1> QED
  BY <1>1, <1>2 DEF IInv, VmasTile

\* The reservation of the user space makes one free VMA.
LEMMA InitIInv == Init => IInv
<1> SUFFICES ASSUME Init PROVE IInv
  OBVIOUS
<1>1. /\ DOMAIN vma_map = {UserBase}
      /\ vma_map[UserBase] = Vma(UserSize, "Free", {})
      /\ vma_map = [b \in {UserBase} |-> Vma(UserSize, "Free", {})]
  BY DEF Init
<1>2. vma_map[UserBase] \in VmaRecord /\ vma_map[UserBase].size = UserSize
      /\ is_free(vma_map[UserBase])
  BY <1>1, Arithmetic DEF Vma, VmaRecord, is_free
<1>3. GoodMap(vma_map)
  BY <1>1, <1>2, Arithmetic DEF GoodMap, Pages
<1>4. RestOK
  BY DEF Init, RestOK, Kinds
<1>5. VmasCoverUser
  BY <1>1, <1>2, Arithmetic DEF VmasCoverUser, UserPages, InVma
<1>6. MappedIffBacked
  BY <1>1, <1>2 DEF MappedIffBacked, Init
<1> QED
  BY <1>3, <1>4, <1>5, <1>6 DEF IInv

\* A step that puts a VMA over a range of host pages, and makes those pages the guest's
\* exactly if the VMA is not free: map_memory and unmap_memory when the host call
\* succeeds.
Replaces(addr, size, vma) ==
    /\ addr \in Nat /\ size \in Nat /\ ValidRange(addr, size)
    /\ vma \in VmaRecord /\ vma.size = size
    /\ vma_map' = insert(carve_vma(vma_map, addr, size), addr, vma)
    /\ touched' = Span(addr, size)
    /\ host' \in [Pages -> Kinds]
    /\ \A p \in Pages : IF p \in Span(addr, size)
                        THEN host'[p] = "guest" <=> ~is_free(vma)
                        ELSE host'[p] = host[p]
    /\ access' \in [Pages -> SUBSET {"R", "W", "X"}]
    /\ ret' = "OK"

\* What such a step does to the pages, from Replaced: it keeps the invariant, and what
\* the VMA map says of a page outside the range.
LEMMA ReplacesKeeps ==
    ASSUME IInv, NEW addr, NEW size, NEW vma, Replaces(addr, size, vma)
    PROVE  /\ IInv'
           /\ \A p \in Pages \ Span(addr, size) : Described(p)' = Described(p)
<1> DEFINE m == vma_map
           n == vma_map'
<1>1. /\ addr \in Nat /\ size \in Nat /\ ValidRange(addr, size)
      /\ vma \in VmaRecord /\ vma.size = size
      /\ n = insert(carve_vma(m, addr, size), addr, vma)
      /\ GoodMap(m)
  BY DEF Replaces, IInv
<1> HIDE DEF m, n
<1>2. /\ GoodMap(n)
      /\ addr \in DOMAIN n /\ n[addr] = vma
      /\ \A p \in Span(addr, size) :
            /\ Holds(n, addr, p)
            /\ \A k \in DOMAIN n : Holds(n, k, p) => k = addr
      /\ \A p \in Pages \ Span(addr, size) :
            /\ \A b \in DOMAIN m : Holds(m, b, p) =>
                  \E k \in DOMAIN n : /\ Holds(n, k, p)
                                      /\ n[k].vma_type = m[b].vma_type
                                      /\ n[k].prot = m[b].prot
            /\ \A k \in DOMAIN n : Holds(n, k, p) =>
                  \E b \in DOMAIN m : /\ Holds(m, b, p)
                                      /\ n[k].vma_type = m[b].vma_type
                                      /\ n[k].prot = m[b].prot
  BY <1>1, Replaced
<1>3. RestOK'
  <2>1. touched' \subseteq Nat
    BY <1>1 DEF Replaces, Span
  <2> QED
    BY <2>1 DEF Replaces, RestOK
<1>4. ASSUME NEW p \in UserPages
      PROVE  \E k \in DOMAIN n : Holds(n, k, p)
  <2>1. p \in Pages
    BY Arithmetic DEF UserPages, Pages
  <2>2. CASE p \in Span(addr, size)
    BY <2>2, <1>2
  <2>3. CASE p \notin Span(addr, size)
    <3>1. PICK b \in DOMAIN m : Holds(m, b, p)
      BY DEF IInv, VmasCoverUser, InVma, Holds, m
    <3> QED
      BY <2>1, <2>3, <3>1, <1>2
  <2> QED
    BY <2>2, <2>3
<1>5. VmasCoverUser'
  BY <1>4 DEF VmasCoverUser, InVma, Holds, n, UserPages
<1>6. ASSUME NEW p \in Pages
      PROVE  host'[p] = "guest" <=> \E k \in DOMAIN n : Holds(n, k, p) /\ ~is_free(n[k])
  <2>1. CASE p \in Span(addr, size)
    <3>1. host'[p] = "guest" <=> ~is_free(vma)
      BY <2>1 DEF Replaces
    <3> QED
      BY <2>1, <3>1, <1>2
  <2>2. CASE p \notin Span(addr, size)
    <3>1. host'[p] = host[p]
      BY <2>2 DEF Replaces
    <3>2. host[p] = "guest" <=> \E b \in DOMAIN m : Holds(m, b, p) /\ ~is_free(m[b])
      BY DEF IInv, MappedIffBacked, InVma, Holds, m
    <3> QED
      BY <2>2, <3>1, <3>2, <1>2 DEF is_free
  <2> QED
    BY <2>1, <2>2
<1>7. MappedIffBacked'
  BY <1>6 DEF MappedIffBacked, InVma, Holds, n, Pages
<1>8. ASSUME NEW p \in Pages \ Span(addr, size)
      PROVE  Described(p)' = Described(p)
  <2>1. Described(p) = {<<m[b].vma_type, m[b].prot>> : b \in {c \in DOMAIN m : Holds(m, c, p)}}
    BY DEF Described, InVma, Holds, m
  <2>2. Described(p)' = {<<n[b].vma_type, n[b].prot>> : b \in {c \in DOMAIN n : Holds(n, c, p)}}
    BY DEF Described, InVma, Holds, n
  <2>3. ASSUME NEW b \in DOMAIN m, Holds(m, b, p)
        PROVE  \E k \in {c \in DOMAIN n : Holds(n, c, p)} :
                  <<n[k].vma_type, n[k].prot>> = <<m[b].vma_type, m[b].prot>>
    BY <1>2, <1>8, <2>3
  <2>4. ASSUME NEW k \in DOMAIN n, Holds(n, k, p)
        PROVE  \E b \in {c \in DOMAIN m : Holds(m, c, p)} :
                  <<n[k].vma_type, n[k].prot>> = <<m[b].vma_type, m[b].prot>>
    BY <1>2, <1>8, <2>4
  <2> QED
    BY <2>1, <2>2, <2>3, <2>4
<1> QED
  BY <1>2, <1>3, <1>5, <1>7, <1>8 DEF IInv, n

\* Where find_free_region places a mapping is an address of a free VMA with room for it.
LEMMA RegionFound ==
    ASSUME GoodMap(vma_map), NEW size \in Nat, FreeRegions(vma_map, size) # {}
    PROVE  LET b == Min(FreeRegions(vma_map, size))
               addr == find_free_region(vma_map, size)
           IN  /\ b \in DOMAIN vma_map /\ is_free(vma_map[b])
               /\ addr \in Nat /\ b <= addr /\ is_aligned(addr, PAGE_SIZE)
               /\ ValidRange(addr, size) => addr + size <= b + vma_map[b].size
<1> DEFINE b == Min(FreeRegions(vma_map, size))
           addr == find_free_region(vma_map, size)
<1>1. FreeRegions(vma_map, size) \in SUBSET Nat
  BY Arithmetic DEF FreeRegions, GoodMap, Pages
<1>2. b \in FreeRegions(vma_map, size)
  BY <1>1, MinOfNaturals
<1> HIDE DEF b
<1>3. b \in DOMAIN vma_map /\ b \in Pages /\ is_free(vma_map[b]) /\ RegionFits(vma_map, b, size)
  BY <1>2 DEF FreeRegions, GoodMap
<1>4. addr = AlignedBase(b)
  BY DEF find_free_region, b
<1>5. addr \in Nat /\ b <= addr /\ is_aligned(addr, PAGE_SIZE)
  BY <1>3, <1>4, AlignedBaseAbove
<1>6. ASSUME ValidRange(addr, size)
      PROVE  addr + size <= b + vma_map[b].size
  <2>1. b \in Nat /\ vma_map[b].size \in Nat /\ b + vma_map[b].size <= HostTop
    BY <1>3, VmaFacts
  <2>2. Plus(addr, size) <= Plus(b, vma_map[b].size)
    BY <1>3, <1>4 DEF RegionFits
  <2> QED
    BY <1>5, <1>6, <2>1, <2>2, Arithmetic DEF Plus, ValidRange
<1> QED
  BY <1>3, <1>5, <1>6 DEF b

\* map_memory at an address replaces a range of pages once the host's mmap succeeds.
LEMMA MapAtReplaces ==
    ASSUME IInv, NEW addr \in Nat, NEW size \in Nat, size < Word,
           NEW prot \in SUBSET {"R", "W", "X"}, NEW vma_type \in {"Direct", "Flexible"},
           MapAt(addr, size, prot, vma_type)
    PROVE  Replaces(addr, align_up(size, PAGE_SIZE),
                    Vma(align_up(size, PAGE_SIZE), vma_type, prot))
<1> DEFINE len == align_up(size, PAGE_SIZE)
           vma == Vma(len, vma_type, prot)
<1>1. len \in Nat
  BY AlignUpType
<1>2. /\ ValidRange(addr, len)
      /\ vma_map' = insert(carve_vma(vma_map, addr, len), addr, vma)
      /\ touched' = Span(addr, len)
      /\ ret' = "OK"
      /\ host' = [p \in Pages |-> IF p \in Span(addr, len) THEN "guest" ELSE host[p]]
      /\ access' = [p \in Pages |->
                      IF p \in Span(addr, len)
                      THEN {"R", "W"} \cup (IF "X" \in prot THEN {"X"} ELSE {})
                      ELSE access[p]]
  BY DEF MapAt, map, VmaSize
<1> HIDE DEF len
<1>3. vma \in VmaRecord /\ vma.size = len /\ ~is_free(vma)
  BY <1>1 DEF Vma, VmaRecord, is_free
<1>4. host \in [Pages -> Kinds] /\ access \in [Pages -> SUBSET {"R", "W", "X"}]
  BY DEF IInv, RestOK
<1>5. host' \in [Pages -> Kinds]
  BY <1>2, <1>4 DEF Kinds
<1>6. access' \in [Pages -> SUBSET {"R", "W", "X"}]
  BY <1>2, <1>4
<1>7. \A p \in Pages : IF p \in Span(addr, len) THEN host'[p] = "guest" <=> ~is_free(vma)
                      ELSE host'[p] = host[p]
  BY <1>2, <1>3
<1> QED
  BY <1>1, <1>2, <1>3, <1>5, <1>6, <1>7 DEF Replaces, len

\* unmap_memory replaces a range of pages once the host's munmap succeeds.
LEMMA UnmapReplaces ==
    ASSUME IInv, NEW addr \in Nat, NEW size \in Nat, size < Word,
           unmap(addr, align_up(size, PAGE_SIZE)),
           vma_map' = insert(carve_vma(vma_map, addr, align_up(size, PAGE_SIZE)), addr,
                             Vma(align_up(size, PAGE_SIZE), "Free", {})),
           touched' = Span(addr, align_up(size, PAGE_SIZE)),
           ret' = "OK"
    PROVE  Replaces(addr, align_up(size, PAGE_SIZE), Vma(align_up(size, PAGE_SIZE), "Free", {}))
<1> DEFINE len == align_up(size, PAGE_SIZE)
           vma == Vma(len, "Free", {})
<1>1. len \in Nat
  BY AlignUpType
<1>2. /\ ValidRange(addr, len)
      /\ host' = [p \in Pages |-> IF p \in Span(addr, len) THEN "none" ELSE host[p]]
      /\ access' = [p \in Pages |-> IF p \in Span(addr, len) THEN {} ELSE access[p]]
  BY DEF unmap
<1> HIDE DEF len
<1>3. vma \in VmaRecord /\ vma.size = len /\ is_free(vma)
  BY <1>1 DEF Vma, VmaRecord, is_free
<1>4. host \in [Pages -> Kinds] /\ access \in [Pages -> SUBSET {"R", "W", "X"}]
  BY DEF IInv, RestOK
<1>5. host' \in [Pages -> Kinds] /\ access' \in [Pages -> SUBSET {"R", "W", "X"}]
  BY <1>2, <1>4 DEF Kinds
<1>6. \A p \in Pages : IF p \in Span(addr, len) THEN host'[p] = "guest" <=> ~is_free(vma)
                      ELSE host'[p] = host[p]
  BY <1>2, <1>3
<1> QED
  BY <1>1, <1>2, <1>3, <1>5, <1>6 DEF Replaces, len

\* A step that leaves the VMA map and the guest's pages as they are.
Quiet ==
    /\ vma_map' = vma_map
    /\ RestOK'
    /\ \A p \in Pages : host'[p] = "guest" <=> host[p] = "guest"

\* It keeps the invariant and what the map says of every page.
LEMMA QuietKeeps ==
    ASSUME IInv, Quiet
    PROVE  IInv' /\ \A p \in Pages : Described(p)' = Described(p)
<1>1. vma_map' = vma_map
  BY DEF Quiet
<1>2. VmasCoverUser' /\ \A p \in Pages : Described(p)' = Described(p)
  BY <1>1 DEF IInv, VmasCoverUser, Described, InVma
<1>3. MappedIffBacked'
  BY <1>1 DEF IInv, MappedIffBacked, InVma, Quiet
<1> QED
  BY <1>1, <1>2, <1>3 DEF IInv, Quiet

\* A call that fails is quiet.
LEMMA FailsQuiet ==
    ASSUME IInv, NEW code \in {"ENOMEM", "EINVAL"}, Fails(code)
    PROVE  Quiet
BY DEF IInv, RestOK, Quiet, Fails

\* The steps of map_memory, whoever calls it.  Without FIXED the range lies in a free
\* VMA; with FIXED at the address the caller passed.
LEMMA MapMemorySteps ==
    ASSUME IInv, NEW addr \in FixedAddrs \cup {0}, NEW size \in Nat, size < Word,
           NEW prot \in SUBSET {"R", "W", "X"}, NEW fixed \in BOOLEAN,
           NEW vma_type \in {"Direct", "Flexible"},
           map_memory(addr, size, prot, fixed, vma_type)
    PROVE  Quiet \/ \E a, vma : Replaces(a, align_up(size, PAGE_SIZE), vma) /\ ~is_free(vma)
<1> DEFINE len == align_up(size, PAGE_SIZE)
           vma == Vma(len, vma_type, prot)
<1>1. len \in Nat
  BY AlignUpType
<1>2. ~is_free(vma)
  BY DEF Vma, is_free
<1>3. addr \in Nat
  BY VirtualMemoryAssumption
<1>4. CASE FreeRegions(vma_map, len) # {} /\ MapAt(find_free_region(vma_map, len), size, prot, vma_type)
  <2>1. find_free_region(vma_map, len) \in Nat
    BY <1>1, <1>4, RegionFound DEF IInv
  <2> QED
    BY <1>2, <1>4, <2>1, MapAtReplaces
<1>5. CASE MapAt(addr, size, prot, vma_type)
  BY <1>2, <1>3, <1>5, MapAtReplaces
<1>6. CASE Fails("ENOMEM")
  BY <1>6, FailsQuiet
<1> QED
  BY <1>4, <1>5, <1>6 DEF map_memory

\* Every step of the specification replaces a range or is quiet.  A range it makes free
\* is one passed to munmap.
LEMMA Steps ==
    ASSUME IInv, [Next]_vars
    PROVE  \/ Quiet
           \/ \E a, size, vma :
                 /\ Replaces(a, size, vma)
                 /\ is_free(vma) => a \in FixedAddrs /\ \E len \in Sizes : size = align_up(len, PAGE_SIZE)
<1>1. \A len \in Sizes : len \in Nat /\ len < Word
  BY VirtualMemoryAssumption, WordAssumption
<1>2. 1 \in Nat /\ 1 < Word
  BY Arithmetic
<1>3. \A prot \in Prots : prot \in SUBSET {"R", "W", "X"}
  BY VirtualMemoryAssumption
<1>4. \A addr \in FixedAddrs : addr \in Nat
  BY VirtualMemoryAssumption
<1>5. ASSUME NEW addr \in FixedAddrs \cup {0}, NEW len \in Sizes, NEW prot \in Prots,
             NEW fixed \in BOOLEAN,
             \/ sce_kernel_map_direct_memory(addr, len, prot, fixed)
             \/ sce_kernel_map_flexible_memory(addr, len, prot, fixed)
      PROVE  Quiet \/ \E a, size, vma : Replaces(a, size, vma) /\ ~is_free(vma)
  BY <1>1, <1>3, <1>5, MapMemorySteps
     DEF sce_kernel_map_direct_memory, sce_kernel_map_flexible_memory
<1>6. ASSUME NEW addr \in FixedAddrs, NEW len \in Sizes, sce_kernel_munmap(addr, len)
      PROVE  Quiet \/ \E vma : Replaces(addr, align_up(len, PAGE_SIZE), vma)
  BY <1>1, <1>4, <1>6, UnmapReplaces, FailsQuiet DEF sce_kernel_munmap, unmap_memory
<1>7. ASSUME NEW len \in Sizes, malloc(len) \/ sceKernelAllocateDirectMemory(len)
      PROVE  Quiet \/ \E a, size, vma : Replaces(a, size, vma) /\ ~is_free(vma)
  <2>1. {"R", "W"} \in SUBSET {"R", "W", "X"} /\ 0 \in FixedAddrs \cup {0} /\ FALSE \in BOOLEAN
    OBVIOUS
  <2>2. (IF len = 0 THEN 1 ELSE len) \in Nat /\ (IF len = 0 THEN 1 ELSE len) < Word
    BY <1>1, <1>2
  <2>3. CASE malloc(len)
    BY <2>1, <2>2, <2>3, MapMemorySteps DEF malloc
  <2>4. CASE sceKernelAllocateDirectMemory(len)
    BY <1>1, <2>1, <2>4, MapMemorySteps DEF sceKernelAllocateDirectMemory
  <2> QED
    BY <1>7, <2>3, <2>4
<1>8. ASSUME NEW addr \in FixedAddrs, NEW len \in Sizes \cap 1 .. HostTop, NEW prot \in Prots,
             protect_memory(addr, len, prot)
      PROVE  Quiet
  <2>1. access' \in [Pages -> SUBSET {"R", "W", "X"}]
    BY <1>3, <1>8 DEF protect_memory, protect, IInv, RestOK
  <2>2. touched' \subseteq Nat
    BY <1>4, <1>8 DEF protect_memory, Span
  <2> QED
    BY <1>8, <2>1, <2>2 DEF protect_memory, IInv, RestOK, Quiet
<1>9. ASSUME NEW p \in Pages, HostMaps(p)
      PROVE  Quiet
  BY <1>9 DEF HostMaps, IInv, RestOK, Quiet, Kinds
<1>10. CASE UNCHANGED vars
  BY <1>10 DEF vars, IInv, RestOK, Quiet
<1> QED
  BY <1>5, <1>6, <1>7, <1>8, <1>9, <1>10 DEF Next

-----------------------------------------------------------------------------
(* The theorems. *)

\* The inductive invariant holds initially and every step keeps it.
LEMMA IInvInductive == Spec => []IInv
<1>1. IInv /\ [Next]_vars => IInv'
  BY Steps, ReplacesKeeps, QuietKeeps
<1> QED
  BY InitIInv, <1>1, PTL DEF Spec

\* However map_memory and unmap_memory cut through the VMAs with carve_vma, these stay
\* disjoint and non-empty and cover every page of the user space.
THEOREM VmasAlwaysTile == Spec => []VmasTile
BY IInvInductive, IInvTiles, PTL

\* A page is backed by a mapping of the guest exactly when some VMA says so, also
\* after a host call failed: map_memory and unmap_memory change the map only after
\* mmap or munmap succeeded.
THEOREM VmaMapIsTruthful == Spec => []MappedIffBacked
<1>1. IInv => MappedIffBacked
  BY DEF IInv
<1> QED
  BY <1>1, IInvInductive, PTL

\* A step changes what the VMA map says of a page only inside the range it worked on:
\* carve_vma gives the parts before and behind the range their type and protection
\* back.
THEOREM NeighboursAlwaysKept == Spec => NeighboursKept
<1>1. ASSUME IInv, [Next]_vars
      PROVE  [\A p \in Pages : p \notin touched' => Described(p)' = Described(p)]_vars
  <2>1. CASE Quiet
    BY <1>1, <2>1, QuietKeeps
  <2>2. ASSUME NEW a, NEW size, NEW vma, Replaces(a, size, vma)
        PROVE  \A p \in Pages : p \notin touched' => Described(p)' = Described(p)
    <3>1. touched' = Span(a, size)
      BY <2>2 DEF Replaces
    <3> QED
      BY <1>1, <2>2, <3>1, ReplacesKeeps
  <2> QED
    BY <1>1, <2>1, <2>2, Steps
<1> QED
  BY <1>1, IInvInductive, PTL DEF Spec, NeighboursKept

\* Where find_free_region would place a mapping, no page is the guest's: of every
\* request, whatever ranges the guest maps and unmaps.
PlacementUnmapped ==
    \A size \in {align_up(n, PAGE_SIZE) : n \in Sizes} :
        LET addr == find_free_region(vma_map, size)
        IN  FreeRegions(vma_map, size) # {} /\ ValidRange(addr, size) =>
                /\ is_aligned(addr, PAGE_SIZE)
                /\ \A p \in Span(addr, size) :
                      /\ host[p] # "guest"
                      /\ \E b \in DOMAIN vma_map : InVma(b, p) /\ is_free(vma_map[b])

LEMMA IInvPlaces == IInv => PlacementUnmapped
<1>1. SUFFICES ASSUME IInv, NEW len \in Sizes,
                      FreeRegions(vma_map, align_up(len, PAGE_SIZE)) # {},
                      ValidRange(find_free_region(vma_map, align_up(len, PAGE_SIZE)),
                                 align_up(len, PAGE_SIZE))
               PROVE  /\ is_aligned(find_free_region(vma_map, align_up(len, PAGE_SIZE)), PAGE_SIZE)
                      /\ \A p \in Span(find_free_region(vma_map, align_up(len, PAGE_SIZE)),
                                       align_up(len, PAGE_SIZE)) :
                            /\ host[p] # "guest"
                            /\ \E b \in DOMAIN vma_map : InVma(b, p) /\ is_free(vma_map[b])
  BY DEF PlacementUnmapped
<1> DEFINE size == align_up(len, PAGE_SIZE)
           addr == find_free_region(vma_map, size)
           b == Min(FreeRegions(vma_map, size))
<1>2. size \in Nat
  BY VirtualMemoryAssumption, WordAssumption, AlignUpType
<1>3. GoodMap(vma_map)
  BY <1>1 DEF IInv
<1>4. /\ b \in DOMAIN vma_map /\ is_free(vma_map[b])
      /\ addr \in Nat /\ b <= addr /\ is_aligned(addr, PAGE_SIZE)
      /\ addr + size <= b + vma_map[b].size
  BY <1>1, <1>2, <1>3, RegionFound
<1> HIDE DEF size, addr, b
<1>5. ASSUME NEW p \in Span(addr, size)
      PROVE  host[p] # "guest" /\ \E c \in DOMAIN vma_map : InVma(c, p) /\ is_free(vma_map[c])
  <2>1. b \in Nat /\ vma_map[b].size \in Nat /\ b + vma_map[b].size <= HostTop
    BY <1>3, <1>4, VmaFacts
  <2>2. p \in Nat /\ p \in Pages /\ Holds(vma_map, b, p)
    BY <1>2, <1>4, <2>1, Arithmetic DEF Span, Pages, Holds
  <2>3. \A c \in DOMAIN vma_map : Holds(vma_map, c, p) => c = b
    BY <1>3, <1>4, <2>2, OneVma
  <2>4. host[p] # "guest"
    BY <1>1, <1>4, <2>2, <2>3 DEF IInv, MappedIffBacked, InVma, Holds
  <2> QED
    BY <1>4, <2>2, <2>4 DEF InVma, Holds
<1> QED
  BY <1>4, <1>5 DEF size, addr

\* The MAP_FIXED that follows find_free_region replaces nothing of the guest's, whatever
\* ranges the guest maps and unmaps: the range lies in free VMAs, on a guest page.
THEOREM PlacementNeverHitsGuest == Spec => []PlacementUnmapped
BY IInvInductive, IInvPlaces, PTL

\* The guest unmaps ranges of the user space only.  munmap checks nothing, and a range
\* outside leaves a free VMA there that find_free_region will use.
GuestStaysInUser ==
    \A a \in FixedAddrs, n \in Sizes :
        ValidRange(a, align_up(n, PAGE_SIZE)) =>
            Span(a, align_up(n, PAGE_SIZE)) \subseteq UserPages

\* Free VMAs lie in the user space.
FreeInUser ==
    \A p \in Pages : \A b \in DOMAIN vma_map :
        Holds(vma_map, b, p) /\ is_free(vma_map[b]) => p \in UserPages

\* Then find_free_region places mappings in free user space only, on a guest page
\* boundary, where no page is the guest's.
THEOREM PlacementAlwaysFree ==
    ASSUME GuestStaysInUser
    PROVE  Spec => []PlacementIsFree
<1>1. Init => FreeInUser
  <2> SUFFICES ASSUME Init PROVE FreeInUser
    OBVIOUS
  <2>1. DOMAIN vma_map = {UserBase} /\ vma_map[UserBase].size = UserSize
    BY DEF Init, Vma
  <2> QED
    BY <2>1, Arithmetic DEF FreeInUser, Holds, Pages, UserPages
<1>2. ASSUME IInv, FreeInUser, [Next]_vars
      PROVE  FreeInUser'
  <2>1. CASE Quiet
    BY <1>2, <2>1 DEF Quiet, FreeInUser, Holds
  <2>2. ASSUME NEW a, NEW size, NEW vma, Replaces(a, size, vma),
               is_free(vma) => a \in FixedAddrs /\ \E len \in Sizes : size = align_up(len, PAGE_SIZE)
        PROVE  FreeInUser'
    <3> DEFINE n == vma_map'
    <3>1. /\ a \in Nat /\ size \in Nat /\ ValidRange(a, size)
          /\ vma \in VmaRecord /\ vma.size = size
          /\ n = insert(carve_vma(vma_map, a, size), a, vma)
          /\ GoodMap(vma_map)
      BY <1>2, <2>2 DEF Replaces, IInv
    <3> HIDE DEF n
    <3>2. n[a] = vma
      BY <3>1, Replaced
    <3>3. \A p \in Span(a, size) : \A k \in DOMAIN n : Holds(n, k, p) => k = a
      BY <3>1, Replaced
    <3>4. \A p \in Pages \ Span(a, size) : \A k \in DOMAIN n : Holds(n, k, p) =>
             \E b \in DOMAIN vma_map : /\ Holds(vma_map, b, p)
                                       /\ n[k].vma_type = vma_map[b].vma_type
      BY <3>1, Replaced
    <3>5. ASSUME NEW p \in Pages, NEW k \in DOMAIN n, Holds(n, k, p), is_free(n[k])
          PROVE  p \in UserPages
      <4>1. CASE p \in Span(a, size)
        <5>1. is_free(vma)
          BY <3>2, <3>3, <3>5, <4>1
        <5>2. a \in FixedAddrs /\ \E len \in Sizes : size = align_up(len, PAGE_SIZE)
          BY <5>1, <2>2
        <5> QED
          BY <3>1, <4>1, <5>2 DEF GuestStaysInUser
      <4>2. CASE p \notin Span(a, size)
        BY <1>2, <3>4, <3>5, <4>2 DEF FreeInUser, is_free
      <4> QED
        BY <4>1, <4>2
    <3> QED
      BY <3>5 DEF FreeInUser, n, UserPages, Pages
  <2> QED
    BY <1>2, <2>1, <2>2, Steps
<1>3. ASSUME IInv, FreeInUser
      PROVE  PlacementIsFree
  <2>1. PlacementUnmapped
    BY <1>3, IInvPlaces
  <2>2. ASSUME NEW len \in Sizes,
               FreeRegions(vma_map, align_up(len, PAGE_SIZE)) # {},
               ValidRange(find_free_region(vma_map, align_up(len, PAGE_SIZE)),
                          align_up(len, PAGE_SIZE)),
               NEW p \in Span(find_free_region(vma_map, align_up(len, PAGE_SIZE)),
                              align_up(len, PAGE_SIZE))
        PROVE  p \in UserPages
    <3>1. PICK b \in DOMAIN vma_map : InVma(b, p) /\ is_free(vma_map[b])
      BY <2>1, <2>2 DEF PlacementUnmapped
    <3>2. p \in Int
      BY DEF Span
    <3>3. b \in Nat /\ vma_map[b].size \in Nat /\ b + vma_map[b].size <= HostTop
      BY <1>3, VmaFacts DEF IInv
    <3>4. p \in Pages /\ Holds(vma_map, b, p)
      BY <3>1, <3>2, <3>3, Arithmetic DEF InVma, Holds, Pages
    <3> QED
      BY <1>3, <3>1, <3>4 DEF FreeInUser
  <2> QED
    BY <2>1, <2>2 DEF PlacementUnmapped, PlacementIsFree
<1> QED
  BY <1>1, <1>2, <1>3, IInvInductive, PTL DEF Spec

=============================================================================
