----------------------------- MODULE Eboot_proofs -----------------------------
(***************************************************************************)
(* Proofs about the boot of eboot.bin, from its file to patched memory,    *)
(* for any files, pages and pointers: what is read of a sound file is what *)
(* it was made from, and the two scans leave no pattern behind, whatever   *)
(* it overlaps with and wherever it came from.  Then PARAM.SFO.            *)
(***************************************************************************)
EXTENDS CodePatch, Psf, SequenceTheorems, WellFoundedInduction, TLAPS

-----------------------------------------------------------------------------
(* Least and greatest numbers. *)

\* A set of naturals that is not empty has a least element, and Least names it.
LEMMA LeastOfNaturals ==
    ASSUME NEW S \in SUBSET Nat, S # {}
    PROVE  Least(S) \in S /\ \A y \in S : Least(S) <= y
<1>1. PICK x \in S : \A y \in S : ~(<<y, x>> \in OpToRel(<, Nat))
  BY NatLessThanWellFounded, WFMin
<1>2. \A y \in S : x <= y
  <2>1. SUFFICES ASSUME NEW y \in S, y < x PROVE FALSE
    OBVIOUS
  <2>2. <<y, x>> \in OpToRel(<, Nat)
    BY <2>1 DEF OpToRel
  <2> QED
    BY <1>1, <2>2
<1> QED
  BY <1>1, <1>2 DEF Least

\* Induction, with a set for the predicate.
LEMMA AllNaturals ==
    ASSUME NEW T \in SUBSET Nat, 0 \in T, \A n \in T : n + 1 \in T
    PROVE  T = Nat
<1> SUFFICES ASSUME Nat \ T # {} PROVE FALSE
  OBVIOUS
<1>1. /\ Least(Nat \ T) \in Nat \ T
      /\ \A y \in Nat \ T : Least(Nat \ T) <= y
  BY LeastOfNaturals
<1>2. Least(Nat \ T) - 1 \in T
  BY <1>1
<1> QED
  BY <1>1, <1>2

\* The values of a function on some of 1 .. n have a greatest one, and Greatest names it.
LEMMA GreatestOfValues ==
    ASSUME NEW n \in Nat, NEW I \in SUBSET (1 .. n), I # {}, NEW f, \A i \in I : f[i] \in Nat
    PROVE  /\ Greatest({f[i] : i \in I}) \in {f[i] : i \in I}
           /\ \A i \in I : f[i] <= Greatest({f[j] : j \in I})
<1> DEFINE Most(m) == \E i \in I : i <= m /\ \A j \in I : j <= m => f[j] <= f[i]
           T == {m \in Nat : (\A i \in I : i > m) \/ Most(m)}
<1>1. 0 \in T
  OBVIOUS
<1>2. ASSUME NEW m \in T PROVE m + 1 \in T
  <2>1. m \in Nat /\ m + 1 \in Nat /\ \A i \in I : i \in Nat
    OBVIOUS
  <2>2. CASE m + 1 \notin I
    <3>1. \A i \in I : i <= m + 1 <=> i <= m
      BY <2>1, <2>2
    <3>2. \A i \in I : i > m + 1 <=> i > m
      BY <2>1, <2>2
    <3> QED
      BY <1>2, <2>1, <3>1, <3>2
  <2>3. CASE m + 1 \in I /\ \A i \in I : i > m
    <3>1. \A j \in I : j <= m + 1 => j = m + 1
      BY <2>1, <2>3
    <3>2. Most(m + 1)
      BY <2>1, <2>3, <3>1
    <3> QED
      BY <2>1, <3>2
  <2>4. CASE m + 1 \in I /\ Most(m)
    <3>1. PICK i \in I : i <= m /\ \A j \in I : j <= m => f[j] <= f[i]
      BY <2>4
    <3>2. \A j \in I : j <= m + 1 => j <= m \/ j = m + 1
      BY <2>1
    <3>3. CASE f[m + 1] <= f[i]
      <4>1. \A j \in I : j <= m + 1 => f[j] <= f[i]
        BY <3>1, <3>2, <3>3
      <4>2. Most(m + 1)
        BY <2>1, <3>1, <4>1
      <4> QED
        BY <2>1, <4>2
    <3>4. CASE f[i] <= f[m + 1]
      <4>1. \A j \in I : j <= m => f[j] <= f[m + 1]
        BY <2>4, <3>1, <3>4
      <4>2. \A j \in I : j <= m + 1 => f[j] <= f[m + 1]
        BY <2>4, <3>2, <4>1
      <4>3. Most(m + 1)
        BY <2>1, <2>4, <4>2
      <4> QED
        BY <2>1, <4>3
    <3> QED
      BY <2>4, <3>1, <3>3, <3>4
  <2> QED
    BY <1>2, <2>2, <2>3, <2>4
<1>3. n \in T
  <2> HIDE DEF T
  <2>1. T = Nat
    <3>1. T \in SUBSET Nat
      BY DEF T
    <3> QED
      BY <1>1, <1>2, <3>1, AllNaturals
  <2> QED
    BY <2>1
<1>4. PICK i \in I : \A j \in I : f[j] <= f[i]
  <2>1. \A j \in I : j <= n /\ ~(j > n)
    OBVIOUS
  <2> QED
    BY <1>3, <2>1
<1> DEFINE V == {f[j] : j \in I}
<1>5. f[i] \in V /\ \A y \in V : y <= f[i]
  BY <1>4
<1> HIDE DEF V
<1>6. Greatest(V) \in V /\ \A y \in V : y <= Greatest(V)
  BY <1>5 DEF Greatest
<1> QED
  BY <1>6 DEF V

-----------------------------------------------------------------------------
(* Bytes and patterns. *)

\* A pattern is at off if each of its bytes is.
LEMMA AtBytes ==
    ASSUME NEW bytes \in Seq(Nat), NEW off \in Nat, NEW pattern \in Seq(Nat)
    PROVE  At(bytes, off, pattern) <=>
              /\ off + Len(pattern) <= Len(bytes)
              /\ \A i \in 1 .. Len(pattern) : bytes[off + i] = pattern[i]
<1> DEFINE n == Len(pattern)
           sub == SubSeq(bytes, off + 1, off + n)
<1>1. n \in Nat /\ Len(bytes) \in Nat
  OBVIOUS
<1>2. CASE off + n <= Len(bytes)
  <2>1. /\ off + 1 \in Int /\ off + n \in Int
        /\ \A i \in (off + 1) .. (off + n) : bytes[i] \in Nat
        /\ (IF off + 1 <= off + n THEN (off + n) - (off + 1) + 1 ELSE 0) = n
        /\ (off + n) - (off + 1) + 1 = n
        /\ \A i \in 1 .. n : (off + 1) + i - 1 = off + i
    BY <1>1, <1>2
  <2>2. /\ sub \in Seq(Nat)
        /\ Len(sub) = (IF off + 1 <= off + n THEN (off + n) - (off + 1) + 1 ELSE 0)
        /\ \A i \in 1 .. (off + n) - (off + 1) + 1 : sub[i] = bytes[(off + 1) + i - 1]
    BY <2>1, SubSeqProperties
  <2>3. sub \in Seq(Nat) /\ Len(sub) = n /\ \A i \in 1 .. n : sub[i] = bytes[off + i]
    BY <2>1, <2>2
  <2> HIDE DEF sub
  <2>4. sub = pattern <=> \A i \in 1 .. n : bytes[off + i] = pattern[i]
    <3>1. (\A i \in 1 .. n : sub[i] = pattern[i]) => sub = pattern
      BY <2>3, SeqEqual
    <3> QED
      BY <2>3, <3>1
  <2> QED
    BY <1>2, <2>4 DEF At, sub
<1>3. CASE ~(off + n <= Len(bytes))
  BY <1>3 DEF At
<1> QED
  BY <1>2, <1>3

\* The elements of a sequence, by place.
LEMMA Elements ==
    ASSUME NEW s \in Seq(Nat)
    PROVE  \A j \in DOMAIN s : s[j] \in Nat
OBVIOUS

\* A sequence with some bytes overwritten.
LEMMA OverwrittenType ==
    ASSUME NEW bytes \in Seq(Nat), NEW off, NEW new, \A j \in DOMAIN new : new[j] \in Nat
    PROVE  /\ Overwritten(bytes, off, new) \in Seq(Nat)
           /\ Len(Overwritten(bytes, off, new)) = Len(bytes)
<1> DEFINE res == Overwritten(bytes, off, new)
<1>1. Len(bytes) \in Nat /\ DOMAIN bytes = 1 .. Len(bytes)
  OBVIOUS
<1>2. res = [k \in 1 .. Len(bytes) |-> IF k - off \in DOMAIN new THEN new[k - off] ELSE bytes[k]]
  BY <1>1 DEF Overwritten
<1>3. \A k \in 1 .. Len(bytes) : (IF k - off \in DOMAIN new THEN new[k - off] ELSE bytes[k]) \in Nat
  BY <1>1
<1>4. res \in [1 .. Len(bytes) -> Nat]
  BY <1>2, <1>3
<1> HIDE DEF res
<1>5. res \in Seq(Nat) /\ Len(res) = Len(bytes)
  BY <1>1, <1>4
<1> QED
  BY <1>5 DEF res

LEMMA OverwrittenBytes ==
    ASSUME NEW bytes \in Seq(Nat), NEW off \in Nat, NEW new \in Seq(Nat),
           NEW k \in 1 .. Len(bytes)
    PROVE  /\ k - off \in 1 .. Len(new) => Overwritten(bytes, off, new)[k] = new[k - off]
           /\ k - off \notin 1 .. Len(new) => Overwritten(bytes, off, new)[k] = bytes[k]
<1>1. k \in DOMAIN bytes /\ DOMAIN new = 1 .. Len(new)
  OBVIOUS
<1> QED
  BY <1>1 DEF Overwritten

\* new is bytes with the n bytes of patch from off on.
Spliced(new, bytes, off, patch, n) ==
    /\ new \in Seq(Nat) /\ Len(new) = Len(bytes) /\ Len(bytes) \in Nat
    /\ \A k \in 1 .. Len(bytes) :
          /\ k - off \in 1 .. n => new[k] = patch[k - off]
          /\ k - off \notin 1 .. n => new[k] = bytes[k]

\* A patch, as the two scans write one.
LEMMA Patched ==
    ASSUME NEW bytes \in Seq(Nat), NEW off \in Nat, NEW patch \in Seq(Nat)
    PROVE  Spliced(Overwritten(bytes, off, patch), bytes, off, patch, Len(patch))
<1>1. \A j \in DOMAIN patch : patch[j] \in Nat
  BY Elements, Zenon
<1>2. /\ Overwritten(bytes, off, patch) \in Seq(Nat)
      /\ Len(Overwritten(bytes, off, patch)) = Len(bytes)
  BY <1>1, OverwrittenType, Zenon
<1>3. Len(bytes) \in Nat
  OBVIOUS
<1>4. \A k \in 1 .. Len(bytes) :
          /\ k - off \in 1 .. Len(patch) => Overwritten(bytes, off, patch)[k] = patch[k - off]
          /\ k - off \notin 1 .. Len(patch) => Overwritten(bytes, off, patch)[k] = bytes[k]
  BY OverwrittenBytes, Zenon
<1> QED
  BY <1>2, <1>3, <1>4, Zenon DEF Spliced

\* The two patterns and their patches: no byte of the trap is the first of its patch,
\* and no byte of the patch is the first of the trap.
LEMMA AssertBytes ==
    /\ AssertTrap \in Seq(Nat) /\ Len(AssertTrap) = 6
    /\ AssertPatch \in Seq(Nat) /\ Len(AssertPatch) = 6
    /\ \A i \in 1 .. 6 : AssertTrap[i] # AssertPatch[1]
    /\ \A i \in 1 .. 6 : AssertPatch[i] # AssertTrap[1]
BY DEF AssertTrap, AssertPatch

LEMMA SyscallBytes ==
    /\ SYSCALL \in Seq(Nat) /\ Len(SYSCALL) = 2
    /\ UD2 \in Seq(Nat) /\ Len(UD2) = 2
    /\ SYSCALL[1] = 15 /\ SYSCALL[2] = 5 /\ UD2[1] = 15 /\ UD2[2] = 11
BY DEF SYSCALL, UD2

\* No assertion trap begins before off.
NoTrapBefore(bytes, off) == \A q \in Nat : q < off => ~At(bytes, q, AssertTrap)

\* No SYSCALL begins before off.
NoSyscallBefore(bytes, off) == \A q \in Nat : q < off => ~At(bytes, q, SYSCALL)

\* The patch of an assertion makes no new one, in front of it, across it or in it.
LEMMA AssertionPatched ==
    ASSUME NEW bytes \in Seq(Nat), NEW off \in Nat, NoTrapBefore(bytes, off),
           off + 6 <= Len(bytes)
    PROVE  NoTrapBefore(Overwritten(bytes, off, AssertPatch), off + 6)
<1> DEFINE new == Overwritten(bytes, off, AssertPatch)
<1>1. SUFFICES ASSUME NEW q \in Nat, q < off + 6, At(new, q, AssertTrap)
               PROVE  FALSE
  BY DEF NoTrapBefore
<1>2. /\ AssertPatch \in Seq(Nat) /\ Len(AssertPatch) = 6
      /\ AssertTrap \in Seq(Nat) /\ Len(AssertTrap) = 6
  BY AssertBytes
<1>c. Spliced(new, bytes, off, AssertPatch, 6)
  <2>1. Spliced(new, bytes, off, AssertPatch, Len(AssertPatch))
    BY <1>2, Patched, Zenon
  <2> QED
    BY <1>2, <2>1, Zenon
<1> HIDE DEF new
<1>3. new \in Seq(Nat) /\ Len(new) = Len(bytes) /\ Len(bytes) \in Nat
  BY <1>c, Zenon DEF Spliced
<1>a. \A k \in 1 .. Len(bytes) :
             /\ k - off \in 1 .. 6 => new[k] = AssertPatch[k - off]
             /\ k - off \notin 1 .. 6 => new[k] = bytes[k]
  BY <1>c, Zenon DEF Spliced
<1>4. q + 6 <= Len(bytes)
  BY <1>1, <1>2, <1>3, AtBytes
<1>b. ASSUME NEW i \in 1 .. 6 PROVE new[q + i] = AssertTrap[i]
  <2>1. i \in 1 .. Len(AssertTrap)
    BY <1>2
  <2> QED
    BY <1>1, <1>2, <1>3, <2>1, AtBytes
<1>5. CASE q + 6 <= off
  <2>1. \A i \in 1 .. 6 : q + i \in 1 .. Len(bytes) /\ (q + i) - off \notin 1 .. 6
    BY <1>3, <1>4, <1>5
  <2>2. \A i \in 1 .. 6 : bytes[q + i] = AssertTrap[i]
    BY <1>a, <1>b, <2>1
  <2>3. At(bytes, q, AssertTrap)
    BY <1>2, <1>4, <2>2, AtBytes
  <2> QED
    BY <1>5, <2>3 DEF NoTrapBefore
<1>6. CASE off < q + 6 /\ q < off
  <2> DEFINE i == off + 1 - q
  <2>1. i \in 1 .. 6 /\ q + i = off + 1 /\ off + 1 \in 1 .. Len(bytes) /\ (off + 1) - off = 1
    BY <1>3, <1>4, <1>6
  <2> HIDE DEF i
  <2>2. new[off + 1] = AssertPatch[1]
    BY <1>a, <2>1
  <2>3. AssertTrap[i] = AssertPatch[1]
    BY <1>b, <2>1, <2>2
  <2> QED
    BY <2>1, <2>3, AssertBytes
<1>7. CASE off <= q
  <2> DEFINE i == q + 1 - off
  <2>1. i \in 1 .. 6 /\ q + 1 \in 1 .. Len(bytes) /\ (q + 1) - off = i /\ 1 \in 1 .. 6
    BY <1>1, <1>3, <1>4, <1>7
  <2> HIDE DEF i
  <2>2. AssertPatch[i] = AssertTrap[1]
    BY <1>a, <1>b, <2>1
  <2> QED
    BY <2>1, <2>2, AssertBytes
<1> QED
  BY <1>5, <1>6, <1>7

\* The patch of a SYSCALL makes no new one.
LEMMA SyscallPatched ==
    ASSUME NEW bytes \in Seq(Nat), NEW off \in Nat, NoSyscallBefore(bytes, off),
           At(bytes, off, SYSCALL)
    PROVE  NoSyscallBefore(Overwritten(bytes, off, UD2), off + 1)
<1> DEFINE new == Overwritten(bytes, off, UD2)
<1>1. SUFFICES ASSUME NEW q \in Nat, q < off + 1, At(new, q, SYSCALL)
               PROVE  FALSE
  BY DEF NoSyscallBefore
<1>2. /\ UD2 \in Seq(Nat) /\ Len(UD2) = 2
      /\ SYSCALL \in Seq(Nat) /\ Len(SYSCALL) = 2
  BY SyscallBytes
<1>c. Spliced(new, bytes, off, UD2, 2)
  <2>1. Spliced(new, bytes, off, UD2, Len(UD2))
    BY <1>2, Patched, Zenon
  <2> QED
    BY <1>2, <2>1, Zenon
<1> HIDE DEF new
<1>3. new \in Seq(Nat) /\ Len(new) = Len(bytes) /\ Len(bytes) \in Nat
  BY <1>c, Zenon DEF Spliced
<1>a. \A k \in 1 .. Len(bytes) :
             /\ k - off \in 1 .. 2 => new[k] = UD2[k - off]
             /\ k - off \notin 1 .. 2 => new[k] = bytes[k]
  BY <1>c, Zenon DEF Spliced
<1>4. q + 2 <= Len(bytes) /\ new[q + 1] = 15 /\ new[q + 2] = 5
  <2>1. q + 2 <= Len(bytes)
    BY <1>1, <1>2, <1>3, AtBytes
  <2>2. 1 \in 1 .. Len(SYSCALL) /\ 2 \in 1 .. Len(SYSCALL)
    BY <1>2
  <2>a. \A i \in 1 .. Len(SYSCALL) : new[q + i] = SYSCALL[i]
    BY <1>1, <1>2, <1>3, AtBytes, Zenon
  <2>3. new[q + 1] = SYSCALL[1] /\ new[q + 2] = SYSCALL[2]
    BY <2>2, <2>a
  <2> QED
    BY <2>1, <2>3, SyscallBytes
<1>5. off + 2 <= Len(bytes)
  BY <1>2, AtBytes
<1>6. new[off + 1] = 15 /\ new[off + 2] = 11
  <2>1. /\ off + 1 \in 1 .. Len(bytes) /\ off + 2 \in 1 .. Len(bytes)
        /\ (off + 1) - off = 1 /\ (off + 2) - off = 2 /\ 1 \in 1 .. 2 /\ 2 \in 1 .. 2
    BY <1>3, <1>5
  <2> QED
    BY <1>a, <2>1, SyscallBytes
<1>7. CASE q = off
  BY <1>4, <1>6, <1>7
<1>8. CASE q + 1 = off
  <2>1. q + 2 = off + 1
    BY <1>8
  <2> QED
    BY <1>4, <1>6, <2>1
<1>9. CASE q + 2 <= off
  <2>1. \A i \in 1 .. 2 : q + i \in 1 .. Len(bytes) /\ (q + i) - off \notin 1 .. 2
    BY <1>3, <1>4, <1>9
  <2>2. \A i \in 1 .. 2 : i = 1 \/ i = 2
    OBVIOUS
  <2>3. \A i \in 1 .. 2 : bytes[q + i] = SYSCALL[i]
    BY <1>a, <1>4, <2>1, <2>2, SyscallBytes
  <2>4. At(bytes, q, SYSCALL)
    BY <1>2, <1>4, <2>3, AtBytes
  <2> QED
    BY <1>9, <2>4 DEF NoSyscallBefore
<1> QED
  BY <1>1, <1>7, <1>8, <1>9

-----------------------------------------------------------------------------
(* The loader. *)

\* What is known of the file while it is loaded.
LEMMA FileTypes ==
    ASSUME file \in Files
    PROVE  /\ is_self \in BOOLEAN
           /\ program_headers \in Seq(ProgramHeader)
           /\ self_segments \in Seq(SelfSegmentHeader)
           /\ data \in Seq(Nat)
BY ElfLoaderAssumption DEF is_self, program_headers, self_segments, data

\* The fields of a program header.
LEMMA HeaderTypes ==
    ASSUME file \in Files, NEW i \in DOMAIN program_headers
    PROVE  /\ i \in 1 .. Len(program_headers)
           /\ program_headers[i].offset \in Nat /\ program_headers[i].vaddr \in Nat
           /\ program_headers[i].filesz \in Nat /\ program_headers[i].memsz \in Nat
<1> DEFINE ph == program_headers
<1>1. ph \in Seq(ProgramHeader)
  BY FileTypes
<1> HIDE DEF ph
<1>2. i \in 1 .. Len(ph) /\ ph[i] \in ProgramHeader
  BY <1>1 DEF ph
<1> QED
  BY <1>2 DEF ProgramHeader, ph

\* The fields of a segment header.
LEMMA SegmentTypes ==
    ASSUME file \in Files, NEW s \in DOMAIN self_segments
    PROVE  s \in Nat /\ self_segments[s].file_offset \in Nat
<1> DEFINE seg == self_segments
<1>1. seg \in Seq(SelfSegmentHeader)
  BY FileTypes
<1> HIDE DEF seg
<1>2. s \in Nat /\ seg[s] \in SelfSegmentHeader
  BY <1>1 DEF seg
<1> QED
  BY <1>2 DEF SelfSegmentHeader, seg

\* Every program header has a place in the file: no subtraction of the search goes
\* below zero.
LEMMA ResolveType ==
    ASSUME file \in Files, NEW i \in DOMAIN program_headers
    PROVE  resolve_file_offset(i) \in Nat
<1>1. program_headers[i].offset \in Nat
  BY HeaderTypes
<1>2. Direct(i) \subseteq DOMAIN self_segments /\ Parents(i) \subseteq DOMAIN self_segments
      /\ DOMAIN self_segments \subseteq Nat
  BY SegmentTypes DEF Direct, Parents
<1>3. CASE ~is_self
  BY <1>1, <1>3 DEF resolve_file_offset
<1>4. CASE is_self /\ Direct(i) # {}
  <2>1. Least(Direct(i)) \in DOMAIN self_segments
    BY <1>2, <1>4, LeastOfNaturals
  <2>2. self_segments[Least(Direct(i))].file_offset \in Nat
    BY <2>1, SegmentTypes
  <2> QED
    BY <1>4, <2>2 DEF resolve_file_offset
<1>5. CASE is_self /\ Direct(i) = {} /\ Parents(i) # {}
  <2> DEFINE s == Least(Parents(i))
             parent == program_headers[self_segments[s].id]
  <2>1. s \in Parents(i)
    BY <1>2, <1>5, LeastOfNaturals
  <2>2. /\ self_segments[s].file_offset \in Nat
        /\ self_segments[s].id \in DOMAIN program_headers
        /\ parent.offset <= program_headers[i].offset
    BY <1>2, <2>1, SegmentTypes DEF Parents, InRange
  <2>3. parent.offset \in Nat
    BY <2>2, HeaderTypes
  <2>4. resolve_file_offset(i) =
            self_segments[s].file_offset + (program_headers[i].offset - parent.offset)
    BY <1>5 DEF resolve_file_offset
  <2> HIDE DEF s, parent
  <2> QED
    BY <1>1, <2>2, <2>3, <2>4
<1>6. CASE is_self /\ Direct(i) = {} /\ Parents(i) = {}
  <2>1. elf_offset \in Nat
    BY FileTypes DEF elf_offset
  <2>2. resolve_file_offset(i) = elf_offset + program_headers[i].offset
    BY <1>6 DEF resolve_file_offset
  <2> QED
    BY <1>1, <2>1, <2>2
<1> QED
  BY <1>3, <1>4, <1>5, <1>6, FileTypes

\* Rounding up to whole pages.
LEMMA WholePages ==
    ASSUME NEW x \in Int, NEW page \in Nat \ {0}
    PROVE  /\ ((x + page - 1) \div page) * page \in Int
           /\ x <= ((x + page - 1) \div page) * page
<1> DEFINE y == x + page - 1
           q == y \div page
           r == y % page
<1>1. y \in Int /\ q \in Int /\ r \in 0 .. page - 1 /\ y = page * q + r
  OBVIOUS
<1>2. q * page \in Int /\ q * page = page * q
  BY <1>1
<1> HIDE DEF q, r
<1>3. q * page = y - r
  BY <1>1, <1>2
<1>4. x <= q * page
  BY <1>1, <1>3
<1> QED
  BY <1>2, <1>4 DEF q

\* The memory of a module has a size.
LEMMA SizeType ==
    ASSUME file \in Files, Loads # {}
    PROVE  /\ min_addr \in Nat /\ \A i \in Loads : min_addr <= program_headers[i].vaddr
           /\ aligned_base_size \in Int
           /\ \A i \in Loads :
                 program_headers[i].vaddr + program_headers[i].memsz - min_addr <= aligned_base_size
<1>1. Loads \subseteq DOMAIN program_headers
  BY DEF Loads, OfType
<1>2. \A i \in Loads : program_headers[i].vaddr \in Nat /\ program_headers[i].memsz \in Nat
  BY <1>1, HeaderTypes
<1>3. min_addr \in Nat /\ \A i \in Loads : min_addr <= program_headers[i].vaddr
  <2> DEFINE S == {program_headers[i].vaddr : i \in Loads}
  <2>1. S \in SUBSET Nat /\ S # {}
    BY <1>2
  <2>2. Least(S) \in S /\ \A y \in S : Least(S) <= y
    BY <2>1, LeastOfNaturals
  <2> QED
    BY <2>1, <2>2 DEF min_addr
<1>4. /\ max_addr \in Nat
      /\ \A i \in Loads : program_headers[i].vaddr + program_headers[i].memsz <= max_addr
  <2> DEFINE f == [i \in Loads |-> program_headers[i].vaddr + program_headers[i].memsz]
             n == Len(program_headers)
  <2>1. n \in Nat /\ Loads \in SUBSET (1 .. n)
    BY <1>1, FileTypes
  <2>2. \A i \in Loads : f[i] \in Nat
    BY <1>2
  <2>3. {program_headers[i].vaddr + program_headers[i].memsz : i \in Loads} = {f[i] : i \in Loads}
    OBVIOUS
  <2> HIDE DEF f, n
  <2>4. /\ Greatest({f[i] : i \in Loads}) \in {f[i] : i \in Loads}
        /\ \A i \in Loads : f[i] <= Greatest({f[j] : j \in Loads})
    BY <2>1, <2>2, GreatestOfValues
  <2>5. max_addr = Greatest({f[i] : i \in Loads})
    BY <2>3 DEF max_addr
  <2>6. \A i \in Loads : f[i] = program_headers[i].vaddr + program_headers[i].memsz
    BY DEF f
  <2> QED
    BY <2>2, <2>4, <2>5, <2>6
<1>5. aligned_base_size \in Int /\ max_addr - min_addr <= aligned_base_size
  <2>1. PAGE_SIZE \in Nat \ {0} /\ max_addr - min_addr \in Int
    BY <1>3, <1>4, ElfLoaderAssumption
  <2> QED
    BY <2>1, WholePages DEF aligned_base_size
<1> QED
  BY <1>2, <1>3, <1>4, <1>5

\* The memory of the module is a sequence of bytes.
ElfInv ==
    /\ file \in Files
    /\ at \in Nat
    /\ step = "copy" => at > 0
    /\ image \in Seq(Nat)

\* New memory is one.
LEMMA MapKeepsImage ==
    ASSUME file \in Files, Loads # {}
    PROVE  [k \in 1 .. aligned_base_size |-> 0] \in Seq(Nat)
<1> DEFINE n == aligned_base_size
           m == IF n < 0 THEN 0 ELSE n
<1>1. n \in Int
  BY SizeType
<1> HIDE DEF n
<1>2. m \in Nat /\ 1 .. n = 1 .. m
  BY <1>1
<1> HIDE DEF m
<1>3. [k \in 1 .. n |-> 0] \in [1 .. m -> Nat]
  BY <1>2
<1>4. [1 .. m -> Nat] \subseteq Seq(Nat)
  BY <1>2
<1> QED
  BY <1>3, <1>4, Zenon DEF n

\* Copying a segment keeps it one: all that is copied is in the file.
LEMMA CopyKeepsImage ==
    ASSUME ElfInv, CopySegment
    PROVE  image' \in Seq(Nat) /\ Len(image') = Len(image)
<1> DEFINE i == at
           src == resolve_file_offset(i)
           dest == program_headers[i].vaddr - min_addr
           cell(k) == IF k - dest \in 1 .. Copied(i) THEN data[src + k - dest] ELSE image[k]
<1>1. /\ i \in DOMAIN program_headers
      /\ image' = IF i \notin Loads THEN image ELSE [k \in DOMAIN image |-> cell(k)]
  <2>1. program_headers \in Seq(ProgramHeader) /\ i \in Nat /\ i > 0 /\ i <= Len(program_headers)
    BY FileTypes DEF ElfInv, CopySegment
  <2> QED
    BY <2>1 DEF CopySegment
<1>2. CASE i \notin Loads
  BY <1>1, <1>2 DEF ElfInv
<1>3. CASE i \in Loads
  <2>1. src \in Nat /\ dest \in Int /\ program_headers[i].filesz \in Nat /\ data \in Seq(Nat)
    BY <1>1, <1>3, ResolveType, SizeType, HeaderTypes, FileTypes DEF ElfInv
  <2> DEFINE n == Copied(i)
  <2>2. n \in Nat /\ (n > 0 => src + n <= Len(data))
    BY <2>1 DEF Copied
  <2>3. Len(image) \in Nat /\ DOMAIN image = 1 .. Len(image)
        /\ \A k \in 1 .. Len(image) : image[k] \in Nat
    BY DEF ElfInv
  <2>4. image' = [k \in 1 .. Len(image) |-> cell(k)]
    BY <1>1, <1>3, <2>3
  <2> HIDE DEF src, dest, n
  <2>5. ASSUME NEW k \in 1 .. Len(image), k - dest \in 1 .. n
        PROVE  data[src + k - dest] \in Nat
    <3>1. src + k - dest \in 1 .. Len(data)
      BY <2>1, <2>2, <2>3, <2>5
    <3> QED
      BY <2>1, <3>1
  <2>6. \A k \in 1 .. Len(image) : cell(k) \in Nat
    BY <2>3, <2>5 DEF n
  <2>7. image' \in [1 .. Len(image) -> Nat]
    BY <2>4, <2>6
  <2> QED
    BY <2>3, <2>7
<1> QED
  BY <1>2, <1>3

\* Every step of the loader keeps it.
LEMMA LoaderKeeps ==
    ASSUME ElfInv, Next
    PROVE  ElfInv'
<1>1. CASE ParseHeaders
  BY <1>1 DEF ElfInv, ParseHeaders
<1>2. CASE ReadDynamicEntry
  BY <1>2 DEF ElfInv, ReadDynamicEntry
<1>3. CASE ReadDynlibData
  BY <1>3 DEF ElfInv, ReadDynlibData
<1>4. CASE MapModule
  <2>1. CASE /\ Loads # {}
             /\ image' = [k \in 1 .. aligned_base_size |-> 0] /\ step' = "copy" /\ at' = 1
    <3>1. image' \in Seq(Nat)
      BY <2>1, MapKeepsImage DEF ElfInv
    <3> QED
      BY <1>4, <2>1, <3>1 DEF ElfInv, MapModule
  <2>2. CASE step' = "failed" /\ UNCHANGED <<image, at>>
    BY <1>4, <2>2 DEF ElfInv, MapModule
  <2> QED
    BY <1>4, <2>1, <2>2 DEF MapModule
<1>5. CASE CopySegment
  <2>1. image' \in Seq(Nat)
    BY <1>5, CopyKeepsImage
  <2> QED
    BY <1>5, <2>1 DEF ElfInv, CopySegment
<1>6. CASE ParseRelocation
  BY <1>6 DEF ElfInv, ParseRelocation
<1>7. CASE Loaded
  BY <1>7 DEF ElfInv, Loaded
<1> QED
  BY <1>1, <1>2, <1>3, <1>4, <1>5, <1>6, <1>7 DEF Next

-----------------------------------------------------------------------------
(* Sound files. *)

\* The words of program header i are from off on in the file being loaded.
WordsAt(i, off) ==
    /\ Whole => off + program_headers[i].filesz <= Len(data)
    /\ \A k \in 1 .. program_headers[i].filesz :
          off + k <= Len(data) => data[off + k] = ElfWord(i, k)

\* So they are if the file holds them.
LEMMA HoldsWords ==
    ASSUME NEW i, NEW off, Holds(file, i, off)
    PROVE  WordsAt(i, off)
BY DEF Holds, WordsAt, Whole, ElfWord, program_headers, data

\* The program header of a blocked segment.
LEMMA BlockHolds ==
    ASSUME file \in Files, Sound(file), is_self, NEW s \in DOMAIN self_segments,
           self_segments[s].blocked, self_segments[s].id \in DOMAIN program_headers
    PROVE  WordsAt(self_segments[s].id, self_segments[s].file_offset)
<1>1. s \in Blocks(file)
  BY DEF Blocks, self_segments, program_headers
<1>2. Holds(file, self_segments[s].id, self_segments[s].file_offset)
  BY <1>1 DEF Sound, is_self, self_segments
<1> QED
  BY <1>2, HoldsWords

\* resolve_file_offset finds the words of every program header of a sound file: in a
\* segment of its own, inside that of another, or behind the headers.
LEMMA ResolveFinds ==
    ASSUME file \in Files, Sound(file), NEW i \in DOMAIN program_headers
    PROVE  WordsAt(i, resolve_file_offset(i))
<1>1. Direct(i) \subseteq DOMAIN self_segments /\ Parents(i) \subseteq DOMAIN self_segments
      /\ DOMAIN self_segments \subseteq Nat
  BY SegmentTypes DEF Direct, Parents
<1>2. CASE ~is_self
  <2>1. Holds(file, i, program_headers[i].offset)
    BY <1>2 DEF Sound, is_self, program_headers
  <2> QED
    BY <1>2, <2>1, HoldsWords DEF resolve_file_offset
<1>3. CASE is_self /\ Direct(i) # {}
  <2> DEFINE s == Least(Direct(i))
  <2>1. s \in Direct(i)
    BY <1>1, <1>3, LeastOfNaturals
  <2>2. s \in DOMAIN self_segments /\ self_segments[s].blocked /\ self_segments[s].id = i
    BY <2>1 DEF Direct
  <2>3. resolve_file_offset(i) = self_segments[s].file_offset
    BY <1>3 DEF resolve_file_offset
  <2> HIDE DEF s
  <2> QED
    BY <1>3, <2>2, <2>3, BlockHolds
<1>4. CASE is_self /\ Direct(i) = {} /\ Parents(i) # {}
  <2> DEFINE s == Least(Parents(i))
             j == self_segments[s].id
             p == program_headers[j]
             h == program_headers[i]
             base == self_segments[s].file_offset
             off == base + (h.offset - p.offset)
  <2>1. s \in Parents(i)
    BY <1>1, <1>4, LeastOfNaturals
  <2>2. resolve_file_offset(i) = off
    BY <1>4 DEF resolve_file_offset
  <2>3. /\ s \in DOMAIN self_segments /\ self_segments[s].blocked /\ j \in DOMAIN program_headers
        /\ p.offset <= h.offset /\ h.offset < p.offset + p.filesz
    BY <2>1 DEF Parents, InRange
  <2> HIDE DEF s
  <2>4. s \in Around(file, i)
    BY <2>3 DEF Around, Blocks, self_segments, program_headers
  <2>5. ~\E x \in Blocks(file) : self_segments[x].id = i
    BY <1>4 DEF Direct, Blocks, self_segments, program_headers
  <2>6. h.offset + h.filesz <= p.offset + p.filesz
    BY <1>4, <2>4, <2>5 DEF Sound, is_self, self_segments, program_headers
  <2>7. WordsAt(j, base)
    BY <1>4, <2>3, BlockHolds
  <2>8. /\ base \in Nat /\ p.offset \in Nat /\ p.filesz \in Nat /\ h.offset \in Nat /\ h.filesz \in Nat
        /\ Len(data) \in Nat
    BY <2>3, SegmentTypes, HeaderTypes, FileTypes
  <2>9. Whole => base + p.filesz <= Len(data)
    BY <2>7 DEF WordsAt
  <2>10. \A k \in 1 .. p.filesz : base + k <= Len(data) => data[base + k] = file.elf[p.offset + k]
    BY <2>7 DEF WordsAt, ElfWord
  <2> HIDE DEF base, p, h
  <2>11. Whole => off + h.filesz <= Len(data)
    BY <2>3, <2>6, <2>8, <2>9
  <2>12. ASSUME NEW k \in 1 .. h.filesz, off + k <= Len(data)
         PROVE  data[off + k] = file.elf[h.offset + k]
    <3> DEFINE m == h.offset - p.offset + k
    <3>1. m \in 1 .. p.filesz /\ base + m = off + k /\ p.offset + m = h.offset + k
      BY <2>3, <2>6, <2>8
    <3> HIDE DEF m, off
    <3> QED
      BY <2>10, <2>12, <3>1
  <2>13. WordsAt(i, off)
    BY <2>11, <2>12 DEF WordsAt, ElfWord, h
  <2> QED
    BY <2>2, <2>13
<1>5. CASE is_self /\ Direct(i) = {} /\ Parents(i) = {}
  <2>1. ~\E x \in Blocks(file) : self_segments[x].id = i
    BY <1>5 DEF Direct, Blocks, self_segments, program_headers
  <2>2. Around(file, i) = {}
    BY <1>5 DEF Around, Blocks, Parents, InRange, self_segments, program_headers
  <2>3. Holds(file, i, 1 + Len(self_segments) + program_headers[i].offset)
    BY <1>5, <2>1, <2>2 DEF Sound, is_self, self_segments, program_headers
  <2>4. resolve_file_offset(i) = 1 + Len(self_segments) + program_headers[i].offset
    BY <1>5 DEF resolve_file_offset, elf_offset
  <2> QED
    BY <2>3, <2>4, HoldsWords
<1> QED
  BY <1>2, <1>3, <1>4, <1>5, FileTypes

-----------------------------------------------------------------------------
(* The dynamic entries. *)

\* What was read so far is the beginning of the PT_DYNAMIC of the ELF inside.
EntriesRead ==
    OfType("Dynamic") # {} =>
        /\ Len(dynamic_entries) <= program_headers[dynamic_phdr].filesz
        /\ \A k \in DOMAIN dynamic_entries :
              dynamic_entries[k] = ElfWord(dynamic_phdr, k) /\ ~IsNull(dynamic_entries[k])

\* All of it, up to DT_NULL.
EntriesAll ==
    OfType("Dynamic") # {} /\ Whole
        /\ Len(dynamic_entries) < program_headers[dynamic_phdr].filesz =>
            IsNull(ElfWord(dynamic_phdr, Len(dynamic_entries) + 1))

DynamicInv ==
    /\ dynamic_entries \in Seq(Nat)
    /\ step \in {"headers", "dynamic"} => at = Len(dynamic_entries)
    /\ EntriesRead
    /\ step \in {"map", "copy", "loaded"} => EntriesAll

\* There is a last program header of a type.
LEMMA LastHeader ==
    ASSUME file \in Files, NEW type, OfType(type) # {}
    PROVE  Greatest(OfType(type)) \in DOMAIN program_headers
<1> DEFINE I == OfType(type)
           f == [i \in I |-> i]
           n == Len(program_headers)
<1>1. n \in Nat /\ I \in SUBSET (1 .. n) /\ I \subseteq DOMAIN program_headers
  BY FileTypes DEF OfType
<1>2. {f[i] : i \in I} = I /\ \A i \in I : f[i] \in Nat
  BY <1>1
<1> HIDE DEF I, f, n
<1>3. I # {}
  BY DEF I
<1>4. Greatest({f[i] : i \in I}) \in {f[i] : i \in I}
  BY <1>1, <1>2, <1>3, GreatestOfValues
<1>5. Greatest(I) \in I
  BY <1>2, <1>4
<1> QED
  BY <1>1, <1>5 DEF I

LEMMA DynamicHeader ==
    ASSUME file \in Files, OfType("Dynamic") # {}
    PROVE  dynamic_phdr \in DOMAIN program_headers
BY LastHeader DEF dynamic_phdr

\* An entry that is read is the next one of the ELF inside.
LEMMA EntryKeeps ==
    ASSUME ElfInv, Sound(file), DynamicInv, ReadDynamicEntry
    PROVE  DynamicInv'
<1> DEFINE d == dynamic_phdr
           off == resolve_file_offset(d)
           w == DynamicWord
           n == Len(dynamic_entries)
<1>1. /\ file \in Files /\ step = "dynamic" /\ at = n /\ OfType("Dynamic") # {}
      /\ at < program_headers[d].filesz /\ off + at < Len(data) /\ ~IsNull(w)
      /\ dynamic_entries' = Append(dynamic_entries, w) /\ at' = at + 1
      /\ UNCHANGED <<file, step>>
  BY DEF ElfInv, DynamicInv, ReadDynamicEntry, MoreDynamic
<1>2. d \in DOMAIN program_headers
  BY <1>1, DynamicHeader
<1>3. off \in Nat /\ program_headers[d].filesz \in Nat /\ data \in Seq(Nat) /\ WordsAt(d, off)
  BY <1>1, <1>2, ResolveType, ResolveFinds, HeaderTypes, FileTypes
<1>4. w = data[off + at + 1]
  BY DEF DynamicWord
<1>5. dynamic_entries \in Seq(Nat) /\ n \in Nat /\ EntriesRead
  BY DEF DynamicInv
<1>6. /\ program_headers' = program_headers /\ data' = data /\ dynamic_phdr' = dynamic_phdr
      /\ OfType("Dynamic")' = OfType("Dynamic")
      /\ \A k : ElfWord(dynamic_phdr, k)' = ElfWord(dynamic_phdr, k)
  BY <1>1 DEF program_headers, data, dynamic_phdr, OfType, ElfWord
<1> HIDE DEF d, off, w, n
<1>7. w \in Nat /\ w = ElfWord(d, n + 1)
  <2>1. n + 1 \in 1 .. program_headers[d].filesz /\ off + (n + 1) <= Len(data)
        /\ off + (n + 1) = off + at + 1 /\ off + at + 1 \in 1 .. Len(data)
    <3>1. at = n /\ at < program_headers[d].filesz /\ off + at < Len(data)
      BY <1>1
    <3>2. off \in Nat /\ program_headers[d].filesz \in Nat /\ n \in Nat /\ Len(data) \in Nat
      BY <1>3, <1>5
    <3> QED
      BY <3>1, <3>2
  <2> QED
    BY <1>3, <1>4, <2>1 DEF WordsAt
<1>8. /\ dynamic_entries' \in Seq(Nat) /\ Len(dynamic_entries') = n + 1
      /\ dynamic_entries'[n + 1] = w
      /\ \A k \in 1 .. n : dynamic_entries'[k] = dynamic_entries[k]
  BY <1>1, <1>5, <1>7 DEF n
<1>9. EntriesRead'
  <2>1. n + 1 <= program_headers[d].filesz
    BY <1>1, <1>3, <1>5
  <2>2. \A k \in DOMAIN dynamic_entries' : k \in 1 .. n \/ k = n + 1
    BY <1>5, <1>8
  <2>3. \A k \in 1 .. n : dynamic_entries[k] = ElfWord(d, k) /\ ~IsNull(dynamic_entries[k])
    BY <1>1, <1>5 DEF EntriesRead, n, d
  <2>4. \A k \in DOMAIN dynamic_entries' :
            dynamic_entries'[k] = ElfWord(d, k) /\ ~IsNull(dynamic_entries'[k])
    BY <1>1, <1>7, <1>8, <2>2, <2>3
  <2>5. /\ Len(dynamic_entries') <= program_headers'[dynamic_phdr'].filesz
        /\ \A k \in DOMAIN dynamic_entries' :
              dynamic_entries'[k] = ElfWord(dynamic_phdr, k)' /\ ~IsNull(dynamic_entries'[k])
    BY <1>6, <1>8, <2>1, <2>4 DEF d
  <2> QED
    BY <2>5 DEF EntriesRead, IsNull, First
<1> QED
  BY <1>1, <1>8, <1>9 DEF DynamicInv, n

\* The loop stops at DT_NULL unless the file or the segment ends.
LEMMA EntriesEnd ==
    ASSUME ElfInv, Sound(file), DynamicInv, step = "dynamic", ~MoreDynamic
    PROVE  EntriesAll
<1> DEFINE d == dynamic_phdr
           off == resolve_file_offset(d)
           n == Len(dynamic_entries)
<1>1. SUFFICES ASSUME OfType("Dynamic") # {}, Whole, n < program_headers[d].filesz
               PROVE  IsNull(ElfWord(d, n + 1))
  BY DEF EntriesAll
<1>2. file \in Files /\ at = n /\ n \in Nat
  BY DEF ElfInv, DynamicInv
<1>3. d \in DOMAIN program_headers
  BY <1>1, <1>2, DynamicHeader
<1>4. off \in Nat /\ program_headers[d].filesz \in Nat /\ data \in Seq(Nat) /\ WordsAt(d, off)
  BY <1>2, <1>3, ResolveType, ResolveFinds, HeaderTypes, FileTypes
<1>5. off + program_headers[d].filesz <= Len(data)
  BY <1>1, <1>4 DEF WordsAt
<1>6. off + at < Len(data) => IsNull(DynamicWord)
  BY <1>1, <1>2 DEF MoreDynamic
<1>7. DynamicWord = data[off + at + 1]
  BY DEF DynamicWord
<1> HIDE DEF d, off, n
<1>8. /\ n + 1 \in 1 .. program_headers[d].filesz /\ off + (n + 1) <= Len(data)
      /\ off + (n + 1) = off + at + 1 /\ off + at < Len(data)
  BY <1>1, <1>2, <1>4, <1>5
<1>9. DynamicWord = ElfWord(d, n + 1)
  BY <1>4, <1>7, <1>8 DEF WordsAt
<1> QED
  BY <1>6, <1>8, <1>9

\* A step that reads no entry.
LEMMA EntriesSame ==
    ASSUME DynamicInv, UNCHANGED <<file, dynamic_entries>>,
           step' \in {"headers", "dynamic"} => at' = Len(dynamic_entries),
           step' \in {"map", "copy", "loaded"} => EntriesAll
    PROVE  DynamicInv'
<1>1. EntriesRead'
  BY DEF DynamicInv, EntriesRead, OfType, program_headers, dynamic_phdr, ElfWord, IsNull
<1>2. EntriesAll => EntriesAll'
  BY DEF EntriesAll, OfType, program_headers, dynamic_phdr, ElfWord, IsNull, Whole, data
<1> QED
  BY <1>1, <1>2 DEF DynamicInv

\* Every step of the loader keeps it.
LEMMA DynamicKeeps ==
    ASSUME ElfInv, Sound(file), DynamicInv, Next
    PROVE  DynamicInv'
<1>1. CASE ParseHeaders
  BY <1>1, EntriesSame DEF ParseHeaders, DynamicInv
<1>2. CASE ReadDynamicEntry
  BY <1>2, EntryKeeps
<1>3. CASE ReadDynlibData
  BY <1>3, EntriesEnd, EntriesSame DEF ReadDynlibData
<1>4. CASE MapModule
  BY <1>4, EntriesSame DEF MapModule, DynamicInv
<1>5. CASE CopySegment
  BY <1>5, EntriesSame DEF CopySegment, DynamicInv
<1>6. CASE ParseRelocation
  BY <1>6, EntriesSame DEF ParseRelocation, DynamicInv
<1>7. CASE Loaded
  BY <1>7, EntriesSame DEF Loaded, DynamicInv
<1> QED
  BY <1>1, <1>2, <1>3, <1>4, <1>5, <1>6, <1>7 DEF Next

-----------------------------------------------------------------------------
(* The memory of the module. *)

\* The value of a dynamic entry.
LEMMA DynamicValue ==
    ASSUME dynamic_entries \in Seq(Nat), NEW tag, HasTag(tag)
    PROVE  dynamic_value(tag) \in Nat
<1>1. WithTag(tag) \in SUBSET Nat /\ WithTag(tag) # {} /\ WithTag(tag) \subseteq DOMAIN dynamic_entries
  BY DEF WithTag, HasTag
<1>2. Least(WithTag(tag)) \in DOMAIN dynamic_entries
  BY <1>1, LeastOfNaturals
<1>3. dynamic_entries[Least(WithTag(tag))] \in Nat
  BY <1>2
<1> QED
  BY <1>3 DEF dynamic_value, Second

\* The entries of one table.
LEMMA TableEntries ==
    ASSUME NEW m \in Nat, NEW n \in Nat
    PROVE  LET t == [k \in 1 .. n |-> m + k - 1]
           IN  t \in Seq(Nat) /\ Len(t) = n /\ \A k \in 1 .. n : t[k] = m + k - 1
<1> DEFINE t == [k \in 1 .. n |-> m + k - 1]
<1>1. \A k \in 1 .. n : m + k - 1 \in Nat
  OBVIOUS
<1>2. t \in [1 .. n -> Nat]
  BY <1>1
<1>3. t \in Seq(Nat) /\ Len(t) = n
  BY <1>2
<1> QED
  BY <1>3

\* Two elements, one behind the other.
LEMMA PairOf ==
    ASSUME NEW x, NEW y
    PROVE  LET p == <<x>> \o <<y>>
           IN  Len(p) = 2 /\ p[1] = x /\ p[2] = y
<1> DEFINE P == {x, y}
<1>1. <<x>> \in Seq(P) /\ <<y>> \in Seq(P) /\ Len(<<x>>) = 1 /\ Len(<<y>>) = 1
      /\ <<x>>[1] = x /\ <<y>>[1] = y
  OBVIOUS
<1> DEFINE a == <<x>>
           b == <<y>>
<1> HIDE DEF P, a, b
<1>2. /\ Len(a \o b) = Len(a) + Len(b)
      /\ \A i \in 1 .. Len(a) + Len(b) :
            (a \o b)[i] = IF i <= Len(a) THEN a[i] ELSE b[i - Len(a)]
  BY <1>1, ConcatProperties DEF a, b
<1>3. Len(a) = 1 /\ Len(b) = 1 /\ a[1] = x /\ b[1] = y
  BY <1>1 DEF a, b
<1>4. Len(a \o b) = 2 /\ (a \o b)[1] = x /\ (a \o b)[2] = y
  BY <1>2, <1>3
<1> QED
  BY <1>4 DEF a, b

\* The places parse_relocations reads, table by table.
LEMMA EntriesAre ==
    ASSUME dynamic_entries \in Seq(Nat)
    PROVE  LET relas   == TableSize(dynamic_entries, DT_SCE_RELA, DT_SCE_RELASZ)
               jmprels == TableSize(dynamic_entries, DT_SCE_JMPREL, DT_SCE_PLTRELSZ)
           IN  /\ relas \in Nat /\ jmprels \in Nat
               /\ Entries \in Seq(Nat) /\ Len(Entries) = relas + jmprels
               /\ \A k \in 1 .. relas :
                     Entries[k] = ValueIn(dynamic_entries, DT_SCE_RELA) + k - 1
               /\ \A k \in 1 .. jmprels :
                     Entries[relas + k] = ValueIn(dynamic_entries, DT_SCE_JMPREL) + k - 1
<1> DEFINE relas == TableSize(dynamic_entries, DT_SCE_RELA, DT_SCE_RELASZ)
           jmprels == TableSize(dynamic_entries, DT_SCE_JMPREL, DT_SCE_PLTRELSZ)
           rela == ValueIn(dynamic_entries, DT_SCE_RELA)
           jmprel == ValueIn(dynamic_entries, DT_SCE_JMPREL)
           symbols == \A tag \in SymbolTags : HasTag(tag)
           A == symbols /\ HasTag(DT_SCE_RELA) /\ HasTag(DT_SCE_RELASZ)
           B == symbols /\ HasTag(DT_SCE_JMPREL) /\ HasTag(DT_SCE_PLTRELSZ)
           first == [k \in 1 .. relas |-> rela + k - 1]
           second == [k \in 1 .. jmprels |-> jmprel + k - 1]
           places(t) == [k \in 1 .. t[2] |-> t[1] + k - 1]
<1>1. \A tag : /\ HasTag(tag) <=> TagsIn(dynamic_entries, tag) # {}
               /\ dynamic_value(tag) = ValueIn(dynamic_entries, tag)
  BY DEF HasTag, WithTag, TagsIn, dynamic_value, ValueIn
<1>2. /\ relas = IF A THEN dynamic_value(DT_SCE_RELASZ) ELSE 0
      /\ jmprels = IF B THEN dynamic_value(DT_SCE_PLTRELSZ) ELSE 0
      /\ rela = dynamic_value(DT_SCE_RELA) /\ jmprel = dynamic_value(DT_SCE_JMPREL)
  <2>1. A <=> \A tag \in SymbolTags \cup {DT_SCE_RELA, DT_SCE_RELASZ} : TagsIn(dynamic_entries, tag) # {}
    BY <1>1
  <2>2. B <=> \A tag \in SymbolTags \cup {DT_SCE_JMPREL, DT_SCE_PLTRELSZ} : TagsIn(dynamic_entries, tag) # {}
    BY <1>1
  <2>3. relas = IF A THEN ValueIn(dynamic_entries, DT_SCE_RELASZ) ELSE 0
    BY <2>1 DEF TableSize
  <2>4. jmprels = IF B THEN ValueIn(dynamic_entries, DT_SCE_PLTRELSZ) ELSE 0
    BY <2>2 DEF TableSize
  <2> QED
    BY <1>1, <2>3, <2>4
<1>3. relas \in Nat /\ jmprels \in Nat /\ (A => rela \in Nat) /\ (B => jmprel \in Nat)
  BY <1>2, DynamicValue
<1>4. Entries = CASE Len(Tables) = 0 -> <<>>
                  [] Len(Tables) = 1 -> places(Tables[1])
                  [] OTHER -> places(Tables[1]) \o places(Tables[2])
  BY DEF Entries
<1>5. Tables = (IF A THEN <<<<rela, relas>>>> ELSE <<>>) \o (IF B THEN <<<<jmprel, jmprels>>>> ELSE <<>>)
  <2> HIDE DEF relas, jmprels, rela, jmprel
  <2>1. CASE ~symbols
    BY <2>1 DEF Tables
  <2>2. CASE symbols
    <3>1. Tables = (IF HasTag(DT_SCE_RELA) /\ HasTag(DT_SCE_RELASZ)
                    THEN <<<<dynamic_value(DT_SCE_RELA), dynamic_value(DT_SCE_RELASZ)>>>> ELSE <<>>)
                   \o (IF HasTag(DT_SCE_JMPREL) /\ HasTag(DT_SCE_PLTRELSZ)
                       THEN <<<<dynamic_value(DT_SCE_JMPREL), dynamic_value(DT_SCE_PLTRELSZ)>>>>
                       ELSE <<>>)
      BY <2>2 DEF Tables
    <3> QED
      BY <1>2, <2>2, <3>1
  <2> QED
    BY <2>1, <2>2
<1>6. /\ A => first \in Seq(Nat) /\ Len(first) = relas /\ \A k \in 1 .. relas : first[k] = rela + k - 1
      /\ B => second \in Seq(Nat) /\ Len(second) = jmprels
              /\ \A k \in 1 .. jmprels : second[k] = jmprel + k - 1
  BY <1>3, TableEntries
<1>7. /\ ~A => relas = 0
      /\ ~B => jmprels = 0
  BY <1>2
<1>8. places(<<rela, relas>>) = first /\ places(<<jmprel, jmprels>>) = second
  OBVIOUS
<1> HIDE DEF A, B, relas, jmprels, rela, jmprel, places, first, second
<1>9. Entries = CASE A /\ B -> first \o second
                  [] A /\ ~B -> first
                  [] ~A /\ B -> second
                  [] ~A /\ ~B -> <<>>
  <2>1. CASE A /\ B
    <3>1. Tables = <<<<rela, relas>>>> \o <<<<jmprel, jmprels>>>>
      BY <1>5, <2>1
    <3>2. Len(Tables) = 2 /\ Tables[1] = <<rela, relas>> /\ Tables[2] = <<jmprel, jmprels>>
      BY <3>1, PairOf
    <3>3. Entries = places(Tables[1]) \o places(Tables[2])
      BY <1>4, <3>2
    <3> QED
      BY <1>8, <2>1, <3>2, <3>3
  <2>2. CASE A /\ ~B
    <3>1. Tables = <<<<rela, relas>>>>
      BY <1>5, <2>2
    <3>2. Len(Tables) = 1 /\ Tables[1] = <<rela, relas>>
      BY <3>1
    <3> QED
      BY <1>4, <1>8, <2>2, <3>2
  <2>3. CASE ~A /\ B
    <3>1. Tables = <<<<jmprel, jmprels>>>>
      BY <1>5, <2>3
    <3>2. Len(Tables) = 1 /\ Tables[1] = <<jmprel, jmprels>>
      BY <3>1
    <3> QED
      BY <1>4, <1>8, <2>3, <3>2
  <2>4. CASE ~A /\ ~B
    <3>1. Tables = <<>>
      BY <1>5, <2>4
    <3> QED
      BY <1>4, <2>4, <3>1
  <2> QED
    BY <2>1, <2>2, <2>3, <2>4
<1>10. CASE A /\ B
  <2>1. Entries = first \o second
    BY <1>9, <1>10
  <2>2. /\ Entries \in Seq(Nat) /\ Len(Entries) = relas + jmprels
        /\ \A k \in 1 .. relas : Entries[k] = first[k]
        /\ \A k \in 1 .. jmprels : Entries[relas + k] = second[k]
    <3>1. first \in Seq(Nat) /\ second \in Seq(Nat) /\ Len(first) = relas /\ Len(second) = jmprels
      BY <1>6, <1>10
    <3>2. /\ Entries \in Seq(Nat) /\ Len(Entries) = relas + jmprels
          /\ \A k \in 1 .. relas + jmprels :
                Entries[k] = IF k <= relas THEN first[k] ELSE second[k - relas]
      BY <2>1, <3>1, ConcatProperties
    <3>3. \A k \in 1 .. relas : Entries[k] = first[k]
      BY <1>3, <3>2
    <3>4. \A k \in 1 .. jmprels : Entries[relas + k] = second[k]
      <4>1. SUFFICES ASSUME NEW k \in 1 .. jmprels PROVE Entries[relas + k] = second[k]
        OBVIOUS
      <4>2. relas + k \in 1 .. relas + jmprels /\ ~(relas + k <= relas) /\ (relas + k) - relas = k
        BY <1>3
      <4> QED
        BY <3>2, <4>2
    <3> QED
      BY <3>2, <3>3, <3>4
  <2>3. /\ \A k \in 1 .. relas : Entries[k] = rela + k - 1
        /\ \A k \in 1 .. jmprels : Entries[relas + k] = jmprel + k - 1
    BY <1>6, <1>10, <2>2
  <2> QED
    BY <1>3, <2>2, <2>3 DEF relas, jmprels, rela, jmprel
<1>11. CASE A /\ ~B
  <2>1. Entries = first /\ jmprels = 0
    BY <1>7, <1>9, <1>11
  <2>2. Entries \in Seq(Nat) /\ Len(Entries) = relas + jmprels /\ 1 .. jmprels = {}
    BY <1>3, <1>6, <1>11, <2>1
  <2>3. \A k \in 1 .. relas : Entries[k] = rela + k - 1
    BY <1>6, <1>11, <2>1
  <2> QED
    BY <1>3, <2>2, <2>3 DEF relas, jmprels, rela, jmprel
<1>12. CASE ~A /\ B
  <2>1. Entries = second /\ relas = 0
    BY <1>7, <1>9, <1>12
  <2>2. Entries \in Seq(Nat) /\ Len(Entries) = relas + jmprels /\ 1 .. relas = {}
    BY <1>3, <1>6, <1>12, <2>1
  <2>3. \A k \in 1 .. jmprels : Entries[relas + k] = jmprel + k - 1
    BY <1>3, <1>6, <1>12, <2>1
  <2> QED
    BY <1>3, <2>2, <2>3 DEF relas, jmprels, rela, jmprel
<1>13. CASE ~A /\ ~B
  <2>1. Entries = <<>> /\ relas = 0 /\ jmprels = 0
    BY <1>7, <1>9, <1>13
  <2>2. Entries \in Seq(Nat) /\ Len(Entries) = relas + jmprels /\ 1 .. relas = {} /\ 1 .. jmprels = {}
    BY <2>1
  <2> QED
    BY <1>3, <2>2 DEF relas, jmprels, rela, jmprel
<1> QED
  BY <1>10, <1>11, <1>12, <1>13

\* The entries of the tables are counted from 1.
LEMMA EntriesCounted ==
    ASSUME dynamic_entries \in Seq(Nat), NEW k \in DOMAIN Entries
    PROVE  k \in Nat /\ k > 0
<1>1. Entries \in Seq(Nat)
  BY EntriesAre
<1> QED
  BY <1>1

\* LOAD segment i has in memory what the ELF has, or nothing.
SegmentCopied(i) ==
    \/ \A k \in 1 .. program_headers[i].filesz : image[Place(i, k)] = ElfWord(i, k)
    \/ ~Whole /\ \A k \in 1 .. program_headers[i].filesz : image[Place(i, k)] = 0

\* Word a of the memory belongs to a LOAD segment before program header n.
Covered(a, n) ==
    \E i \in Loads : i < n /\ \E k \in 1 .. program_headers[i].filesz : Place(i, k) = a

\* The segments before the one at hand have been copied, and the rest is zero.
ImageInv ==
    step = "copy" =>
        /\ Loads # {}
        /\ DOMAIN image = 1 .. aligned_base_size
        /\ \A i \in Loads : i < at => SegmentCopied(i)
        /\ \A a \in DOMAIN image : ~Covered(a, at) => image[a] = 0

\* The words of the LOAD segments have places in the memory, all different.
LEMMA Places ==
    ASSUME file \in Files, Sound(file), NEW i \in Loads, NEW k \in 1 .. program_headers[i].filesz
    PROVE  /\ Place(i, k) \in 1 .. aligned_base_size
           /\ \A j \in Loads : \A m \in 1 .. program_headers[j].filesz :
                 Place(j, m) = Place(i, k) => j = i
<1>1. Loads \subseteq DOMAIN program_headers /\ Loads # {}
      /\ \A j \in Loads : program_headers[j].phdr_type = "Load"
  BY DEF Loads, OfType
<1>2. \A j \in Loads : /\ program_headers[j].vaddr \in Nat /\ program_headers[j].filesz \in Nat
                       /\ program_headers[j].memsz \in Nat
                       /\ program_headers[j].filesz <= program_headers[j].memsz
  BY <1>1, HeaderTypes, ElfLoaderAssumption DEF program_headers
<1>3. /\ min_addr \in Nat /\ \A j \in Loads : min_addr <= program_headers[j].vaddr
      /\ aligned_base_size \in Int
      /\ \A j \in Loads :
            program_headers[j].vaddr + program_headers[j].memsz - min_addr <= aligned_base_size
  BY <1>1, SizeType
<1>4. Place(i, k) \in 1 .. aligned_base_size
  BY <1>2, <1>3 DEF Place
<1>5. ASSUME NEW j \in Loads, NEW m \in 1 .. program_headers[j].filesz,
             Place(j, m) = Place(i, k), j # i
      PROVE  FALSE
  <2>1. \/ program_headers[i].vaddr + program_headers[i].memsz <= program_headers[j].vaddr
        \/ program_headers[j].vaddr + program_headers[j].memsz <= program_headers[i].vaddr
    <3>1. /\ i \in DOMAIN file.program_headers /\ j \in DOMAIN file.program_headers
          /\ file.program_headers[i].phdr_type = "Load" /\ file.program_headers[j].phdr_type = "Load"
      BY <1>1 DEF program_headers
    <3> QED
      BY <1>5, <3>1 DEF Sound, program_headers
  <2> DEFINE vi == program_headers[i].vaddr
             vj == program_headers[j].vaddr
             fi == program_headers[i].filesz
             fj == program_headers[j].filesz
             mi == program_headers[i].memsz
             mj == program_headers[j].memsz
  <2>2. /\ vi \in Nat /\ vj \in Nat /\ fi \in Nat /\ fj \in Nat /\ mi \in Nat /\ mj \in Nat
        /\ fi <= mi /\ fj <= mj /\ k \in 1 .. fi /\ m \in 1 .. fj /\ min_addr \in Nat
        /\ vj - min_addr + m = vi - min_addr + k
        /\ vi + mi <= vj \/ vj + mj <= vi
    BY <1>2, <1>3, <1>5, <2>1 DEF Place
  <2> HIDE DEF vi, vj, fi, fj, mi, mj
  <2> QED
    BY <2>2
<1> QED
  BY <1>4, <1>5

\* Copying a segment.
LEMMA CopyFaithful ==
    ASSUME ElfInv, Sound(file), ImageInv, CopySegment
    PROVE  ImageInv'
<1> DEFINE i == at
           src == resolve_file_offset(i)
           dest == program_headers[i].vaddr - min_addr
           size == program_headers[i].filesz
           n == Copied(i)
<1>1. /\ file \in Files /\ at \in Nat /\ at > 0 /\ step = "copy" /\ i <= Len(program_headers)
      /\ image' = IF i \notin Loads THEN image
                  ELSE [k \in DOMAIN image |->
                          IF k - dest \in 1 .. n THEN data[src + k - dest] ELSE image[k]]
      /\ at' = at + 1 /\ UNCHANGED <<file, step>>
      /\ image \in Seq(Nat)
  BY DEF ElfInv, CopySegment
<1>2. i \in DOMAIN program_headers
  BY <1>1, FileTypes
<1>3. /\ Loads # {} /\ DOMAIN image = 1 .. aligned_base_size
      /\ \A j \in Loads : j < i => SegmentCopied(j)
      /\ \A a \in DOMAIN image : ~Covered(a, i) => image[a] = 0
  BY <1>1 DEF ImageInv
<1>4. Loads \subseteq Nat /\ Loads \subseteq DOMAIN program_headers
  BY <1>1, HeaderTypes DEF Loads, OfType
<1>5. /\ program_headers' = program_headers /\ Loads' = Loads /\ Whole' = Whole
      /\ aligned_base_size' = aligned_base_size
      /\ \A j, k : Place(j, k)' = Place(j, k)
      /\ \A j, k : ElfWord(j, k)' = ElfWord(j, k)
  BY <1>1 DEF program_headers, Loads, OfType, Whole, data, aligned_base_size, max_addr, min_addr,
              Place, ElfWord
<1>6. DOMAIN image' = DOMAIN image
  BY <1>1
<1>7. SUFFICES /\ \A j \in Loads : j <= i =>
                    \/ \A k \in 1 .. program_headers[j].filesz : image'[Place(j, k)] = ElfWord(j, k)
                    \/ ~Whole /\ \A k \in 1 .. program_headers[j].filesz : image'[Place(j, k)] = 0
               /\ \A a \in DOMAIN image : ~Covered(a, i + 1) => image'[a] = 0
  <2>1. \A j \in Loads : j < i + 1 => j <= i
    BY <1>1, <1>4
  <2>2. \A a : Covered(a, i + 1) <=> Covered(a, at)'
    BY <1>1, <1>5 DEF Covered
  <2>3. \A j \in Loads : SegmentCopied(j)' <=>
                    \/ \A k \in 1 .. program_headers[j].filesz : image'[Place(j, k)] = ElfWord(j, k)
                    \/ ~Whole /\ \A k \in 1 .. program_headers[j].filesz : image'[Place(j, k)] = 0
    BY <1>5 DEF SegmentCopied
  <2> QED
    BY <1>1, <1>3, <1>5, <1>6, <2>1, <2>2, <2>3 DEF ImageInv
<1>8. ASSUME NEW a \in DOMAIN image, ~Covered(a, i + 1)
      PROVE  ~Covered(a, i)
  <2>1. \A j \in Loads : j < i => j < i + 1
    BY <1>1, <1>4
  <2> QED
    BY <1>8, <2>1, Zenon DEF Covered
<1>9. CASE i \notin Loads
  <2>1. image' = image /\ \A j \in Loads : j <= i => j < i
    BY <1>1, <1>4, <1>9
  <2> QED
    BY <1>3, <1>8, <2>1 DEF SegmentCopied
<1>10. CASE i \in Loads
  <2>1. /\ src \in Nat /\ dest \in Int /\ size \in Nat /\ Len(data) \in Nat
        /\ WordsAt(i, src)
    BY <1>1, <1>2, <1>3, ResolveType, ResolveFinds, SizeType, HeaderTypes, FileTypes
  <2>2. n = (IF src + size <= Len(data) THEN size ELSE 0)
    BY DEF Copied
  <2>3. \A k \in DOMAIN image :
            image'[k] = IF k - dest \in 1 .. n THEN data[src + k - dest] ELSE image[k]
    BY <1>1, <1>10
  <2>4. \A k : Place(i, k) = dest + k
    BY DEF Place
  <2>5. \A j \in Loads : \A k \in 1 .. program_headers[j].filesz :
            /\ Place(j, k) \in DOMAIN image
            /\ \A m \in 1 .. size : Place(i, m) = Place(j, k) => j = i
    BY <1>1, <1>3, <1>10, Places
  <2>6. DOMAIN image \subseteq Int
    BY <1>1
  <2> HIDE DEF src, dest, size, n
  <2>7. ASSUME NEW j \in Loads, NEW k \in 1 .. program_headers[j].filesz, j # i
        PROVE  image'[Place(j, k)] = image[Place(j, k)]
    <3>1. Place(j, k) \in DOMAIN image /\ Place(j, k) \in Int
      BY <2>5, <2>6
    <3>2. Place(j, k) - dest \notin 1 .. n
      <4>1. SUFFICES ASSUME Place(j, k) - dest \in 1 .. n PROVE FALSE
        OBVIOUS
      <4> DEFINE m == Place(j, k) - dest
      <4>2. m \in 1 .. size /\ dest + m = Place(j, k)
        BY <2>1, <2>2, <3>1, <4>1
      <4> HIDE DEF m
      <4> QED
        BY <2>4, <2>5, <2>7, <4>2
    <3> QED
      BY <2>3, <3>1, <3>2
  <2>8. ASSUME NEW j \in Loads, j < i
        PROVE  \/ \A k \in 1 .. program_headers[j].filesz : image'[Place(j, k)] = ElfWord(j, k)
               \/ ~Whole /\ \A k \in 1 .. program_headers[j].filesz : image'[Place(j, k)] = 0
    <3>1. j # i
      BY <1>1, <1>4, <2>8
    <3> QED
      BY <1>3, <2>7, <2>8, <3>1 DEF SegmentCopied
  <2>9. \/ \A k \in 1 .. size : image'[Place(i, k)] = ElfWord(i, k)
        \/ ~Whole /\ \A k \in 1 .. size : image'[Place(i, k)] = 0
    <3>1. CASE src + size <= Len(data)
      <4>1. ASSUME NEW k \in 1 .. size PROVE image'[Place(i, k)] = ElfWord(i, k)
        <5>1. /\ Place(i, k) \in DOMAIN image /\ Place(i, k) - dest = k /\ k \in 1 .. n
              /\ src + Place(i, k) - dest = src + k /\ src + k <= Len(data)
          <6>1. Place(i, k) \in DOMAIN image /\ Place(i, k) = dest + k
            BY <1>10, <2>4, <2>5 DEF size
          <6> QED
            BY <2>1, <2>2, <3>1, <4>1, <6>1
        <5>2. image'[Place(i, k)] = data[src + k]
          BY <2>3, <5>1
        <5>3. data[src + k] = ElfWord(i, k)
          BY <2>1, <5>1 DEF WordsAt, size
        <5> QED
          BY <5>2, <5>3
      <4> QED
        BY <4>1
    <3>2. CASE ~(src + size <= Len(data))
      <4>1. ~Whole
        BY <2>1, <3>2 DEF WordsAt, size
      <4>2. ASSUME NEW k \in 1 .. size PROVE image'[Place(i, k)] = 0
        <5>1. Place(i, k) \in DOMAIN image
          BY <1>10, <2>5 DEF size
        <5>2. ~Covered(Place(i, k), i)
          <6>1. SUFFICES ASSUME NEW j \in Loads, j < i, NEW m \in 1 .. program_headers[j].filesz,
                                Place(j, m) = Place(i, k)
                         PROVE  FALSE
            BY DEF Covered
          <6>2. j = i
            BY <2>5, <4>2, <6>1
          <6> QED
            BY <1>1, <6>1, <6>2
        <5>3. n = 0
          BY <2>2, <3>2
        <5>4. image'[Place(i, k)] = image[Place(i, k)]
          BY <2>3, <5>1, <5>3
        <5> QED
          BY <1>3, <5>1, <5>2, <5>4
      <4> QED
        BY <4>1, <4>2
    <3> QED
      BY <3>1, <3>2
  <2>10. ASSUME NEW a \in DOMAIN image, ~Covered(a, i + 1)
         PROVE  image'[a] = 0
    <3>1. a - dest \notin 1 .. n
      <4>1. SUFFICES ASSUME a - dest \in 1 .. n PROVE FALSE
        OBVIOUS
      <4> DEFINE m == a - dest
      <4>2. m \in 1 .. size /\ dest + m = a
        BY <2>1, <2>2, <2>6, <4>1
      <4> HIDE DEF m
      <4>3. Place(i, m) = a /\ i < i + 1
        BY <1>1, <2>4, <4>2
      <4> QED
        BY <1>10, <2>10, <4>2, <4>3 DEF Covered, size
    <3> QED
      BY <1>3, <1>8, <2>3, <2>10, <3>1
  <2>11. \A j \in Loads : j <= i => j < i \/ j = i
    BY <1>1, <1>4
  <2> QED
    BY <2>8, <2>9, <2>10, <2>11 DEF size
<1> QED
  BY <1>9, <1>10

\* A step that leaves the memory alone, when no segment is left.
LEMMA ImageSame ==
    ASSUME ImageInv, UNCHANGED <<file, image>>,
           step' = "copy" => step = "copy" /\ \A i \in Loads : i < at' <=> i < at
    PROVE  ImageInv'
<1>1. /\ program_headers' = program_headers /\ Loads' = Loads /\ Whole' = Whole
      /\ aligned_base_size' = aligned_base_size
      /\ \A j, k : Place(j, k)' = Place(j, k)
      /\ \A j, k : ElfWord(j, k)' = ElfWord(j, k)
  BY DEF program_headers, Loads, OfType, Whole, data, aligned_base_size, max_addr, min_addr,
         Place, ElfWord
<1>2. \A j \in Loads : SegmentCopied(j)' <=> SegmentCopied(j)
  BY <1>1 DEF SegmentCopied
<1>3. ASSUME step' = "copy"
      PROVE  \A a : Covered(a, at)' <=> Covered(a, at)
  BY <1>1, <1>3 DEF Covered
<1> QED
  BY <1>1, <1>2, <1>3 DEF ImageInv

\* Every step of the loader keeps it.
LEMMA ImageKeeps ==
    ASSUME ElfInv, Sound(file), DynamicInv, ImageInv, Next
    PROVE  ImageInv'
<1>1. CASE ParseHeaders \/ ReadDynamicEntry \/ ReadDynlibData \/ Loaded
  BY <1>1 DEF ImageInv, ParseHeaders, ReadDynamicEntry, ReadDynlibData, Loaded
<1>2. CASE MapModule
  <2>1. CASE step' = "failed"
    BY <2>1 DEF ImageInv
  <2>2. CASE step' # "failed"
    <3>1. /\ Loads # {} /\ image' = [k \in 1 .. aligned_base_size |-> 0] /\ at' = 1 /\ file' = file
      BY <1>2, <2>2 DEF MapModule
    <3>2. Loads' = Loads /\ aligned_base_size' = aligned_base_size
      BY <3>1 DEF program_headers, Loads, OfType, aligned_base_size, max_addr, min_addr
    <3>3. Loads \subseteq Nat /\ \A i \in Loads : i > 0
      BY HeaderTypes DEF ElfInv, Loads, OfType
    <3> QED
      BY <3>1, <3>2, <3>3 DEF ImageInv
  <2> QED
    BY <2>1, <2>2
<1>3. CASE CopySegment
  BY <1>3, CopyFaithful
<1>4. CASE ParseRelocation
  <2>1. CASE step' = "panicked"
    BY <2>1 DEF ImageInv
  <2>2. CASE step' # "panicked"
    <3>1. /\ step = "copy" /\ at' = at + 1 /\ UNCHANGED <<file, image>>
          /\ at - Len(program_headers) \in DOMAIN Entries
      BY <1>4, <2>2 DEF ParseRelocation
    <3>2. at - Len(program_headers) > 0
      BY <3>1, EntriesCounted DEF DynamicInv
    <3>3. \A i \in Loads : i \in Nat /\ i <= Len(program_headers)
      BY HeaderTypes DEF ElfInv, Loads, OfType
    <3>4. at \in Nat /\ Len(program_headers) \in Nat
      BY FileTypes DEF ElfInv
    <3>5. \A i \in Loads : i < at' <=> i < at
      BY <3>1, <3>2, <3>3, <3>4
    <3> QED
      BY <3>1, <3>5, ImageSame
  <2> QED
    BY <2>1, <2>2
<1> QED
  BY <1>1, <1>2, <1>3, <1>4 DEF Next

-----------------------------------------------------------------------------
(* The scans. *)

\* What the scan that runs has done so far, and what the ones before have left.
ScanInv ==
    /\ offset \in Nat
    /\ step \in {"headers", "dynamic", "map", "copy"} => offset = 0
    /\ step = "loaded" => NoTrapBefore(image, offset)
    /\ step = "relocate" => offset > 0 /\ (offset = 1 => NoTrapBefore(image, Len(image)))
    /\ step = "syscalls" => NoSyscallBefore(image, offset)
    /\ step = "jump" => NoSyscallBefore(image, Len(image))

BootInv == ElfInv /\ ScanInv

\* Loading leaves the scans alone.
LEMMA LoadingKeeps ==
    ASSUME BootInv, Next, UNCHANGED patching
    PROVE  BootInv'
<1>1. ElfInv'
  BY LoaderKeeps DEF BootInv
<1>2. step \in {"headers", "dynamic", "map", "copy"}
      /\ step' \in {"headers", "dynamic", "map", "copy", "loaded", "failed", "panicked"}
  BY DEF Next, ParseHeaders, ReadDynamicEntry, ReadDynlibData, MapModule, CopySegment,
         ParseRelocation, Loaded
<1>3. offset' = 0
  BY <1>2 DEF BootInv, ScanInv, patching
<1>4. \A q \in Nat : ~(q < 0)
  OBVIOUS
<1>5. ScanInv'
  BY <1>2, <1>3, <1>4 DEF ScanInv, NoTrapBefore
<1> QED
  BY <1>1, <1>5 DEF BootInv

\* The assertions.
LEMMA AssertionsKeep ==
    ASSUME BootInv, ScanAssertion \/ AssertionsDone
    PROVE  BootInv'
<1>1. image \in Seq(Nat) /\ offset \in Nat /\ step = "loaded" /\ NoTrapBefore(image, offset)
      /\ file \in Files /\ at \in Nat /\ Len(image) \in Nat
  BY DEF BootInv, ElfInv, ScanInv, ScanAssertion, AssertionsDone
<1>2. CASE ScanAssertion
  <2>1. UNCHANGED <<file, at, step>> /\ offset + 6 <= Len(image)
    BY <1>1, <1>2 DEF ScanAssertion, MoreAssertions, Size, elf
  <2>2. CASE At(image, offset, AssertTrap)
    <3>1. image' = Overwritten(image, offset, AssertPatch) /\ offset' = offset + 6
      BY <1>2, <2>2 DEF ScanAssertion
    <3>2. image' \in Seq(Nat)
      <4>1. \A j \in DOMAIN AssertPatch : AssertPatch[j] \in Nat
        BY AssertBytes, Elements
      <4> QED
        BY <1>1, <3>1, <4>1, OverwrittenType
    <3>3. NoTrapBefore(image', offset')
      BY <1>1, <2>1, <3>1, AssertionPatched
    <3> QED
      BY <1>1, <2>1, <3>1, <3>2, <3>3 DEF BootInv, ElfInv, ScanInv
  <2>3. CASE ~At(image, offset, AssertTrap)
    <3>1. image' = image /\ offset' = offset + 1
      BY <1>2, <2>3 DEF ScanAssertion
    <3>2. \A q \in Nat : q < offset + 1 => q < offset \/ q = offset
      BY <1>1
    <3>3. NoTrapBefore(image', offset')
      BY <1>1, <2>3, <3>1, <3>2 DEF NoTrapBefore
    <3> QED
      BY <1>1, <2>1, <3>1, <3>3 DEF BootInv, ElfInv, ScanInv
  <2> QED
    BY <2>2, <2>3
<1>3. CASE AssertionsDone
  <2>1. /\ UNCHANGED <<file, at, image>> /\ step' = "relocate" /\ offset' = 1
        /\ ~(offset + 5 < Len(image))
    BY <1>3 DEF AssertionsDone, MoreAssertions, Size, elf
  <2>2. NoTrapBefore(image, Len(image))
    <3>1. SUFFICES ASSUME NEW q \in Nat, At(image, q, AssertTrap) PROVE q < offset
      BY <1>1 DEF NoTrapBefore
    <3>2. AssertTrap \in Seq(Nat) /\ Len(AssertTrap) = 6
      BY AssertBytes
    <3>3. q + 6 <= Len(image)
      BY <1>1, <3>1, <3>2, AtBytes
    <3> QED
      BY <1>1, <2>1, <3>3
  <2> QED
    BY <1>1, <2>1, <2>2 DEF BootInv, ElfInv, ScanInv
<1> QED
  BY <1>2, <1>3

\* The relocations.
LEMMA RelocationsKeep ==
    ASSUME BootInv, (\E ptr \in Pointers : Relocate(ptr)) \/ RelocateDone
    PROVE  BootInv'
<1>1. image \in Seq(Nat) /\ offset \in Nat /\ offset > 0 /\ step = "relocate"
      /\ file \in Files /\ at \in Nat
  BY DEF BootInv, ElfInv, ScanInv, Relocate, RelocateDone
<1>2. ASSUME NEW ptr \in Pointers, Relocate(ptr)
      PROVE  BootInv'
  <2>1. /\ UNCHANGED <<file, at, step>> /\ offset' = offset + 1
        /\ image' = Overwritten(image, relocations[offset].offset, ptr)
    BY <1>2 DEF Relocate, elf
  <2>2. \A j \in DOMAIN ptr : ptr[j] \in Nat
    BY CodePatchAssumption
  <2>3. image' \in Seq(Nat)
    BY <1>1, <2>1, <2>2, OverwrittenType
  <2> QED
    BY <1>1, <2>1, <2>3 DEF BootInv, ElfInv, ScanInv
<1>3. CASE RelocateDone
  <2>1. UNCHANGED <<file, at, image>> /\ step' = "syscalls" /\ offset' = 0
    BY <1>3 DEF RelocateDone, elf
  <2>2. \A q \in Nat : ~(q < 0)
    OBVIOUS
  <2> QED
    BY <1>1, <2>1, <2>2 DEF BootInv, ElfInv, ScanInv, NoSyscallBefore
<1> QED
  BY <1>2, <1>3

\* The system calls.
LEMMA SyscallsKeep ==
    ASSUME BootInv, ScanSyscall \/ SyscallsDone
    PROVE  BootInv'
<1>1. image \in Seq(Nat) /\ offset \in Nat /\ step = "syscalls" /\ NoSyscallBefore(image, offset)
      /\ file \in Files /\ at \in Nat /\ Len(image) \in Nat
  BY DEF BootInv, ElfInv, ScanInv, ScanSyscall, SyscallsDone
<1>2. CASE ScanSyscall
  <2>1. /\ UNCHANGED <<file, at, step>> /\ offset' = offset + 1
        /\ image' = IF At(image, offset, SYSCALL) THEN Overwritten(image, offset, UD2) ELSE image
    BY <1>2 DEF ScanSyscall, elf
  <2>2. CASE At(image, offset, SYSCALL)
    <3>1. image' \in Seq(Nat)
      <4>1. \A j \in DOMAIN UD2 : UD2[j] \in Nat
        BY SyscallBytes, Elements
      <4> QED
        BY <1>1, <2>1, <2>2, <4>1, OverwrittenType
    <3>2. NoSyscallBefore(image', offset')
      BY <1>1, <2>1, <2>2, SyscallPatched
    <3> QED
      BY <1>1, <2>1, <3>1, <3>2 DEF BootInv, ElfInv, ScanInv
  <2>3. CASE ~At(image, offset, SYSCALL)
    <3>1. \A q \in Nat : q < offset + 1 => q < offset \/ q = offset
      BY <1>1
    <3>2. NoSyscallBefore(image', offset')
      BY <1>1, <2>1, <2>3, <3>1 DEF NoSyscallBefore
    <3> QED
      BY <1>1, <2>1, <2>3, <3>2 DEF BootInv, ElfInv, ScanInv
  <2> QED
    BY <2>2, <2>3
<1>3. CASE SyscallsDone
  <2>1. /\ UNCHANGED <<file, at, image, offset>> /\ step' = "jump"
        /\ ~(offset < Len(image) - 1)
    BY <1>3 DEF SyscallsDone, MoreSyscalls, Size, elf
  <2>2. NoSyscallBefore(image, Len(image))
    <3>1. SUFFICES ASSUME NEW q \in Nat, At(image, q, SYSCALL) PROVE q < offset
      BY <1>1 DEF NoSyscallBefore
    <3>2. SYSCALL \in Seq(Nat) /\ Len(SYSCALL) = 2
      BY SyscallBytes
    <3>3. q + 2 <= Len(image)
      BY <1>1, <3>1, <3>2, AtBytes
    <3> QED
      BY <1>1, <2>1, <3>3
  <2> QED
    BY <1>1, <2>1, <2>2 DEF BootInv, ElfInv, ScanInv
<1> QED
  BY <1>2, <1>3

\* Every step of the boot keeps the invariant.
LEMMA BootKeeps ==
    ASSUME BootInv, [BootNext]_bootVars
    PROVE  BootInv'
<1>1. CASE UNCHANGED bootVars
  BY <1>1 DEF bootVars, vars, patching, BootInv, ElfInv, ScanInv
<1> QED
  BY <1>1, LoadingKeeps, AssertionsKeep, RelocationsKeep, SyscallsKeep DEF BootNext

LEMMA BootInitHolds ==
    ASSUME BootInit
    PROVE  BootInv
BY DEF BootInit, Init, BootInv, ElfInv, ScanInv

\* The loop of load_module leaves no assertion trap in eboot.bin, however traps and
\* parts of traps overlap, for any file.
THEOREM AssertionsTakenOut == BootSpec => []NoAssertionLeft
<1>1. BootInit => BootInv
  BY BootInitHolds
<1>2. BootInv /\ [BootNext]_bootVars => BootInv'
  BY BootKeeps
<1>3. BootInv => NoAssertionLeft
  <2>1. SUFFICES ASSUME BootInv, step = "relocate", offset = 1, NEW off \in 0 .. Size - 1
                 PROVE  ~At(image, off, AssertTrap)
    BY DEF NoAssertionLeft
  <2>2. off \in Nat /\ off < Len(image)
    BY <2>1 DEF Size, BootInv, ElfInv
  <2> QED
    BY <2>1, <2>2 DEF BootInv, ScanInv, NoTrapBefore
<1> QED
  BY <1>1, <1>2, <1>3, PTL DEF BootSpec

\* patch_syscalls leaves no SYSCALL in eboot.bin, one that a relocation or a patch put
\* together included, for any file and any pointers.
THEOREM SyscallsTakenOut == BootSpec => []NoSyscallLeft
<1>1. BootInit => BootInv
  BY BootInitHolds
<1>2. BootInv /\ [BootNext]_bootVars => BootInv'
  BY BootKeeps
<1>3. BootInv => NoSyscallLeft
  <2>1. SUFFICES ASSUME BootInv, step = "jump", NEW off \in 0 .. Size - 1
                 PROVE  ~At(image, off, SYSCALL)
    BY DEF NoSyscallLeft
  <2>2. off \in Nat /\ off < Len(image)
    BY <2>1 DEF Size, BootInv, ElfInv
  <2> QED
    BY <2>1, <2>2 DEF BootInv, ScanInv, NoSyscallBefore
<1> QED
  BY <1>1, <1>2, <1>3, PTL DEF BootSpec

-----------------------------------------------------------------------------
(* What is in memory is what the file was made from, if the file is a sound one. *)

SoundFiles == \A f \in Files : Sound(f)

MadeInv == BootInv /\ DynamicInv /\ ImageInv

\* The patches leave what was read alone.
LEMMA PatchesKeep ==
    ASSUME MadeInv, [BootNext]_bootVars, ~Next
    PROVE  DynamicInv' /\ ImageInv'
<1>1. CASE UNCHANGED bootVars
  <2>1. UNCHANGED <<file, dynamic_entries, step, at, image>>
    BY <1>1 DEF bootVars, vars
  <2> QED
    BY <2>1, EntriesSame, ImageSame DEF MadeInv, DynamicInv
<1>2. CASE ScanAssertion
  <2>1. UNCHANGED <<file, dynamic_entries, step>> /\ step = "loaded"
    BY <1>2 DEF ScanAssertion, elf
  <2> QED
    BY <2>1, EntriesSame DEF MadeInv, DynamicInv, ImageInv
<1>3. CASE AssertionsDone \/ (\E ptr \in Pointers : Relocate(ptr)) \/ RelocateDone
             \/ ScanSyscall \/ SyscallsDone
  <2>1. UNCHANGED <<file, dynamic_entries>> /\ step' \in {"relocate", "syscalls", "jump"}
    BY <1>3 DEF AssertionsDone, Relocate, RelocateDone, ScanSyscall, SyscallsDone, elf
  <2> QED
    BY <2>1, EntriesSame DEF MadeInv, ImageInv
<1> QED
  BY <1>1, <1>2, <1>3 DEF BootNext

LEMMA MadeKeeps ==
    ASSUME SoundFiles, MadeInv, [BootNext]_bootVars
    PROVE  MadeInv'
<1>1. BootInv'
  BY BootKeeps DEF MadeInv
<1>2. ElfInv /\ Sound(file)
  BY DEF MadeInv, BootInv, ElfInv, SoundFiles
<1>3. CASE Next
  BY <1>1, <1>2, <1>3, DynamicKeeps, ImageKeeps DEF MadeInv
<1>4. CASE ~Next
  BY <1>1, <1>4, PatchesKeep DEF MadeInv
<1> QED
  BY <1>3, <1>4

LEMMA MadeInitHolds ==
    ASSUME BootInit
    PROVE  MadeInv
<1>1. /\ file \in Files /\ step = "headers" /\ at = 0 /\ dynamic_entries = <<>>
  BY DEF BootInit, Init
<1>2. EntriesRead
  <2>1. SUFFICES ASSUME OfType("Dynamic") # {}
                 PROVE  0 <= program_headers[dynamic_phdr].filesz
    BY <1>1 DEF EntriesRead
  <2>2. program_headers[dynamic_phdr].filesz \in Nat
    BY <1>1, <2>1, DynamicHeader, HeaderTypes
  <2> QED
    BY <2>2
<1> QED
  BY <1>1, <1>2, BootInitHolds DEF MadeInv, DynamicInv, ImageInv

\* The dynamic entries Elf::parse gets are those of the ELF inside, up to DT_NULL or
\* to where the file was cut off, wherever the segments of the SELF put them.
THEOREM DynamicAlwaysFaithful ==
    ASSUME SoundFiles
    PROVE  BootSpec => []DynamicFaithful
<1>1. BootInit => MadeInv
  BY MadeInitHolds
<1>2. MadeInv /\ [BootNext]_bootVars => MadeInv'
  BY MadeKeeps
<1>3. MadeInv => DynamicFaithful
  BY DEF MadeInv, DynamicInv, EntriesRead, EntriesAll, DynamicFaithful
<1> QED
  BY <1>1, <1>2, <1>3, PTL DEF BootSpec

\* Module::load puts every LOAD segment where it belongs, whole or, of a file that
\* was cut off, not at all, and the rest of the memory is zero.
THEOREM ImageAlwaysFaithful ==
    ASSUME SoundFiles
    PROVE  BootSpec => []ImageFaithful
<1>1. BootInit => MadeInv
  BY MadeInitHolds
<1>2. MadeInv /\ [BootNext]_bootVars => MadeInv'
  BY MadeKeeps
<1>3. MadeInv => ImageFaithful
  <2>1. SUFFICES ASSUME MadeInv, step = "copy", at > Len(program_headers)
                 PROVE  /\ \A i \in Loads : SegmentCopied(i)
                        /\ \A a \in DOMAIN image :
                              (\A i \in Loads : \A k \in 1 .. program_headers[i].filesz :
                                  Place(i, k) # a) => image[a] = 0
    BY DEF ImageFaithful, SegmentCopied
  <2>2. file \in Files /\ at \in Nat
    BY <2>1 DEF MadeInv, BootInv, ElfInv
  <2>3. program_headers \in Seq(ProgramHeader)
    BY <2>2, FileTypes
  <2>4. \A i \in Loads : i \in 1 .. Len(program_headers)
    BY <2>3 DEF Loads, OfType
  <2>5. \A i \in Loads : i < at
    BY <2>1, <2>2, <2>3, <2>4
  <2> QED
    BY <2>1, <2>5 DEF MadeInv, ImageInv, Covered
<1> QED
  BY <1>1, <1>2, <1>3, PTL DEF BootSpec

-----------------------------------------------------------------------------
(* The tables. *)

\* A tag of the entries that were read is one of the ELF inside, with the same value.
LEMMA FirstTag ==
    ASSUME NEW n \in Nat, NEW short, NEW long, DOMAIN short = 1 .. n,
           1 .. n \subseteq DOMAIN long, DOMAIN long \subseteq Nat \ {0},
           \A k \in 1 .. n : short[k] = long[k],
           NEW tag, TagsIn(short, tag) # {}
    PROVE  TagsIn(long, tag) # {} /\ ValueIn(long, tag) = ValueIn(short, tag)
<1> DEFINE S == TagsIn(short, tag)
           L == TagsIn(long, tag)
<1>1. S \in SUBSET Nat /\ L \in SUBSET Nat /\ S # {} /\ S \subseteq 1 .. n /\ S \subseteq L
  BY DEF TagsIn
<1>2. \A k \in L : k <= n => k \in S
  BY DEF TagsIn
<1> HIDE DEF S, L
<1>3. /\ Least(S) \in S /\ \A y \in S : Least(S) <= y
      /\ Least(L) \in L /\ \A y \in L : Least(L) <= y
  BY <1>1, LeastOfNaturals
<1> DEFINE l == Least(L)
           s == Least(S)
<1>4. l \in L /\ s \in S /\ s \in L /\ l \in Nat /\ s \in 1 .. n
      /\ (\A y \in L : l <= y) /\ (\A y \in S : s <= y)
  BY <1>1, <1>3
<1> HIDE DEF l, s
<1>5. l = s
  <2>1. l <= s /\ l <= n
    BY <1>4
  <2>2. l \in S
    BY <1>2, <1>4, <2>1
  <2>3. s <= l
    BY <1>4, <2>2
  <2> QED
    BY <1>4, <2>1, <2>3
<1>6. Least(S) \in 1 .. n
  BY <1>1, <1>3
<1> QED
  BY <1>1, <1>5, <1>6 DEF S, L, l, s, ValueIn

\* The words from a to b.
LEMMA Slice ==
    ASSUME NEW s \in Seq(Nat), NEW a \in Nat, NEW b \in Nat, a <= b, b <= Len(s)
    PROVE  LET t == SubSeq(s, a + 1, b)
           IN  t \in Seq(Nat) /\ Len(t) = b - a /\ \A k \in 1 .. b - a : t[k] = s[a + k]
<1> DEFINE t == SubSeq(s, a + 1, b)
           m == a + 1
<1>1. \A k \in m .. b : s[k] \in Nat
  OBVIOUS
<1>2. m \in Int /\ b \in Int
  OBVIOUS
<1> HIDE DEF m
<1>3. /\ SubSeq(s, m, b) \in Seq(Nat)
      /\ Len(SubSeq(s, m, b)) = IF m <= b THEN b - m + 1 ELSE 0
      /\ \A k \in 1 .. b - m + 1 : SubSeq(s, m, b)[k] = s[m + k - 1]
  BY <1>1, <1>2, SubSeqProperties
<1>4. b - m + 1 = b - a /\ (IF m <= b THEN b - m + 1 ELSE 0) = b - a
      /\ \A k \in 1 .. b - a : m + k - 1 = a + k
  BY DEF m
<1>5. SubSeq(s, m, b) = t
  BY DEF m
<1> HIDE DEF t
<1> QED
  BY <1>3, <1>4, <1>5 DEF t

\* The string read is the text there, or as much of it as there is.
LEMMA TextRead ==
    ASSUME NEW lib \in Seq(Nat), NEW start \in Nat, HasText(lib, start),
           dynlib_data \in Seq(Nat), Len(dynlib_data) <= Len(lib), start <= Len(dynlib_data),
           \A k \in 1 .. Len(dynlib_data) : dynlib_data[k] = lib[k]
    PROVE  LET got  == StringAt(start)
               made == TextFrom(lib, start)
           IN  /\ got \in Seq(Nat)
               /\ Len(got) <= Len(made) /\ got = SubSeq(made, 1, Len(got))
               /\ Len(dynlib_data) = Len(lib) => got = made
<1> DEFINE Z == {k \in start + 1 .. Len(lib) : lib[k] = 0}
           ends == {k \in start + 1 .. Len(dynlib_data) : dynlib_data[k] = 0}
           e == Least(Z)
           n == Len(dynlib_data)
           stop == IF ends = {} THEN n ELSE Least(ends) - 1
           got == StringAt(start)
           made == TextFrom(lib, start)
<1>1. n \in Nat /\ Len(lib) \in Nat /\ n <= Len(lib) /\ start <= n
  OBVIOUS
<1>2. Z \in SUBSET Nat /\ Z # {} /\ ends \in SUBSET Nat
  <2>1. \A k \in start + 1 .. Len(lib) : k \in Nat
    BY <1>1
  <2>2. \A k \in start + 1 .. n : k \in Nat
    BY <1>1
  <2>3. Z # {}
    BY DEF HasText
  <2> QED
    BY <2>1, <2>2, <2>3
<1>3. e \in Z /\ \A y \in Z : e <= y
  BY <1>2, LeastOfNaturals
<1>4. got = SubSeq(dynlib_data, start + 1, stop)
  BY DEF StringAt
<1>5. made = SubSeq(lib, start + 1, e - 1)
  BY DEF TextFrom
<1>6. e \in start + 1 .. Len(lib) /\ lib[e] = 0 /\ e \in Nat
  BY <1>3
<1>7. \A k \in ends : k \in Z
  BY <1>1
<1>8. e <= n => e \in ends
  BY <1>1, <1>6
<1>9. ends # {} => Least(ends) \in ends /\ \A y \in ends : Least(ends) <= y
  BY <1>2, LeastOfNaturals
<1>10. \A k \in ends : k \in Nat /\ k <= n
  BY <1>1
<1> HIDE DEF Z, ends, e, n, stop, got, made
<1>11. /\ e <= n => stop = e - 1
       /\ n < e => stop = n
  <2>1. CASE e <= n
    <3>1. ends # {} /\ Least(ends) = e
      BY <1>3, <1>6, <1>7, <1>8, <1>9, <1>10, <2>1
    <3> QED
      BY <2>1, <3>1, <1>6, <1>1 DEF stop
  <2>2. CASE n < e
    <3>1. ends = {}
      BY <1>1, <1>3, <1>6, <1>7, <1>10, <2>2
    <3> QED
      BY <2>2, <3>1, <1>6, <1>1 DEF stop
  <2> QED
    BY <2>1, <2>2, <1>1, <1>6
<1>12. stop \in Nat /\ stop <= n /\ stop <= e - 1 /\ start <= stop /\ e - 1 <= Len(lib)
  BY <1>1, <1>6, <1>11
<1>13. /\ got \in Seq(Nat) /\ Len(got) = stop - start
       /\ \A k \in 1 .. stop - start : got[k] = dynlib_data[start + k]
  BY <1>4, <1>12, Slice DEF n
<1>14. /\ made \in Seq(Nat) /\ Len(made) = e - 1 - start
       /\ \A k \in 1 .. e - 1 - start : made[k] = lib[start + k]
  <2>1. e - 1 \in Nat /\ start <= e - 1 /\ e - 1 <= Len(lib)
    BY <1>6, <1>12
  <2> QED
    BY <1>5, <2>1, Slice
<1>15. \A k \in 1 .. stop - start : got[k] = made[k]
  <2>1. SUFFICES ASSUME NEW k \in 1 .. stop - start PROVE got[k] = made[k]
    OBVIOUS
  <2>2. k \in 1 .. e - 1 - start /\ start + k \in 1 .. n
    BY <1>1, <1>6, <1>12
  <2> QED
    BY <1>13, <1>14, <2>2 DEF n
<1>16. Len(got) <= Len(made) /\ Len(got) \in Nat
  BY <1>1, <1>6, <1>12, <1>13, <1>14
<1>17. got = SubSeq(made, 1, Len(got))
  <2> DEFINE c == SubSeq(made, 1, Len(got))
  <2>1. c \in Seq(Nat) /\ Len(c) = Len(got) /\ \A k \in 1 .. Len(got) : c[k] = made[k]
    BY <1>14, <1>16
  <2> HIDE DEF c
  <2>2. \A k \in 1 .. Len(got) : got[k] = c[k]
    BY <1>13, <1>15, <2>1
  <2>3. got = c
    BY <1>13, <2>1, <2>2
  <2> QED
    BY <2>3 DEF c
<1>18. ASSUME n = Len(lib) PROVE got = made
  <2>1. Len(got) = Len(made)
    BY <1>1, <1>6, <1>11, <1>13, <1>14, <1>18
  <2> QED
    <3>1. \A k \in 1 .. Len(got) : got[k] = made[k]
      BY <1>13, <1>15
    <3> QED
      BY <1>13, <1>14, <2>1, <3>1, SeqEqual
<1> QED
  BY <1>13, <1>16, <1>17, <1>18 DEF got, made, n

LibWords == WordsOf(file, "SceDynlibData")
DynWords == EntriesOf(file)

\* The words of the last header of a type.
LEMMA WordsAre ==
    ASSUME NEW type
    PROVE  LET i == Greatest(OfType(type))
           IN  /\ OfType(type) = {} => WordsOf(file, type) = <<>>
               /\ OfType(type) # {} =>
                     WordsOf(file, type) = [k \in 1 .. program_headers[i].filesz |-> ElfWord(i, k)]
BY DEF WordsOf, OfType, ElfWord, program_headers

\* What was read of the dynamic entries begins the ones of the ELF inside, and is all
\* of them if the file is whole.
LEMMA EntriesAgree ==
    ASSUME file \in Files, dynamic_entries \in Seq(Nat), EntriesRead,
           OfType("Dynamic") = {} => dynamic_entries = <<>>
    PROVE  LET n == Len(dynamic_entries)
           IN  /\ DOMAIN DynWords \subseteq Nat \ {0} /\ 1 .. n \subseteq DOMAIN DynWords
               /\ \A k \in 1 .. n : dynamic_entries[k] = DynWords[k]
               /\ Whole /\ EntriesAll => DynWords = dynamic_entries
<1> DEFINE n == Len(dynamic_entries)
           words == WordsOf(file, "Dynamic")
           S == {m \in DOMAIN words : \A j \in 1 .. m : ~IsNull(words[j])}
<1>1. DynWords = [k \in S |-> words[k]]
  BY DEF DynWords, EntriesOf
<1>2. n \in Nat /\ DOMAIN dynamic_entries = 1 .. n
      /\ dynamic_entries = [k \in 1 .. n |-> dynamic_entries[k]]
  OBVIOUS
<1>3. CASE OfType("Dynamic") = {}
  <2>1. words = <<>> /\ dynamic_entries = <<>>
    BY <1>3, WordsAre
  <2>2. S = {} /\ n = 0 /\ 1 .. n = {}
    BY <2>1
  <2> HIDE DEF S, n
  <2>3. DOMAIN DynWords = {} /\ DynWords = [k \in {} |-> words[k]]
    BY <1>1, <2>2
  <2>4. DynWords = dynamic_entries
    BY <1>2, <2>2, <2>3
  <2> QED
    BY <2>2, <2>3, <2>4 DEF n
<1>4. CASE OfType("Dynamic") # {}
  <2> DEFINE size == program_headers[dynamic_phdr].filesz
  <2>1. words = [k \in 1 .. size |-> ElfWord(dynamic_phdr, k)]
    BY <1>4, WordsAre DEF dynamic_phdr
  <2>2. size \in Nat
    BY <1>4, LastHeader, HeaderTypes DEF dynamic_phdr
  <2>3. /\ n <= size
        /\ \A k \in 1 .. n : dynamic_entries[k] = ElfWord(dynamic_phdr, k) /\ ~IsNull(dynamic_entries[k])
    BY <1>2, <1>4 DEF EntriesRead
  <2>4. Whole /\ EntriesAll => (n < size => IsNull(ElfWord(dynamic_phdr, n + 1)))
    BY <1>4 DEF EntriesAll
  <2> HIDE DEF n, size, words
  <2>5. DOMAIN words = 1 .. size /\ \A k \in 1 .. size : words[k] = ElfWord(dynamic_phdr, k)
    BY <2>1
  <2>6. \A k \in 1 .. n : k \in 1 .. size /\ words[k] = dynamic_entries[k] /\ ~IsNull(words[k])
    BY <1>2, <2>2, <2>3, <2>5
  <2>7. \A k \in 1 .. n : \A j \in 1 .. k : j \in 1 .. n
    BY <1>2
  <2>8. 1 .. n \subseteq S
    BY <2>5, <2>6, <2>7
  <2>9. S \subseteq Nat \ {0}
    BY <2>2, <2>5
  <2>10. ASSUME Whole, EntriesAll PROVE S = 1 .. n
    <3>1. SUFFICES ASSUME NEW m \in S, m \notin 1 .. n PROVE FALSE
      BY <2>8
    <3>2. m \in 1 .. size /\ n + 1 \in 1 .. m /\ n < size
      BY <1>2, <2>2, <2>5, <3>1
    <3>3. n + 1 \in 1 .. size
      BY <1>2, <2>2, <3>2
    <3>4. IsNull(words[n + 1])
      BY <2>4, <2>5, <2>10, <3>2, <3>3
    <3> QED
      BY <3>1, <3>2, <3>4
  <2> HIDE DEF S
  <2>11. DOMAIN DynWords = S /\ \A k \in S : DynWords[k] = words[k]
    BY <1>1
  <2>12. \A k \in 1 .. n : dynamic_entries[k] = DynWords[k]
    BY <2>6, <2>8, <2>11
  <2>13. ASSUME Whole, EntriesAll PROVE DynWords = dynamic_entries
    <3>1. DynWords = [k \in 1 .. n |-> words[k]]
      BY <1>1, <2>10, <2>13
    <3>2. \A k \in 1 .. n : words[k] = dynamic_entries[k]
      BY <2>6
    <3> QED
      BY <1>2, <3>1, <3>2
  <2> QED
    BY <2>8, <2>9, <2>11, <2>12, <2>13 DEF n
<1> QED
  BY <1>3, <1>4

\* a is the beginning of b.
Begins(a, b) ==
    a \in Seq(Nat) /\ Len(a) <= Len(b) /\ \A k \in 1 .. Len(a) : a[k] = b[k]

\* The dynlib data is that of the ELF inside, as far as the file has it.
LEMMA LibRead ==
    ASSUME file \in Files, Sound(file), LibWords \in Seq(Nat), ReadDynlibData
    PROVE  /\ Begins(dynlib_data', LibWords)
           /\ Whole => Len(dynlib_data') = Len(LibWords)
<1>1. CASE OfType("SceDynlibData") = {}
  <2>1. dynlib_data' = <<>> /\ LibWords = <<>>
    BY <1>1, WordsAre DEF ReadDynlibData, LibWords
  <2> QED
    BY <2>1 DEF Begins
<1>2. CASE OfType("SceDynlibData") # {}
  <2> DEFINE i == dynlib_phdr
             size == program_headers[i].filesz
             start == resolve_file_offset(i)
             n == Len(data)
             end == IF start + size <= n THEN start + size ELSE n
             got == dynlib_data'
  <2>1. i \in DOMAIN program_headers
    BY <1>2, LastHeader DEF dynlib_phdr
  <2>2. size \in Nat /\ start \in Nat /\ n \in Nat /\ data \in Seq(Nat) /\ WordsAt(i, start)
    BY <2>1, HeaderTypes, ResolveType, ResolveFinds, FileTypes
  <2>3. got = SubSeq(data, start + 1, end)
    BY <1>2 DEF ReadDynlibData
  <2>4. LibWords = [k \in 1 .. size |-> ElfWord(i, k)]
    BY <1>2, WordsAre DEF LibWords, dynlib_phdr
  <2>5. /\ Whole => start + size <= n
        /\ \A k \in 1 .. size : start + k <= n => data[start + k] = ElfWord(i, k)
    BY <2>2 DEF WordsAt
  <2> HIDE DEF i, size, start, n, end, got
  <2>6. Len(LibWords) = size /\ \A k \in 1 .. size : LibWords[k] = ElfWord(i, k)
    BY <2>2, <2>4
  <2>7. CASE start <= n
    <3>1. end \in Nat /\ start <= end /\ end <= n /\ end - start <= size
      BY <2>2, <2>7 DEF end
    <3>2. got \in Seq(Nat) /\ Len(got) = end - start
          /\ \A k \in 1 .. end - start : got[k] = data[start + k]
      BY <2>2, <2>3, <3>1, Slice DEF n
    <3>3. \A k \in 1 .. end - start : k \in 1 .. size /\ start + k <= n
      BY <2>2, <3>1
    <3>4. \A k \in 1 .. Len(got) : got[k] = LibWords[k]
      BY <2>5, <2>6, <3>2, <3>3
    <3>5. Whole => Len(got) = size
      BY <2>2, <2>5, <3>2 DEF end
    <3> QED
      BY <2>6, <3>1, <3>2, <3>4, <3>5 DEF Begins, got
  <2>8. CASE ~(start <= n)
    <3>1. end = n /\ end < start + 1 /\ start + 1 \in Int /\ end \in Int
      BY <2>2, <2>8 DEF end
    <3>2. got = <<>>
      BY <2>3, <3>1, SubSeqEmpty
    <3>3. ~Whole
      BY <2>2, <2>5, <2>8
    <3>4. Len(got) = 0 /\ got \in Seq(Nat) /\ 1 .. 0 = {} /\ 0 <= size
      BY <2>2, <3>2
    <3> QED
      BY <2>6, <3>3, <3>4 DEF Begins, got
  <2> QED
    BY <2>7, <2>8
<1> QED
  BY <1>1, <1>2

\* A relocation: what the file was made with is what is read, or the beginning of its
\* name if the dynlib data is cut off.
LEMMA RelocationRead ==
    ASSUME LibWords \in Seq(Nat), Begins(dynlib_data, LibWords),
           \A tag \in SymbolTags :
               dynamic_value(tag) \in Nat /\ dynamic_value(tag) = ValueIn(DynWords, tag),
           NEW k, Entries[k] \in Nat,
           NEW r \in [offset : Nat, symbol_name : Seq(Nat)],
           RelocAt(DynWords, LibWords, Entries[k], r)
    PROVE  LET name == SymbolName(k)
           IN  /\ ~RelocationPanics(k) /\ ~SliceEmpty(Entries[k]) =>
                     /\ First(Rel(k)) = r.offset /\ name \in Seq(Nat)
                     /\ Len(name) <= Len(r.symbol_name)
                     /\ name = SubSeq(r.symbol_name, 1, Len(name))
               /\ Len(dynlib_data) = Len(LibWords) =>
                     /\ ~RelocationPanics(k) /\ ~SliceEmpty(Entries[k])
                     /\ First(Rel(k)) = r.offset /\ name = r.symbol_name
<1> DEFINE lib == LibWords
           n == Len(dynlib_data)
           place == Entries[k]
           w == lib[place + 1]
           s == Second(w)
           name == SymbolName(k)
           made == r.symbol_name
           whole == n = Len(lib)
           symtab == dynamic_value(DT_SCE_SYMTAB)
           symsz == dynamic_value(DT_SCE_SYMTABSZ)
           strtab == dynamic_value(DT_SCE_STRTAB)
           strsz == dynamic_value(DT_SCE_STRSZ)
           sp == symtab + s
           start == strtab + lib[sp + 1]
<1>1. /\ lib \in Seq(Nat) /\ Len(lib) \in Nat /\ n \in Nat /\ n <= Len(lib) /\ place \in Nat
      /\ \A j \in 1 .. n : dynlib_data[j] = lib[j]
      /\ dynlib_data \in Seq(Nat)
  BY DEF Begins
<1>2. symtab \in Nat /\ symsz \in Nat /\ strtab \in Nat /\ strsz \in Nat
  BY DEF SymbolTags
<1>3. /\ place < Len(lib) /\ r.offset = First(w)
      /\ SymbolNamed(DynWords, lib, s, made)
  BY DEF RelocAt
<1>4. /\ symtab = ValueIn(DynWords, DT_SCE_SYMTAB) /\ symsz = ValueIn(DynWords, DT_SCE_SYMTABSZ)
      /\ strtab = ValueIn(DynWords, DT_SCE_STRTAB) /\ strsz = ValueIn(DynWords, DT_SCE_STRSZ)
  BY DEF SymbolTags
<1>5. \/ s = 0 /\ made = <<>>
      \/ /\ s # 0 /\ s < symsz /\ sp < Len(lib) /\ lib[sp + 1] < strsz
         /\ HasText(lib, start) /\ made = TextFrom(lib, start)
  <2> HIDE DEF symtab, symsz, strtab, strsz, lib, s
  <2> QED
    BY <1>3, <1>4 DEF SymbolNamed
<1>6. made \in Seq(Nat) /\ Len(made) \in Nat
  OBVIOUS
<1>7. /\ RelocationPanics(k) <=>
            \/ SlicePanics(place)
            \/ /\ ~SliceEmpty(place) /\ HasSymbol(k)
               /\ \/ SlicePanics(SymbolPlace(k))
                  \/ /\ ~SliceEmpty(SymbolPlace(k))
                     /\ InStrings(NameOffset(k)) /\ SlicePanics(NamePlace(k))
      /\ name = IF HasSymbol(k) /\ ~SliceEmpty(SymbolPlace(k)) /\ InStrings(NameOffset(k))
                THEN StringAt(NamePlace(k)) ELSE <<>>
  BY DEF RelocationPanics, SymbolName
<1>8. \A p : (SlicePanics(p) <=> p > n) /\ (SliceEmpty(p) <=> p = n)
  BY DEF SlicePanics, SliceEmpty
<1>9. SUFFICES ASSUME ~SlicePanics(place), ~SliceEmpty(place)
               PROVE  /\ ~RelocationPanics(k) =>
                            /\ First(Rel(k)) = r.offset /\ name \in Seq(Nat)
                            /\ Len(name) <= Len(made) /\ name = SubSeq(made, 1, Len(name))
                      /\ whole =>
                            ~RelocationPanics(k) /\ First(Rel(k)) = r.offset /\ name = made
  <2>1. whole => ~SlicePanics(place) /\ ~SliceEmpty(place)
    BY <1>1, <1>3, <1>8
  <2>2. SlicePanics(place) => RelocationPanics(k)
    BY <1>7
  <2> QED
    BY <2>1, <2>2
<1>10. place < n
  BY <1>1, <1>8, <1>9
<1>11. Rel(k) = w /\ w \in Nat
  <2>1. place + 1 \in 1 .. n /\ place + 1 \in 1 .. Len(lib)
    BY <1>1, <1>10
  <2>2. Rel(k) = dynlib_data[place + 1]
    BY DEF Rel
  <2> HIDE DEF lib, n, place
  <2> QED
    BY <1>1, <2>1, <2>2
<1>12. /\ HasSymbol(k) <=> s # 0 /\ s < symsz
       /\ SymbolPlace(k) = sp
       /\ NameOffset(k) = dynlib_data[sp + 1]
       /\ NamePlace(k) = strtab + dynlib_data[sp + 1]
       /\ \A o : InStrings(o) <=> o < strsz
  BY <1>11 DEF HasSymbol, SymbolPlace, NameOffset, NamePlace, InStrings
<1>13. s \in Nat
  BY <1>11 DEF Second
<1>14. First(Rel(k)) = r.offset
  BY <1>3, <1>11
<1>15. <<>> = SubSeq(made, 1, Len(<<>>)) /\ Len(<<>>) <= Len(made) /\ <<>> \in Seq(Nat)
  <2>1. Len(<<>>) = 0 /\ 0 \in Int /\ 1 \in Int /\ 0 < 1
    OBVIOUS
  <2> HIDE DEF made
  <2>2. SubSeq(made, 1, 0) = <<>>
    BY <2>1, SubSeqEmpty
  <2> QED
    BY <1>6, <2>1, <2>2
<1> HIDE DEF lib, n, place, w, s, name, made, whole, symtab, symsz, strtab, strsz, sp, start
<1>16. CASE s = 0
  <2>1. ~HasSymbol(k)
    BY <1>12, <1>16
  <2>2. name = <<>> /\ ~RelocationPanics(k) /\ made = <<>>
    BY <1>5, <1>7, <1>9, <1>16, <2>1
  <2> QED
    BY <1>14, <1>15, <2>2
<1>17. CASE s # 0
  <2>1. /\ s < symsz /\ sp < Len(lib) /\ lib[sp + 1] < strsz
        /\ HasText(lib, start) /\ made = TextFrom(lib, start)
    BY <1>5, <1>17
  <2>2. sp \in Nat /\ HasSymbol(k)
    BY <1>2, <1>12, <1>13, <1>17, <2>1 DEF sp
  <2>3. CASE sp > n
    <3>1. RelocationPanics(k)
      BY <1>7, <1>8, <1>9, <1>12, <2>2, <2>3
    <3>2. ~whole
      BY <1>1, <2>1, <2>2, <2>3 DEF whole
    <3> QED
      BY <3>1, <3>2
  <2>4. CASE sp = n
    <3>1. name = <<>>
      BY <1>7, <1>8, <1>12, <2>4
    <3>2. ~whole
      BY <1>1, <2>1, <2>2, <2>4 DEF whole
    <3> QED
      BY <1>14, <1>15, <3>1, <3>2
  <2>5. CASE sp < n
    <3>1. dynlib_data[sp + 1] = lib[sp + 1] /\ lib[sp + 1] \in Nat
      <4>1. sp + 1 \in 1 .. n /\ sp + 1 \in 1 .. Len(lib)
        BY <1>1, <2>2, <2>5
      <4> QED
        BY <1>1, <4>1
    <3>2. NamePlace(k) = start /\ InStrings(NameOffset(k)) /\ start \in Nat
      BY <1>2, <1>12, <2>1, <3>1 DEF start
    <3>3. ~SlicePanics(sp) /\ ~SliceEmpty(sp)
      BY <1>1, <1>8, <2>2, <2>5
    <3>4. name = StringAt(start) /\ (RelocationPanics(k) <=> start > n)
      BY <1>7, <1>8, <1>9, <1>12, <2>2, <3>2, <3>3
    <3>5. start < Len(lib)
      BY <1>1, <2>1, <3>2 DEF HasText
    <3>6. whole => ~(start > n)
      BY <1>1, <3>2, <3>5 DEF whole
    <3>7. ASSUME ~(start > n)
          PROVE  /\ name \in Seq(Nat) /\ Len(name) <= Len(made) /\ name = SubSeq(made, 1, Len(name))
                 /\ whole => name = made
      <4>1. start <= Len(dynlib_data) /\ Len(dynlib_data) <= Len(lib)
            /\ \A j \in 1 .. Len(dynlib_data) : dynlib_data[j] = lib[j]
        BY <1>1, <3>2, <3>7 DEF n
      <4>2. LET got == StringAt(start)
                text == TextFrom(lib, start)
            IN  /\ got \in Seq(Nat)
                /\ Len(got) <= Len(text) /\ got = SubSeq(text, 1, Len(got))
                /\ Len(dynlib_data) = Len(lib) => got = text
        BY <1>1, <2>1, <3>2, <4>1, TextRead
      <4> QED
        BY <2>1, <3>4, <4>2 DEF whole, n
    <3> QED
      BY <1>14, <3>4, <3>6, <3>7
  <2> QED
    BY <1>1, <2>2, <2>3, <2>4, <2>5
<1> QED
  BY <1>16, <1>17 DEF name, made, whole, n, lib

\* A tag that was read is one of the ELF inside.
LEMMA TagRead ==
    ASSUME file \in Files, dynamic_entries \in Seq(Nat), EntriesRead,
           OfType("Dynamic") = {} => dynamic_entries = <<>>,
           NEW tag, TagsIn(dynamic_entries, tag) # {}
    PROVE  /\ TagsIn(DynWords, tag) # {}
           /\ ValueIn(DynWords, tag) = ValueIn(dynamic_entries, tag)
           /\ dynamic_value(tag) = ValueIn(dynamic_entries, tag) /\ dynamic_value(tag) \in Nat
<1> DEFINE n == Len(dynamic_entries)
<1>1. n \in Nat /\ DOMAIN dynamic_entries = 1 .. n
  OBVIOUS
<1>2. /\ DOMAIN DynWords \subseteq Nat \ {0} /\ 1 .. n \subseteq DOMAIN DynWords
      /\ \A k \in 1 .. n : dynamic_entries[k] = DynWords[k]
  BY EntriesAgree
<1> DEFINE short == dynamic_entries
           long == DynWords
<1> HIDE DEF n, short, long
<1>3. /\ n \in Nat /\ DOMAIN short = 1 .. n /\ 1 .. n \subseteq DOMAIN long
      /\ DOMAIN long \subseteq Nat \ {0} /\ \A k \in 1 .. n : short[k] = long[k]
      /\ TagsIn(short, tag) # {}
  BY <1>1, <1>2 DEF short, long
<1>4. TagsIn(DynWords, tag) # {} /\ ValueIn(DynWords, tag) = ValueIn(dynamic_entries, tag)
  <2>1. TagsIn(long, tag) # {} /\ ValueIn(long, tag) = ValueIn(short, tag)
    BY <1>3, FirstTag
  <2> QED
    BY <2>1 DEF short, long
<1>5. HasTag(tag) /\ dynamic_value(tag) = ValueIn(dynamic_entries, tag)
  BY DEF HasTag, WithTag, TagsIn, dynamic_value, ValueIn
<1> QED
  BY <1>4, <1>5, DynamicValue

\* A table that was found is one of the ELF inside.
LEMMA TableRead ==
    ASSUME file \in Files, dynamic_entries \in Seq(Nat), EntriesRead,
           OfType("Dynamic") = {} => dynamic_entries = <<>>,
           NEW off, NEW sz, TableSize(dynamic_entries, off, sz) # 0
    PROVE  /\ TableSize(DynWords, off, sz) = TableSize(dynamic_entries, off, sz)
           /\ ValueIn(DynWords, off) = ValueIn(dynamic_entries, off)
           /\ ValueIn(DynWords, off) \in Nat
           /\ \A tag \in SymbolTags :
                 dynamic_value(tag) \in Nat /\ dynamic_value(tag) = ValueIn(DynWords, tag)
<1> DEFINE T == SymbolTags \cup {off, sz}
<1>1. \A tag \in T : TagsIn(dynamic_entries, tag) # {}
  BY DEF TableSize
<1>2. TableSize(dynamic_entries, off, sz) = ValueIn(dynamic_entries, sz)
  BY <1>1 DEF TableSize
<1>3. \A tag \in T :
          /\ TagsIn(DynWords, tag) # {}
          /\ ValueIn(DynWords, tag) = ValueIn(dynamic_entries, tag)
          /\ dynamic_value(tag) = ValueIn(dynamic_entries, tag) /\ dynamic_value(tag) \in Nat
  BY <1>1, TagRead
<1>4. TableSize(DynWords, off, sz) = ValueIn(DynWords, sz)
  BY <1>3 DEF TableSize
<1>5. off \in T /\ sz \in T /\ SymbolTags \subseteq T
  OBVIOUS
<1> HIDE DEF T
<1> QED
  BY <1>2, <1>3, <1>4, <1>5

Relocs == [offset : Nat, symbol_name : Seq(Nat)]

\* What is known of the tables while they are read.
TablesRead ==
    /\ OfType("Dynamic") = {} => dynamic_entries = <<>>
    /\ Begins(dynlib_data, LibWords)

\* Sizes are numbers.
LEMMA TableSizeType ==
    ASSUME NEW dyn, DOMAIN dyn \subseteq Nat, \A k \in DOMAIN dyn : dyn[k] \in Nat,
           NEW off, NEW sz
    PROVE  TableSize(dyn, off, sz) \in Nat
<1>1. SUFFICES ASSUME TagsIn(dyn, sz) # {} PROVE ValueIn(dyn, sz) \in Nat
  BY DEF TableSize
<1>2. TagsIn(dyn, sz) \in SUBSET Nat /\ TagsIn(dyn, sz) \subseteq DOMAIN dyn
  BY DEF TagsIn
<1>3. dyn[Least(TagsIn(dyn, sz))] \in Nat
  BY <1>1, <1>2, LeastOfNaturals
<1> QED
  BY <1>3 DEF ValueIn, Second

\* What TablesSound says of the file that is loaded.
LEMMA SoundFacts ==
    ASSUME TablesSound(file)
    PROVE  LET relas   == TableSize(DynWords, DT_SCE_RELA, DT_SCE_RELASZ)
               jmprels == TableSize(DynWords, DT_SCE_JMPREL, DT_SCE_PLTRELSZ)
           IN  /\ LibWords \in Seq(Nat) /\ \A k \in DOMAIN DynWords : DynWords[k] \in Nat
               /\ file.relocs \in Seq(Relocs)
               /\ Len(file.relocs) = relas + jmprels
               /\ \A k \in 1 .. relas :
                     RelocAt(DynWords, LibWords, ValueIn(DynWords, DT_SCE_RELA) + k - 1,
                             file.relocs[k])
               /\ \A k \in 1 .. jmprels :
                     RelocAt(DynWords, LibWords, ValueIn(DynWords, DT_SCE_JMPREL) + k - 1,
                             file.relocs[relas + k])
BY DEF TablesSound, LibWords, DynWords, Relocs

\* Each entry that parse_relocations goes to is one of a relocation of the file; those
\* of a whole file are all of them, in their order.
LEMMA EntryMade ==
    ASSUME file \in Files, TablesSound(file), dynamic_entries \in Seq(Nat), EntriesRead, TablesRead,
           Whole => EntriesAll
    PROVE  /\ Entries \in Seq(Nat)
           /\ Whole => Len(Entries) = Len(file.relocs)
           /\ \A k \in DOMAIN Entries :
                 /\ \A tag \in SymbolTags :
                       dynamic_value(tag) \in Nat /\ dynamic_value(tag) = ValueIn(DynWords, tag)
                 /\ \E r \in DOMAIN file.relocs :
                       /\ RelocAt(DynWords, LibWords, Entries[k], file.relocs[r])
                       /\ Whole => r = k
<1> DEFINE dyn == dynamic_entries
           relas == TableSize(dyn, DT_SCE_RELA, DT_SCE_RELASZ)
           jmprels == TableSize(dyn, DT_SCE_JMPREL, DT_SCE_PLTRELSZ)
           R == TableSize(DynWords, DT_SCE_RELA, DT_SCE_RELASZ)
           J == TableSize(DynWords, DT_SCE_JMPREL, DT_SCE_PLTRELSZ)
           rela == ValueIn(dyn, DT_SCE_RELA)
           jmprel == ValueIn(dyn, DT_SCE_JMPREL)
           tags == \A tag \in SymbolTags :
                      dynamic_value(tag) \in Nat /\ dynamic_value(tag) = ValueIn(DynWords, tag)
           relocs == file.relocs
<1>1. /\ relas \in Nat /\ jmprels \in Nat
      /\ Entries \in Seq(Nat) /\ Len(Entries) = relas + jmprels
      /\ \A k \in 1 .. relas : Entries[k] = rela + k - 1
      /\ \A k \in 1 .. jmprels : Entries[relas + k] = jmprel + k - 1
  BY EntriesAre
<1>2. /\ LibWords \in Seq(Nat) /\ relocs \in Seq(Relocs) /\ Len(relocs) = R + J
      /\ \A k \in 1 .. R :
            RelocAt(DynWords, LibWords, ValueIn(DynWords, DT_SCE_RELA) + k - 1, relocs[k])
      /\ \A k \in 1 .. J :
            RelocAt(DynWords, LibWords, ValueIn(DynWords, DT_SCE_JMPREL) + k - 1, relocs[R + k])
  BY SoundFacts
<1>3. relas # 0 => R = relas /\ ValueIn(DynWords, DT_SCE_RELA) = rela /\ tags
  BY TableRead DEF TablesRead
<1>4. jmprels # 0 => J = jmprels /\ ValueIn(DynWords, DT_SCE_JMPREL) = jmprel /\ tags
  BY TableRead DEF TablesRead
<1>5. Whole => R = relas /\ J = jmprels
  BY EntriesAgree DEF TablesRead
<1>6. R \in Nat /\ J \in Nat
  <2>1. DOMAIN DynWords \subseteq Nat
    BY EntriesAgree DEF TablesRead
  <2>2. \A k \in DOMAIN DynWords : DynWords[k] \in Nat
    BY SoundFacts
  <2> DEFINE d == DynWords
  <2> HIDE DEF d
  <2>3. DOMAIN d \subseteq Nat /\ \A k \in DOMAIN d : d[k] \in Nat
    BY <2>1, <2>2 DEF d
  <2>4. \A off, sz : TableSize(d, off, sz) \in Nat
    BY <2>3, TableSizeType
  <2> QED
    BY <2>4 DEF d
<1> HIDE DEF relas, jmprels, R, J, rela, jmprel, tags, relocs
<1>7. ASSUME NEW k \in 1 .. relas
      PROVE  tags /\ \E r \in DOMAIN relocs :
                        RelocAt(DynWords, LibWords, Entries[k], relocs[r]) /\ (Whole => r = k)
  <2>1. relas # 0 /\ R = relas /\ k \in 1 .. R
    BY <1>1, <1>3
  <2>2. tags /\ RelocAt(DynWords, LibWords, Entries[k], relocs[k])
    BY <1>1, <1>2, <1>3, <2>1
  <2>3. k \in DOMAIN relocs
    BY <1>2, <1>6, <2>1
  <2> QED
    BY <2>2, <2>3
<1>8. ASSUME NEW k \in 1 .. jmprels
      PROVE  tags /\ \E r \in DOMAIN relocs :
                        /\ RelocAt(DynWords, LibWords, Entries[relas + k], relocs[r])
                        /\ Whole => r = relas + k
  <2>1. jmprels # 0 /\ J = jmprels /\ k \in 1 .. J
    BY <1>1, <1>4
  <2>2. tags /\ RelocAt(DynWords, LibWords, Entries[relas + k], relocs[R + k])
    BY <1>1, <1>2, <1>4, <2>1
  <2>3. R + k \in DOMAIN relocs
    BY <1>2, <1>6, <2>1
  <2>4. Whole => R + k = relas + k
    BY <1>5
  <2> QED
    BY <2>2, <2>3, <2>4
<1>9. ASSUME NEW k \in DOMAIN Entries
      PROVE  tags /\ \E r \in DOMAIN relocs :
                        RelocAt(DynWords, LibWords, Entries[k], relocs[r]) /\ (Whole => r = k)
  <2>1. k \in 1 .. relas \/ (k - relas \in 1 .. jmprels /\ relas + (k - relas) = k)
    BY <1>1
  <2>2. CASE k \in 1 .. relas
    BY <1>7, <2>2
  <2>3. CASE k - relas \in 1 .. jmprels /\ relas + (k - relas) = k
    <3> DEFINE j == k - relas
    <3>1. j \in 1 .. jmprels /\ relas + j = k
      BY <2>3
    <3> HIDE DEF j
    <3> QED
      BY <1>8, <3>1
  <2> QED
    BY <2>1, <2>2, <2>3
<1>10. Whole => Len(Entries) = Len(relocs)
  BY <1>1, <1>2, <1>5
<1> QED
  BY <1>1, <1>9, <1>10 DEF tags, relocs

\* The needed modules of a whole file.
LEMMA NeededRead ==
    ASSUME file \in Files, TablesSound(file), dynamic_entries \in Seq(Nat), EntriesRead, TablesRead,
           Whole, EntriesAll, Len(dynlib_data) = Len(LibWords)
    PROVE  needed_modules = file.needed
<1> DEFINE dyn == dynamic_entries
           lib == LibWords
           start(k) == ValueIn(dyn, DT_SCE_STRTAB) + Second(dyn[k])
<1>1. DynWords = dyn
  BY EntriesAgree DEF TablesRead
<1>2. /\ lib \in Seq(Nat)
      /\ \A k \in DOMAIN DynWords : NamesModule(DynWords[k]) =>
            /\ TagsIn(DynWords, DT_SCE_STRTAB) # {} /\ TagsIn(DynWords, DT_SCE_STRSZ) # {}
            /\ Second(DynWords[k]) < ValueIn(DynWords, DT_SCE_STRSZ)
            /\ HasText(lib, ValueIn(DynWords, DT_SCE_STRTAB) + Second(DynWords[k]))
      /\ file.needed = Nonempty([k \in DOMAIN DynWords |->
            IF NamesModule(DynWords[k])
            THEN TextFrom(lib, ValueIn(DynWords, DT_SCE_STRTAB) + Second(DynWords[k])) ELSE <<>>])
  BY DEF TablesSound, LibWords, DynWords
<1>3. ASSUME NEW k \in DOMAIN dyn, NamesModule(dyn[k])
      PROVE  get_dynamic_string(Second(dyn[k])) = TextFrom(lib, start(k))
  <2>1. /\ TagsIn(dyn, DT_SCE_STRTAB) # {} /\ TagsIn(dyn, DT_SCE_STRSZ) # {}
        /\ Second(dyn[k]) < ValueIn(dyn, DT_SCE_STRSZ) /\ HasText(lib, start(k))
    BY <1>1, <1>2, <1>3
  <2>2. /\ HasTag(DT_SCE_STRTAB) /\ HasTag(DT_SCE_STRSZ)
        /\ dynamic_value(DT_SCE_STRTAB) = ValueIn(dyn, DT_SCE_STRTAB)
        /\ dynamic_value(DT_SCE_STRSZ) = ValueIn(dyn, DT_SCE_STRSZ)
    BY <2>1 DEF HasTag, WithTag, TagsIn, dynamic_value, ValueIn
  <2>3. ValueIn(dyn, DT_SCE_STRTAB) \in Nat
    BY <2>2, DynamicValue
  <2>4. dyn[k] \in Nat
    OBVIOUS
  <2>5. Second(dyn[k]) \in Nat
    BY <2>4 DEF Second
  <2> DEFINE s == start(k)
             o == Second(dyn[k])
             v == ValueIn(dyn, DT_SCE_STRTAB)
  <2>6. s = v + o
    OBVIOUS
  <2> HIDE DEF s, o, v, lib, dyn
  <2>7. s \in Nat
    BY <2>3, <2>5, <2>6 DEF o, v
  <2>8. HasText(lib, s)
    BY <2>1 DEF s
  <2>9. s < Len(dynlib_data) /\ s <= Len(dynlib_data)
    <3>1. Len(lib) \in Nat /\ Len(dynlib_data) = Len(lib)
      BY <1>2 DEF lib
    <3>2. PICK j \in s + 1 .. Len(lib) : TRUE
      BY <2>8 DEF HasText
    <3> QED
      BY <2>7, <3>1, <3>2
  <2>10. Begins(dynlib_data, lib)
    BY DEF TablesRead, lib
  <2>11. StringAt(s) = TextFrom(lib, s)
    BY <1>2, <2>7, <2>8, <2>9, <2>10, TextRead DEF Begins, lib
  <2>12. get_dynamic_string(o) = StringAt(s)
    BY <2>1, <2>2, <2>6, <2>9 DEF get_dynamic_string, InStrings, o, v
  <2> QED
    BY <2>11, <2>12 DEF o, s
<1>4. [k \in DOMAIN dyn |->
          IF NamesModule(dyn[k]) THEN get_dynamic_string(Second(dyn[k])) ELSE <<>>]
      = [k \in DOMAIN dyn |-> IF NamesModule(dyn[k]) THEN TextFrom(lib, start(k)) ELSE <<>>]
  <2> HIDE DEF dyn, lib, start
  <2> QED
    BY <1>3
<1>5. needed_modules = Nonempty([k \in DOMAIN dyn |->
          IF NamesModule(dyn[k]) THEN get_dynamic_string(Second(dyn[k])) ELSE <<>>])
  BY DEF needed_modules
<1>6. file.needed = Nonempty([k \in DOMAIN dyn |->
          IF NamesModule(dyn[k]) THEN TextFrom(lib, start(k)) ELSE <<>>])
  BY <1>1, <1>2
<1> QED
  BY <1>4, <1>5, <1>6

\* How many entries of the tables parse_relocations has gone through.
Parsed ==
    IF at > Len(program_headers) THEN at - Len(program_headers) - 1 ELSE 0

\* A relocation of the file, maybe without the end of its name.
FromFile(got) ==
    \E r \in DOMAIN file.relocs :
        LET made == file.relocs[r]
        IN  /\ got.offset = made.offset
            /\ Len(got.symbol_name) <= Len(made.symbol_name)
            /\ got.symbol_name = SubSeq(made.symbol_name, 1, Len(got.symbol_name))

\* The relocations so far; those of a whole file are the first ones it was made with.
RelocationsRead ==
    /\ relocations \in Seq(Relocs)
    /\ \A k \in DOMAIN relocations : FromFile(relocations[k])
    /\ Whole => \A k \in DOMAIN relocations :
                   k \in DOMAIN file.relocs /\ relocations[k] = file.relocs[k]

TablesInv ==
    /\ TablesRead
    /\ step \in {"map", "copy", "loaded"} /\ Whole => Len(dynlib_data) = Len(LibWords)
    /\ RelocationsRead
    /\ step \in {"headers", "dynamic", "map"} => relocations = <<>>
    /\ step = "copy" /\ Whole => Len(relocations) = Parsed
    /\ step = "loaded" /\ Whole => relocations = file.relocs
    /\ step = "panicked" => ~Whole

\* Nothing of this changes when the file and what was read of it do not.
LEMMA TablesSame ==
    ASSUME TablesInv, UNCHANGED <<file, dynamic_entries, dynlib_data, relocations>>
    PROVE  TablesRead' /\ RelocationsRead' /\ Whole' = Whole /\ LibWords' = LibWords
           /\ program_headers' = program_headers
<1>1. /\ Whole' = Whole /\ LibWords' = LibWords /\ OfType("Dynamic")' = OfType("Dynamic")
      /\ program_headers' = program_headers
  BY DEF Whole, data, LibWords, OfType, program_headers
<1>2. TablesRead'
  BY <1>1 DEF TablesInv, TablesRead, Begins
<1>3. \A k \in DOMAIN relocations : FromFile(relocations[k])'
  BY DEF TablesInv, RelocationsRead, FromFile
<1>4. RelocationsRead'
  BY <1>1, <1>3 DEF TablesInv, RelocationsRead
<1> QED
  BY <1>1, <1>2, <1>4

\* One more relocation.
LEMMA OneMore ==
    ASSUME ElfInv, TablesSound(file), DynamicInv, TablesInv, ParseRelocation
    PROVE  TablesInv'
<1> DEFINE n == Len(program_headers)
           k == at - n
           got == [offset |-> First(Rel(k)), symbol_name |-> SymbolName(k)]
           m == Len(relocations)
<1>1. /\ file \in Files /\ at \in Nat /\ step = "copy" /\ k \in DOMAIN Entries
      /\ dynamic_entries \in Seq(Nat) /\ EntriesRead /\ EntriesAll /\ TablesRead
      /\ UNCHANGED <<file, dynamic_entries, dynlib_data>>
  BY DEF ElfInv, DynamicInv, TablesInv, ParseRelocation
<1>2. n \in Nat
  BY <1>1, FileTypes
<1>3. /\ Entries \in Seq(Nat)
      /\ \A tag \in SymbolTags :
            dynamic_value(tag) \in Nat /\ dynamic_value(tag) = ValueIn(DynWords, tag)
  BY <1>1, EntryMade
<1>4. PICK r \in DOMAIN file.relocs :
          RelocAt(DynWords, LibWords, Entries[k], file.relocs[r]) /\ (Whole => r = k)
  BY <1>1, EntryMade
<1>5. LibWords \in Seq(Nat) /\ file.relocs \in Seq(Relocs)
  BY SoundFacts
<1>6. file.relocs[r] \in Relocs /\ Entries[k] \in Nat /\ k \in Nat /\ k > 0
  BY <1>1, <1>3, <1>4, <1>5
<1>7. Begins(dynlib_data, LibWords) /\ (Whole => Len(dynlib_data) = Len(LibWords))
  BY <1>1 DEF TablesInv, TablesRead
<1> DEFINE made == file.relocs[r]
           name == SymbolName(k)
<1>8. /\ ~RelocationPanics(k) /\ ~SliceEmpty(Entries[k]) =>
            /\ First(Rel(k)) = made.offset /\ name \in Seq(Nat)
            /\ Len(name) <= Len(made.symbol_name)
            /\ name = SubSeq(made.symbol_name, 1, Len(name))
      /\ Whole => /\ ~RelocationPanics(k) /\ ~SliceEmpty(Entries[k])
                  /\ First(Rel(k)) = made.offset /\ name = made.symbol_name
  <2> DEFINE q == made
  <2>1. q \in [offset : Nat, symbol_name : Seq(Nat)] /\ RelocAt(DynWords, LibWords, Entries[k], q)
    BY <1>4, <1>6 DEF Relocs
  <2> HIDE DEF q, k
  <2>2. /\ ~RelocationPanics(k) /\ ~SliceEmpty(Entries[k]) =>
              /\ First(Rel(k)) = q.offset /\ SymbolName(k) \in Seq(Nat)
              /\ Len(SymbolName(k)) <= Len(q.symbol_name)
              /\ SymbolName(k) = SubSeq(q.symbol_name, 1, Len(SymbolName(k)))
        /\ Len(dynlib_data) = Len(LibWords) =>
              /\ ~RelocationPanics(k) /\ ~SliceEmpty(Entries[k])
              /\ First(Rel(k)) = q.offset /\ SymbolName(k) = q.symbol_name
    BY <1>3, <1>5, <1>6, <1>7, <2>1, RelocationRead
  <2> QED
    BY <1>7, <2>2 DEF q
<1>9. /\ Whole' = Whole /\ LibWords' = LibWords /\ program_headers' = program_headers /\ TablesRead'
      /\ \A g : FromFile(g)' <=> FromFile(g)
  <2>1. /\ Whole' = Whole /\ LibWords' = LibWords /\ OfType("Dynamic")' = OfType("Dynamic")
        /\ program_headers' = program_headers
    BY <1>1 DEF Whole, data, LibWords, OfType, program_headers
  <2>2. TablesRead'
    BY <1>1, <2>1 DEF TablesRead, Begins
  <2> QED
    BY <1>1, <2>1, <2>2 DEF FromFile
<1>10. /\ relocations \in Seq(Relocs) /\ m \in Nat
       /\ \A j \in DOMAIN relocations : FromFile(relocations[j])
       /\ Whole => \A j \in DOMAIN relocations :
                      j \in DOMAIN file.relocs /\ relocations[j] = file.relocs[j]
       /\ Whole => m = Parsed
  BY <1>1 DEF TablesInv, RelocationsRead
<1>11. Parsed = k - 1
  BY <1>1, <1>2, <1>6 DEF Parsed
<1>12. CASE RelocationPanics(k)
  <2>1. step' = "panicked" /\ UNCHANGED <<at, relocations>>
    BY <1>12 DEF ParseRelocation
  <2>2. ~Whole
    BY <1>8, <1>12
  <2>3. RelocationsRead'
    BY <1>1, <1>9, <1>10, <2>1, <2>2 DEF RelocationsRead
  <2> QED
    BY <1>9, <2>1, <2>2, <2>3 DEF TablesInv
<1>13. CASE ~RelocationPanics(k) /\ SliceEmpty(Entries[k])
  <2>1. step' = "copy" /\ UNCHANGED relocations
    BY <1>1, <1>13 DEF ParseRelocation
  <2>2. ~Whole
    BY <1>8, <1>13
  <2>3. RelocationsRead'
    BY <1>1, <1>9, <1>10, <2>1, <2>2 DEF RelocationsRead
  <2> QED
    BY <1>9, <2>1, <2>2, <2>3 DEF TablesInv
<1>14. CASE ~RelocationPanics(k) /\ ~SliceEmpty(Entries[k])
  <2>1. step' = "copy" /\ relocations' = Append(relocations, got) /\ at' = at + 1
    BY <1>1, <1>14 DEF ParseRelocation
  <2>2. /\ First(Rel(k)) = made.offset /\ name \in Seq(Nat)
        /\ Len(name) <= Len(made.symbol_name)
        /\ name = SubSeq(made.symbol_name, 1, Len(name))
        /\ Whole => name = made.symbol_name
    BY <1>8, <1>14
  <2>3. made.offset \in Nat
    BY <1>6 DEF Relocs
  <2>4. got.offset = made.offset /\ got.symbol_name = name
    BY <2>2
  <2>5. got \in Relocs
    BY <2>2, <2>3 DEF Relocs
  <2>6. FromFile(got)
    BY <1>4, <2>2, <2>4 DEF FromFile
  <2>7. Whole => got = made
    <3>1. made = [offset |-> made.offset, symbol_name |-> made.symbol_name]
      BY <1>6 DEF Relocs
    <3> QED
      BY <2>2, <3>1
  <2> HIDE DEF got, made, name, m, n, k
  <2>8. /\ relocations' \in Seq(Relocs) /\ Len(relocations') = m + 1
        /\ relocations'[m + 1] = got /\ \A j \in 1 .. m : relocations'[j] = relocations[j]
    BY <1>10, <2>1, <2>5 DEF m
  <2>9. \A j \in DOMAIN relocations' : j \in DOMAIN relocations \/ j = m + 1
    BY <1>10, <2>8 DEF m
  <2>10. \A j \in DOMAIN relocations : relocations'[j] = relocations[j]
    BY <1>10, <2>8 DEF m
  <2>11. \A j \in DOMAIN relocations' : FromFile(relocations'[j])
    BY <1>10, <2>6, <2>8, <2>9, <2>10
  <2>12. ASSUME Whole
         PROVE  \A j \in DOMAIN relocations' :
                   j \in DOMAIN file.relocs /\ relocations'[j] = file.relocs[j]
    <3>1. m + 1 = r /\ got = made
      BY <1>4, <1>6, <1>10, <1>11, <2>7, <2>12
    <3> QED
      BY <1>4, <1>10, <2>8, <2>9, <2>10, <2>12, <3>1 DEF made
  <2>13. RelocationsRead'
    BY <1>1, <1>9, <2>8, <2>11, <2>12 DEF RelocationsRead
  <2>14. Whole => Len(relocations') = Parsed'
    <3>1. Parsed' = k
      BY <1>1, <1>2, <1>6, <1>9, <2>1 DEF Parsed, k, n
    <3> QED
      BY <1>6, <1>10, <1>11, <2>8, <3>1
  <2> QED
    BY <1>1, <1>7, <1>9, <2>1, <2>13, <2>14 DEF TablesInv
<1> QED
  BY <1>12, <1>13, <1>14

\* All of them.
LEMMA AllRead ==
    ASSUME ElfInv, TablesSound(file), DynamicInv, TablesInv, Loaded
    PROVE  Whole => relocations = file.relocs
<1> SUFFICES ASSUME Whole PROVE relocations = file.relocs
  OBVIOUS
<1> DEFINE m == Len(relocations)
           n == Len(program_headers)
           e == Len(Entries)
<1>1. /\ file \in Files /\ at \in Nat /\ step = "copy" /\ at > n + e
      /\ dynamic_entries \in Seq(Nat) /\ EntriesRead /\ EntriesAll /\ TablesRead
  BY DEF ElfInv, DynamicInv, TablesInv, Loaded
<1>2. n \in Nat
  BY <1>1, FileTypes
<1>3. Entries \in Seq(Nat) /\ e = Len(file.relocs)
  BY <1>1, EntryMade
<1>4. e \in Nat
  BY <1>3
<1>5. file.relocs \in Seq(Relocs)
  BY SoundFacts
<1>6. /\ relocations \in Seq(Relocs) /\ m = Parsed
      /\ \A j \in DOMAIN relocations :
            j \in DOMAIN file.relocs /\ relocations[j] = file.relocs[j]
  BY <1>1 DEF TablesInv, RelocationsRead
<1>7. m \in Nat /\ DOMAIN relocations = 1 .. m /\ DOMAIN file.relocs = 1 .. e
  BY <1>3, <1>5, <1>6
<1> HIDE DEF m, n, e
<1>8. m >= e
  BY <1>1, <1>2, <1>4, <1>6 DEF Parsed, n
<1>9. m <= e
  <2>1. m # 0 => m \in 1 .. m
    BY <1>7
  <2> QED
    BY <1>4, <1>6, <1>7, <2>1
<1>10. m = e
  BY <1>4, <1>7, <1>8, <1>9
<1>11. Len(relocations) = Len(file.relocs) /\ \A j \in 1 .. Len(relocations) : relocations[j] = file.relocs[j]
  BY <1>3, <1>6, <1>7, <1>10 DEF m, e
<1> QED
  BY <1>5, <1>6, <1>11, SeqEqual

\* Every step of the loader keeps it.
LEMMA TablesKeep ==
    ASSUME ElfInv, Sound(file), TablesSound(file), DynamicInv, TablesInv, Next
    PROVE  TablesInv'
<1>1. CASE ParseHeaders
  BY <1>1, TablesSame DEF ParseHeaders, TablesInv
<1>2. CASE ReadDynamicEntry
  <2>1. /\ step = "dynamic" /\ OfType("Dynamic") # {}
        /\ UNCHANGED <<file, step, dynlib_data, relocations>>
    BY <1>2 DEF ReadDynamicEntry, MoreDynamic
  <2>2. /\ Whole' = Whole /\ LibWords' = LibWords /\ OfType("Dynamic")' = OfType("Dynamic")
    BY <2>1 DEF Whole, data, LibWords, OfType, program_headers
  <2>3. TablesRead'
    BY <2>1, <2>2 DEF TablesInv, TablesRead, Begins
  <2>4. RelocationsRead'
    BY <2>1, <2>2 DEF TablesInv, RelocationsRead, FromFile
  <2> QED
    BY <2>1, <2>2, <2>3, <2>4 DEF TablesInv
<1>3. CASE ReadDynlibData
  <2>1. /\ step = "dynamic" /\ step' = "map"
        /\ UNCHANGED <<file, dynamic_entries, relocations>>
    BY <1>3 DEF ReadDynlibData
  <2>2. /\ Whole' = Whole /\ LibWords' = LibWords /\ OfType("Dynamic")' = OfType("Dynamic")
    BY <2>1 DEF Whole, data, LibWords, OfType, program_headers
  <2>3. Begins(dynlib_data', LibWords) /\ (Whole => Len(dynlib_data') = Len(LibWords))
    BY <1>3, LibRead, SoundFacts DEF ElfInv
  <2>4. TablesRead'
    BY <2>1, <2>2, <2>3 DEF TablesInv, TablesRead, Begins
  <2>5. RelocationsRead'
    BY <2>1, <2>2 DEF TablesInv, RelocationsRead, FromFile
  <2> QED
    BY <2>1, <2>2, <2>3, <2>4, <2>5 DEF TablesInv
<1>4. CASE MapModule
  <2>1. /\ UNCHANGED <<file, dynamic_entries, dynlib_data, relocations>>
        /\ step = "map" /\ (step' = "failed" \/ (step' = "copy" /\ at' = 1))
    BY <1>4 DEF MapModule
  <2>2. relocations' = <<>> /\ Len(relocations') = 0
    BY <2>1 DEF TablesInv
  <2>3. program_headers' = program_headers /\ Len(program_headers) \in Nat
    BY <2>1, FileTypes DEF program_headers, ElfInv
  <2>4. at' = 1 => Parsed' = 0
    BY <2>3 DEF Parsed
  <2> QED
    BY <2>1, <2>2, <2>4, TablesSame DEF TablesInv
<1>5. CASE CopySegment
  <2>1. /\ UNCHANGED <<file, dynamic_entries, dynlib_data, relocations, step>>
        /\ step = "copy" /\ at <= Len(program_headers) /\ at' = at + 1
    BY <1>5 DEF CopySegment
  <2>2. program_headers' = program_headers /\ Len(program_headers) \in Nat /\ at \in Nat
    BY <2>1, FileTypes DEF program_headers, ElfInv
  <2>3. Parsed' = Parsed
    BY <2>1, <2>2 DEF Parsed
  <2> QED
    BY <2>1, <2>3, TablesSame DEF TablesInv
<1>6. CASE ParseRelocation
  BY <1>6, OneMore
<1>7. CASE Loaded
  <2>1. /\ UNCHANGED <<file, dynamic_entries, dynlib_data, relocations>>
        /\ step = "copy" /\ step' = "loaded"
    BY <1>7 DEF Loaded
  <2>2. Whole => relocations = file.relocs
    BY <1>7, AllRead
  <2> QED
    BY <2>1, <2>2, TablesSame DEF TablesInv
<1> QED
  BY <1>1, <1>2, <1>3, <1>4, <1>5, <1>6, <1>7 DEF Next

\* The patches leave it alone.
LEMMA PatchesKeepTables ==
    ASSUME TablesInv, [BootNext]_bootVars, ~Next
    PROVE  TablesInv'
<1>1. CASE UNCHANGED bootVars
  <2>1. UNCHANGED <<file, dynamic_entries, dynlib_data, relocations, step, at>>
    BY <1>1 DEF bootVars, vars
  <2>2. Parsed' = Parsed
    BY <2>1 DEF Parsed, program_headers
  <2> QED
    BY <2>1, <2>2, TablesSame DEF TablesInv
<1>2. CASE ScanAssertion
  <2>1. UNCHANGED <<file, dynamic_entries, dynlib_data, relocations, step>> /\ step = "loaded"
    BY <1>2 DEF ScanAssertion, elf
  <2> QED
    BY <2>1, TablesSame DEF TablesInv
<1>3. CASE AssertionsDone \/ (\E ptr \in Pointers : Relocate(ptr)) \/ RelocateDone
             \/ ScanSyscall \/ SyscallsDone
  <2>1. /\ UNCHANGED <<file, dynamic_entries, dynlib_data, relocations>>
        /\ step' \in {"relocate", "syscalls", "jump"}
    BY <1>3 DEF AssertionsDone, Relocate, RelocateDone, ScanSyscall, SyscallsDone, elf
  <2> QED
    BY <2>1, TablesSame DEF TablesInv
<1> QED
  BY <1>1, <1>2, <1>3 DEF BootNext

SoundTables == \A f \in Files : TablesSound(f)

\* The relocations and the needed modules of Module::load are those the file was made
\* with; of a file that was cut off it may lose some, or the ends of their names, but
\* makes none up, and only such a file makes it panic.
THEOREM TablesAlwaysUnderstood ==
    ASSUME SoundFiles, SoundTables
    PROVE  BootSpec => []TablesUnderstood
<1> DEFINE Inv == MadeInv /\ TablesInv
<1>1. BootInit => Inv
  <2>1. SUFFICES ASSUME BootInit PROVE TablesInv
    BY MadeInitHolds
  <2>2. /\ file \in Files /\ step = "headers" /\ dynamic_entries = <<>> /\ dynlib_data = <<>>
        /\ relocations = <<>>
    BY <2>1 DEF BootInit, Init
  <2>3. LibWords \in Seq(Nat)
    BY <2>2, SoundFacts DEF SoundTables
  <2>4. TablesRead
    BY <2>2, <2>3 DEF TablesRead, Begins
  <2>5. RelocationsRead
    BY <2>2 DEF RelocationsRead
  <2> QED
    BY <2>2, <2>4, <2>5 DEF TablesInv
<1>2. Inv /\ [BootNext]_bootVars => Inv'
  <2>1. SUFFICES ASSUME MadeInv, TablesInv, [BootNext]_bootVars PROVE MadeInv' /\ TablesInv'
    OBVIOUS
  <2>2. MadeInv'
    BY <2>1, MadeKeeps
  <2>3. ElfInv /\ DynamicInv /\ Sound(file) /\ TablesSound(file)
    BY <2>1 DEF MadeInv, BootInv, ElfInv, SoundFiles, SoundTables
  <2>4. CASE Next
    BY <2>1, <2>2, <2>3, <2>4, TablesKeep
  <2>5. CASE ~Next
    BY <2>1, <2>2, <2>5, PatchesKeepTables
  <2> QED
    BY <2>4, <2>5
<1>3. Inv => TablesUnderstood
  <2>1. SUFFICES ASSUME MadeInv, TablesInv PROVE TablesUnderstood
    OBVIOUS
  <2>2. ElfInv /\ DynamicInv /\ TablesSound(file)
    BY <2>1 DEF MadeInv, BootInv, ElfInv, SoundTables
  <2>3. ASSUME step = "loaded", Whole
        PROVE  relocations = file.relocs /\ needed_modules = file.needed
    BY <2>1, <2>2, <2>3, NeededRead DEF TablesInv, DynamicInv, ElfInv
  <2>4. \A k \in DOMAIN relocations : FromFile(relocations[k])
    BY <2>1 DEF TablesInv, RelocationsRead
  <2>5. step = "panicked" => ~Whole
    BY <2>1 DEF TablesInv
  <2> QED
    BY <2>3, <2>4, <2>5 DEF TablesUnderstood, FromFile
<1> QED
  BY <1>1, <1>2, <1>3, PTL DEF BootSpec

-----------------------------------------------------------------------------
(* PARAM.SFO. *)

\* Every file is one that something was written into, cut off or not.
MadeSfos == \A f \in SfoFiles : Made(f)

\* The parser's state: what has been parsed is right, and of the index entries
\* parsed none is missing.
PsfInv ==
    /\ sfo \in SfoFiles
    /\ sfo_step \in {"header", "index", "entries", "ok", "error"}
    /\ done \in 0 .. Len(sfo.index)
    /\ entries = [k \in DOMAIN entries |-> entries[k]]
    /\ \A k \in DOMAIN entries : k \in DOMAIN sfo.entries /\ entries[k] = sfo.entries[k]
    /\ sfo_step \in {"entries", "ok"} =>
          \A i \in 1 .. done : \A k \in DOMAIN sfo.entries :
              StandsFor(sfo, i, k) => k \in DOMAIN entries
    /\ sfo_step = "ok" => done = Len(sfo.index)
    /\ sfo_step = "error" => sfo.size < sfo.whole \/ ~sfo.sound

\* The search for the zero behind a key finds the end of the key, if that is in
\* the file, and otherwise leaves it.
LEMMA KeyEndFound ==
    ASSUME NEW start \in Nat, NEW key \in Seq(Nat), sfo.size \in Nat,
           StoredAt(sfo, start, Append(key, 0)), \A k \in DOMAIN key : key[k] # 0
    PROVE  /\ KeyEnd(start) \in Nat
           /\ start + Len(key) < sfo.size => KeyEnd(start) = start + Len(key)
           /\ start + Len(key) >= sfo.size => KeyEnd(start) >= sfo.size
<1> DEFINE n     == Len(key)
           IsEnd(e) ==
               /\ e >= sfo.size \/ sfo.bytes[e] = 0
               /\ \A k \in start .. e - 1 : k < sfo.size /\ sfo.bytes[k] # 0
           size  == sfo.size
           bytes == sfo.bytes
<1>1. n \in Nat /\ size \in Nat /\ DOMAIN key = 1 .. n
  OBVIOUS
<1>2. \A k \in 1 .. n : start + k - 1 < size => bytes[start + k - 1] # 0
  <2> TAKE k \in 1 .. n
  <2>1. Append(key, 0)[k] = key[k] /\ k \in DOMAIN Append(key, 0) /\ key[k] # 0
    BY <1>1
  <2> QED
    BY <2>1 DEF StoredAt
<1>3. start + n < size => bytes[start + n] = 0
  <2>1. n + 1 \in DOMAIN Append(key, 0) /\ Append(key, 0)[n + 1] = 0
    BY <1>1
  <2>2. start + (n + 1) - 1 = start + n
    BY <1>1
  <2> QED
    BY <2>1, <2>2 DEF StoredAt
<1>4. KeyEnd(start) = CHOOSE e \in start .. start + size : IsEnd(e)
  BY DEF KeyEnd
<1> HIDE DEF n, size, bytes
<1>5. \A j \in Nat : start <= j /\ j < start + n /\ j < size => bytes[j] # 0
  <2> TAKE j \in Nat
  <2> HAVE start <= j /\ j < start + n /\ j < size
  <2>1. j - start + 1 \in 1 .. n /\ start + (j - start + 1) - 1 = j
    BY <1>1
  <2> QED
    BY <1>2, <2>1
<1> USE DEF IsEnd
<1>6. \E e \in start .. start + size : IsEnd(e)
  <2>1. CASE start >= size
    <3>1. IsEnd(start) /\ start \in start .. start + size
      BY <1>1, <2>1 DEF size, bytes
    <3> QED
      BY <3>1
  <2>2. CASE start < size /\ start + n < size
    <3> DEFINE e == start + n
    <3>1. e \in start .. start + size
      BY <1>1, <2>2
    <3>2. \A k \in start .. e - 1 : k < size /\ bytes[k] # 0
      BY <1>1, <1>5, <2>2
    <3>3. bytes[e] = 0
      BY <1>3, <2>2
    <3> HIDE DEF e
    <3>4. IsEnd(e)
      BY <3>2, <3>3 DEF size, bytes
    <3> QED
      BY <3>1, <3>4
  <2>3. CASE start < size /\ start + n >= size
    <3>1. size \in start .. start + size
      BY <1>1, <2>3
    <3>2. \A k \in start .. size - 1 : k < size /\ bytes[k] # 0
      BY <1>1, <1>5, <2>3
    <3>3. size >= size
      BY <1>1
    <3> QED
      BY <3>1, <3>2, <3>3 DEF size, bytes
  <2> QED
    BY <1>1, <2>1, <2>2, <2>3
<1> HIDE DEF IsEnd
<1>7. PICK e \in start .. start + size : e = KeyEnd(start) /\ IsEnd(e)
  BY <1>4, <1>6
<1>8. /\ e \in Nat /\ start <= e
      /\ e >= size \/ bytes[e] = 0
      /\ \A k \in start .. e - 1 : k < size /\ bytes[k] # 0
  BY <1>1, <1>7 DEF IsEnd, size, bytes
<1>9. ASSUME start + n < size PROVE e = start + n
  <2>1. ~(e < start + n)
    BY <1>1, <1>5, <1>8, <1>9
  <2>2. ASSUME e > start + n PROVE FALSE
    <3>1. start + n \in start .. e - 1
      BY <1>1, <1>8, <2>2
    <3> QED
      BY <1>3, <1>8, <1>9, <3>1
  <2> QED
    BY <1>1, <1>8, <2>1, <2>2
<1>10. ASSUME start + n >= size PROVE e >= size
  BY <1>1, <1>5, <1>8, <1>10
<1> QED
  BY <1>7, <1>8, <1>9, <1>10 DEF n, size

\* Bytes read back are the ones that were stored.
LEMMA BytesStored ==
    ASSUME NEW start \in Nat, NEW bytes \in Seq(Nat), sfo.size \in Nat,
           StoredAt(sfo, start, bytes), start + Len(bytes) <= sfo.size
    PROVE  Bytes(start, Len(bytes)) = bytes
<1>1. \A k \in 1 .. Len(bytes) : sfo.bytes[start + k - 1] = bytes[k]
  <2> TAKE k \in 1 .. Len(bytes)
  <2>1. k \in DOMAIN bytes /\ start + k - 1 < sfo.size
    OBVIOUS
  <2> QED
    BY <2>1 DEF StoredAt
<1>2. bytes = [k \in 1 .. Len(bytes) |-> bytes[k]]
  OBVIOUS
<1> QED
  BY <1>1, <1>2 DEF Bytes

\* What the lemmas below need of a file.
LEMMA MadeFacts ==
    ASSUME MadeSfos, sfo \in SfoFiles
    PROVE  /\ Made(sfo)
           /\ sfo.size \in Nat /\ sfo.whole \in Nat /\ Len(sfo.index) \in Nat
           /\ DOMAIN sfo.index = 1 .. Len(sfo.index)
           /\ \A k \in DOMAIN sfo.entries :
                 k \in Seq(Nat) /\ sfo.entries[k] \in [fmt : Nat, bytes : Seq(Nat)]
BY DEF MadeSfos, Made

\* An index entry that is parsed gives its key and its value, and one that is not is
\* cut off or not understood.
LEMMA EntryParsed ==
    ASSUME MadeSfos, sfo \in SfoFiles, NEW i \in 1 .. Len(sfo.index),
           NEW k \in DOMAIN sfo.entries, StandsFor(sfo, i, k)
    PROVE  LET raw       == sfo.index[i]
               key_start == sfo.key_table_offset + raw.key_offset
               key_end   == KeyEnd(key_start)
               key       == Bytes(key_start, key_end - key_start)
               start     == sfo.data_table_offset + raw.data_offset
               value     == Bytes(start, ValueLength(raw))
               parsed    ==
                   /\ CanRead(key_end, 1) /\ from_utf8(key)
                   /\ raw.param_fmt \in KnownFmts
                   /\ CanRead(start, ValueLength(raw))
                   /\ raw.param_fmt = Fmts.Text => from_utf8(value)
           IN  /\ parsed => /\ key = k
                            /\ [fmt |-> raw.param_fmt, bytes |-> value] = sfo.entries[k]
               /\ ~parsed => sfo.size < sfo.whole \/ ~sfo.sound
<1> DEFINE raw       == sfo.index[i]
           key_start == sfo.key_table_offset + raw.key_offset
           key_end   == KeyEnd(key_start)
           key       == Bytes(key_start, key_end - key_start)
           start     == sfo.data_table_offset + raw.data_offset
           length    == ValueLength(raw)
           value     == Bytes(start, length)
           parsed    ==
               /\ CanRead(key_end, 1) /\ from_utf8(key)
               /\ raw.param_fmt \in KnownFmts
               /\ CanRead(start, length)
               /\ raw.param_fmt = Fmts.Text => from_utf8(value)
           v         == sfo.entries[k]
<1>1. /\ k \in Seq(Nat) /\ v \in [fmt : Nat, bytes : Seq(Nat)]
      /\ sfo.size \in Nat /\ sfo.whole \in Nat
  BY MadeFacts
<1>2. raw \in RawIndexEntry /\ key_start \in Nat /\ start \in Nat
  <2>1. raw \in RawIndexEntry /\ sfo.key_table_offset \in Nat /\ sfo.data_table_offset \in Nat
    BY MadeFacts DEF Made
  <2>2. raw.key_offset \in Nat /\ raw.data_offset \in Nat
    BY <2>1 DEF RawIndexEntry
  <2> QED
    BY <2>1, <2>2
<1>3. /\ StoredAt(sfo, key_start, Append(k, 0))
      /\ \A j \in DOMAIN k : k[j] # 0
      /\ key_start + Len(k) + 1 <= sfo.whole
      /\ v.fmt = raw.param_fmt
      /\ raw.param_fmt \in KnownFmts =>
            /\ Len(v.bytes) = length
            /\ StoredAt(sfo, start, v.bytes)
            /\ start + Len(v.bytes) <= sfo.whole
      /\ sfo.sound => Understood(k, v)
  BY DEF StandsFor
<1> HIDE DEF raw, key_start, key_end, start, length, v
<1>4. /\ key_end \in Nat
      /\ key_start + Len(k) < sfo.size => key_end = key_start + Len(k)
      /\ key_start + Len(k) >= sfo.size => key_end >= sfo.size
  BY <1>1, <1>2, <1>3, KeyEndFound DEF key_end
<1>5. StoredAt(sfo, key_start, k)
  <2>1. \A j \in DOMAIN k : j \in DOMAIN Append(k, 0) /\ Append(k, 0)[j] = k[j]
    BY <1>1
  <2> QED
    BY <1>3, <2>1 DEF StoredAt
<1>6. ASSUME key_end + 1 <= sfo.size PROVE key = k
  <2>1. key_end = key_start + Len(k) /\ Len(k) \in Nat
    BY <1>1, <1>2, <1>4, <1>6
  <2>2. key_end - key_start = Len(k) /\ key_start + Len(k) <= sfo.size
    BY <1>1, <1>2, <1>6, <2>1
  <2> QED
    BY <1>1, <1>2, <1>5, <2>2, BytesStored
<1>7. ASSUME raw.param_fmt \in KnownFmts, length = 0 \/ start + length <= sfo.size
      PROVE  value = v.bytes
  <2>1. CASE start + length <= sfo.size
    BY <1>1, <1>2, <1>3, <1>7, <2>1, BytesStored
  <2>2. CASE length = 0
    <3>1. v.bytes \in Seq(Nat) /\ Len(v.bytes) = 0
      BY <1>1, <1>3, <1>7, <2>2
    <3>2. v.bytes = <<>>
      BY <3>1
    <3>3. value = <<>>
      BY <2>2 DEF Bytes
    <3> QED
      BY <3>2, <3>3
  <2> QED
    BY <1>7, <2>1, <2>2
<1>8. [fmt |-> v.fmt, bytes |-> v.bytes] = v
  BY <1>1
<1>9. ASSUME parsed PROVE key = k /\ [fmt |-> raw.param_fmt, bytes |-> value] = v
  BY <1>3, <1>6, <1>7, <1>8, <1>9 DEF CanRead
<1>10. ASSUME ~(sfo.size < sfo.whole), sfo.sound PROVE parsed
  <2>1. Understood(k, v)
    BY <1>3, <1>10
  <2>2. key_start + Len(k) < sfo.size /\ Len(k) \in Nat
    BY <1>1, <1>2, <1>3, <1>10
  <2>3. key_end + 1 <= sfo.size
    BY <1>1, <1>2, <1>4, <2>2
  <2>4. raw.param_fmt \in KnownFmts
    BY <1>3, <2>1 DEF Understood
  <2>5. start + length <= sfo.size
    <3>1. length = Len(v.bytes) /\ length \in Nat /\ start + length <= sfo.whole
      BY <1>1, <1>3, <2>4
    <3> QED
      BY <1>1, <1>2, <1>10, <3>1
  <2>6. key = k /\ value = v.bytes
    BY <1>6, <1>7, <2>3, <2>4, <2>5
  <2> HIDE DEF key, value
  <2> QED
    BY <1>3, <2>1, <2>3, <2>4, <2>5, <2>6 DEF CanRead, Understood
<1> HIDE DEF parsed
<1>11. /\ parsed => key = k /\ [fmt |-> raw.param_fmt, bytes |-> value] = v
       /\ ~parsed => sfo.size < sfo.whole \/ ~sfo.sound
  BY <1>9, <1>10
<1> QED
  BY <1>11 DEF parsed, raw, key_start, key_end, start, length, v

\* Every step of Psf::parse keeps the invariant.
LEMMA PsfStep ==
    ASSUME MadeSfos, PsfInv, [PsfNext]_psfVars
    PROVE  PsfInv'
<1>1. /\ Made(sfo) /\ sfo.size \in Nat /\ sfo.whole \in Nat /\ Len(sfo.index) \in Nat
      /\ DOMAIN sfo.index = 1 .. Len(sfo.index)
  BY MadeFacts DEF PsfInv
<1>2. HeaderSize + IndexEntrySize * Len(sfo.index) <= sfo.whole /\ (sfo.sound => sfo.magic)
  BY <1>1 DEF Made
<1>3. CASE ParseHeader
  <2>1. CASE sfo.magic /\ CanRead(0, HeaderSize)
    BY <1>3, <2>1 DEF ParseHeader, PsfInv
  <2>2. CASE ~(sfo.magic /\ CanRead(0, HeaderSize))
    <3>1. sfo.size < sfo.whole \/ ~sfo.sound
      BY <1>1, <1>2, <2>2 DEF CanRead, HeaderSize, IndexEntrySize
    <3> QED
      BY <1>3, <2>2, <3>1 DEF ParseHeader, PsfInv
  <2> QED
    BY <2>1, <2>2
<1>4. CASE ReadIndexEntry
  <2>1. CASE done = Len(sfo.index)
    BY <1>1, <1>4, <2>1 DEF ReadIndexEntry, PsfInv
  <2>2. CASE /\ done < Len(sfo.index)
             /\ CanRead(HeaderSize + IndexEntrySize * done, IndexEntrySize)
    <3>1. done' \in 0 .. Len(sfo.index)
      BY <1>1, <1>4, <2>2 DEF ReadIndexEntry, PsfInv
    <3> QED
      BY <1>4, <2>2, <3>1 DEF ReadIndexEntry, PsfInv
  <2>3. CASE /\ done < Len(sfo.index)
             /\ ~CanRead(HeaderSize + IndexEntrySize * done, IndexEntrySize)
    <3>1. sfo.size < sfo.whole
      BY <1>1, <1>2, <2>3 DEF CanRead, HeaderSize, IndexEntrySize, PsfInv
    <3> QED
      BY <1>4, <2>3, <3>1 DEF ReadIndexEntry, PsfInv
  <2> QED
    BY <1>4, <2>1, <2>2, <2>3 DEF ReadIndexEntry
<1>5. CASE ParseEntry
  <2> DEFINE i         == done + 1
             raw       == sfo.index[i]
             key_start == sfo.key_table_offset + raw.key_offset
             key_end   == KeyEnd(key_start)
             key       == Bytes(key_start, key_end - key_start)
             start     == sfo.data_table_offset + raw.data_offset
             value     == Bytes(start, ValueLength(raw))
             parsed    ==
                 /\ CanRead(key_end, 1) /\ from_utf8(key)
                 /\ raw.param_fmt \in KnownFmts
                 /\ CanRead(start, ValueLength(raw))
                 /\ raw.param_fmt = Fmts.Text => from_utf8(value)
             new       == [fmt |-> raw.param_fmt, bytes |-> value]
  <2>1. /\ sfo_step = "entries" /\ done < Len(sfo.index) /\ UNCHANGED sfo
        /\ IF parsed
           THEN /\ entries' = [k \in DOMAIN entries \cup {key} |->
                                  IF k = key THEN new ELSE entries[k]]
                /\ done' = done + 1 /\ UNCHANGED sfo_step
           ELSE sfo_step' = "error" /\ UNCHANGED <<done, entries>>
    BY <1>5 DEF ParseEntry
  <2>2. i \in 1 .. Len(sfo.index) /\ done \in Nat
    BY <1>1, <2>1 DEF PsfInv
  <2>3. \A k \in DOMAIN sfo.entries : StandsFor(sfo, i, k) =>
           /\ parsed => key = k /\ new = sfo.entries[k]
           /\ ~parsed => sfo.size < sfo.whole \/ ~sfo.sound
    BY <2>2, EntryParsed DEF PsfInv
  <2>4. PICK k \in DOMAIN sfo.entries : StandsFor(sfo, i, k)
    BY <1>1, <2>2 DEF Made
  <2> HIDE DEF parsed, key, new
  <2>5. CASE parsed
    <3>1. key = k /\ new = sfo.entries[k]
      BY <2>3, <2>4, <2>5
    <3>2. /\ entries' = [c \in DOMAIN entries \cup {k} |->
                            IF c = k THEN new ELSE entries[c]]
          /\ done' = done + 1 /\ sfo_step' = "entries" /\ sfo' = sfo
      BY <2>1, <2>5, <3>1
    <3>3. DOMAIN entries' = DOMAIN entries \cup {k}
      BY <3>2
    <3>4. /\ entries' = [c \in DOMAIN entries' |-> entries'[c]]
          /\ \A c \in DOMAIN entries' :
                c \in DOMAIN sfo.entries /\ entries'[c] = sfo.entries[c]
      BY <3>1, <3>2, <3>3 DEF PsfInv
    <3>5. ASSUME NEW j \in 1 .. done', NEW c \in DOMAIN sfo.entries, StandsFor(sfo, j, c)
          PROVE  c \in DOMAIN entries'
      <4>1. CASE j = i
        BY <2>3, <2>5, <3>1, <3>3, <3>5, <4>1
      <4>2. CASE j # i
        <5>1. j \in 1 .. done
          BY <2>2, <3>2, <4>2
        <5> QED
          BY <2>1, <3>3, <3>5, <5>1 DEF PsfInv
      <4> QED
        BY <4>1, <4>2
    <3>6. done' \in 0 .. Len(sfo.index)
      BY <2>1, <2>2, <3>2
    <3> QED
      BY <3>2, <3>4, <3>5, <3>6 DEF PsfInv
  <2>6. CASE ~parsed
    <3>1. sfo.size < sfo.whole \/ ~sfo.sound
      BY <2>3, <2>4, <2>6
    <3> QED
      BY <2>1, <2>6, <3>1 DEF PsfInv
  <2> QED
    BY <2>5, <2>6
<1>6. CASE ParseEnds
  BY <1>6 DEF ParseEnds, PsfInv
<1>7. CASE UNCHANGED psfVars
  BY <1>7 DEF psfVars, PsfInv
<1> QED
  BY <1>3, <1>4, <1>5, <1>6, <1>7 DEF PsfNext

\* Psf::parse returns exactly what was written, for any number of entries, keys and
\* values of any length anywhere in the file, and refuses a file only if it is
\* cut off or holds something that is not to be understood.
THEOREM SfoAlwaysFaithful ==
    ASSUME MadeSfos
    PROVE  PsfSpec => []SfoFaithful
<1>1. PsfInit => PsfInv
  <2> SUFFICES ASSUME PsfInit PROVE PsfInv
    OBVIOUS
  <2>1. sfo \in SfoFiles /\ sfo_step = "header" /\ done = 0 /\ DOMAIN entries = {}
    BY DEF PsfInit
  <2>2. entries = [k \in DOMAIN entries |-> entries[k]]
    BY DEF PsfInit
  <2>3. Len(sfo.index) \in Nat
    BY <2>1, MadeFacts
  <2> QED
    BY <2>1, <2>2, <2>3 DEF PsfInv
<1>2. PsfInv /\ [PsfNext]_psfVars => PsfInv'
  BY PsfStep
<1>3. PsfInv => SfoFaithful
  <2> SUFFICES ASSUME PsfInv, sfo_step = "ok" PROVE entries = sfo.entries
    BY DEF SfoFaithful, PsfInv
  <2>1. Made(sfo) /\ DOMAIN sfo.index = 1 .. Len(sfo.index)
    BY MadeFacts DEF PsfInv
  <2>2. \A k \in DOMAIN sfo.entries : k \in DOMAIN entries
    BY <2>1 DEF Made, PsfInv
  <2>3. DOMAIN entries = DOMAIN sfo.entries
    BY <2>2 DEF PsfInv
  <2>4. sfo.entries = [k \in DOMAIN sfo.entries |-> sfo.entries[k]]
    BY <2>1 DEF Made
  <2> QED
    BY <2>3, <2>4 DEF PsfInv
<1> QED
  BY <1>1, <1>2, <1>3, PTL DEF PsfSpec

=============================================================================
