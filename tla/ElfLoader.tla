------------------------------ MODULE ElfLoader ------------------------------
(***************************************************************************)
(* From a file to a module in memory: Elf::parse of                        *)
(* crates/core/src/loader/elf.rs and Module::load of                       *)
(* crates/core/src/linker/module.rs.                                       *)
(*                                                                         *)
(* Files are counted in words: a header, a program header, an entry of a   *)
(* table, a character and a byte of code each take one.  A dynamic entry   *)
(* and a relocation pack two numbers.  A SELF puts its headers before the  *)
(* ELF's and the data of the program headers wherever its blocked segments *)
(* say; for the ones they do not name, behind the headers.                 *)
(***************************************************************************)
EXTENDS Integers, Sequences, FiniteSets

CONSTANTS
    Files,      \* the files there are, each a
                \* [is_self, fault, segments, program_headers, data,
                \*  elf, size, relocs, needed]
    PAGE_SIZE

\* The fields of the headers that are read; the ID of a segment is the index of a
\* program header, from 1 here.
ProgramHeader == [phdr_type : STRING, offset : Nat, vaddr : Nat, filesz : Nat, memsz : Nat]
SelfSegmentHeader == [blocked : BOOLEAN, id : Nat, file_offset : Nat]

\* fault is the check of the ELF header that fails, or "none"; data is what is on
\* disk.  The reader never looks at the others, which say what the file was made
\* from: elf is the ELF inside, word by word, size the length of the file before
\* anything was cut off, relocs and needed what its tables stand for.
ASSUME ElfLoaderAssumption ==
    /\ PAGE_SIZE \in Nat \ {0}
    /\ \A f \in Files :
          /\ f.is_self \in BOOLEAN
          /\ f.segments \in Seq(SelfSegmentHeader)
          /\ f.program_headers \in Seq(ProgramHeader)
          /\ f.data \in Seq(Nat) /\ Len(f.data) <= f.size
          /\ \A i \in DOMAIN f.program_headers :
                f.program_headers[i].filesz <= f.program_headers[i].memsz

VARIABLES
    file,             \* the one being loaded
    step,             \* where Elf::parse and Module::load are
    at,               \* the index of the loop that runs
    dynamic_entries,
    dynlib_data,
    image,            \* the memory of the module
    relocations       \* what parse_relocations has got

vars == <<file, step, at, dynamic_entries, dynlib_data, image, relocations>>

is_self == file.is_self
self_segments == file.segments
program_headers == file.program_headers
data == file.data

Ended == {"loaded", "failed", "panicked"}

Least(S) == CHOOSE x \in S : \A y \in S : x <= y
Greatest(S) == CHOOSE x \in S : \A y \in S : y <= x

\* The two numbers of an entry; no tag but DT_NULL is 0.
Pack(a, b) == a * 256 + b
First(w) == w \div 256
Second(w) == w % 256

OfType(type) == {i \in DOMAIN program_headers : program_headers[i].phdr_type = type}

-----------------------------------------------------------------------------
(* Elf::parse. *)

\* The SELF header and its segment headers.
elf_offset == IF is_self THEN 1 + Len(self_segments) ELSE 0

HeadersEnd == elf_offset + 1 + Len(program_headers)

\* The headers are read and checked; those of a file that ends too soon cannot be.
ParseHeaders ==
    /\ step = "headers"
    /\ step' = IF file.fault = "none" /\ HeadersEnd <= Len(data)
               THEN "dynamic" ELSE "failed"
    /\ UNCHANGED <<file, at, dynamic_entries, dynlib_data, image, relocations>>

\* The blocked segments whose ID satisfies the two cases of the search.  The ID is
\* the index of a program header.
Direct(i) ==
    {s \in DOMAIN self_segments : self_segments[s].blocked /\ self_segments[s].id = i}

\* Mutant: the word behind a segment counts as its own.
InRange_ItsEnd(p, offset) == p.offset <= offset /\ offset <= p.offset + p.filesz

InRange(p, offset) == p.offset <= offset /\ offset < p.offset + p.filesz

Parents(i) ==
    {s \in DOMAIN self_segments :
        /\ self_segments[s].blocked
        /\ self_segments[s].id \in DOMAIN program_headers
        /\ InRange(program_headers[self_segments[s].id], program_headers[i].offset)}

\* Where the data of program header i is in the file.
resolve_file_offset(i) ==
    CASE ~is_self -> program_headers[i].offset
      [] is_self /\ Direct(i) # {} -> self_segments[Least(Direct(i))].file_offset
      [] is_self /\ Direct(i) = {} /\ Parents(i) # {} ->
            LET s == Least(Parents(i))
            IN  self_segments[s].file_offset
                    + (program_headers[i].offset - program_headers[self_segments[s].id].offset)
      [] OTHER -> elf_offset + program_headers[i].offset

\* The last header of its type counts.
dynamic_phdr == Greatest(OfType("Dynamic"))
dynlib_phdr == Greatest(OfType("SceDynlibData"))

DynamicWord == data[resolve_file_offset(dynamic_phdr) + at + 1]

\* DT_NULL.
IsNull(w) == First(w) = 0

\* The segment, the file and the list may each be what ends the loop.
MoreDynamic ==
    /\ OfType("Dynamic") # {}
    /\ at < program_headers[dynamic_phdr].filesz
    /\ resolve_file_offset(dynamic_phdr) + at < Len(data)
    /\ ~IsNull(DynamicWord)

ReadDynamicEntry ==
    /\ step = "dynamic" /\ MoreDynamic
    /\ dynamic_entries' = Append(dynamic_entries, DynamicWord)
    /\ at' = at + 1
    /\ UNCHANGED <<file, step, dynlib_data, image, relocations>>

\* The dynlib data, as far as the file has it.
ReadDynlibData ==
    /\ step = "dynamic" /\ ~MoreDynamic
    /\ dynlib_data' =
          IF OfType("SceDynlibData") = {} THEN <<>>
          ELSE LET start == resolve_file_offset(dynlib_phdr)
                   end   == start + program_headers[dynlib_phdr].filesz
               IN  SubSeq(data, start + 1, IF end <= Len(data) THEN end ELSE Len(data))
    /\ step' = "map"
    /\ UNCHANGED <<file, at, dynamic_entries, image, relocations>>

-----------------------------------------------------------------------------
(* Module::load. *)

Loads == OfType("Load")
min_addr == Least({program_headers[i].vaddr : i \in Loads})
max_addr == Greatest({program_headers[i].vaddr + program_headers[i].memsz : i \in Loads})

\* The size in whole pages.
aligned_base_size == ((max_addr - min_addr + PAGE_SIZE - 1) \div PAGE_SIZE) * PAGE_SIZE

\* New memory is zero.  There may be nothing to map, or no memory.
MapModule ==
    /\ step = "map"
    /\ \/ /\ Loads # {}
          /\ image' = [k \in 1 .. aligned_base_size |-> 0]
          /\ step' = "copy"
          /\ at' = 1
       \/ /\ step' = "failed"
          /\ UNCHANGED <<image, at>>
    /\ UNCHANGED <<file, dynamic_entries, dynlib_data, relocations>>

\* Mutant: what there is of a segment is copied.
Copied_What_There_Is(i) ==
    LET src == resolve_file_offset(i)
    IN  IF src + program_headers[i].filesz <= Len(data)
        THEN program_headers[i].filesz ELSE Len(data) - src

\* How much of LOAD segment i is copied: none of it if the file ends inside it.
Copied(i) ==
    IF resolve_file_offset(i) + program_headers[i].filesz <= Len(data)
    THEN program_headers[i].filesz ELSE 0

\* One turn of the loop over the program headers.
CopySegment ==
    /\ step = "copy" /\ at <= Len(program_headers)
    /\ LET dest == program_headers[at].vaddr - min_addr
           src  == resolve_file_offset(at)
       IN  image' = IF at \notin Loads THEN image
                    ELSE [k \in DOMAIN image |->
                            IF k - dest \in 1 .. Copied(at) THEN data[src + k - dest]
                            ELSE image[k]]
    /\ at' = at + 1
    /\ UNCHANGED <<file, step, dynamic_entries, dynlib_data, relocations>>

-----------------------------------------------------------------------------
(* parse_relocations. *)

WithTag(tag) == {k \in DOMAIN dynamic_entries : First(dynamic_entries[k]) = tag}
HasTag(tag) == WithTag(tag) # {}

\* The first entry with a tag counts.
dynamic_value(tag) == Second(dynamic_entries[Least(WithTag(tag))])

DT_NEEDED == 1
DT_SCE_STRTAB == 2
DT_SCE_STRSZ == 3
DT_SCE_SYMTAB == 4
DT_SCE_SYMTABSZ == 5
DT_SCE_RELA == 6
DT_SCE_RELASZ == 7
DT_SCE_JMPREL == 8
DT_SCE_PLTRELSZ == 9
DT_SCE_IMPORT_LIB == 10

\* Without these there are no relocations.
SymbolTags == {DT_SCE_SYMTAB, DT_SCE_SYMTABSZ, DT_SCE_STRTAB, DT_SCE_STRSZ}

\* The tables to go through, one after the other: <<where, how long>>.
Tables ==
    LET table(off, sz) ==
            IF HasTag(off) /\ HasTag(sz) THEN <<<<dynamic_value(off), dynamic_value(sz)>>>>
            ELSE <<>>
    IN  IF \A tag \in SymbolTags : HasTag(tag)
        THEN table(DT_SCE_RELA, DT_SCE_RELASZ) \o table(DT_SCE_JMPREL, DT_SCE_PLTRELSZ)
        ELSE <<>>

\* The places of their entries in the dynlib data, in the order of the loops.
Entries ==
    LET places(t) == [k \in 1 .. t[2] |-> t[1] + k - 1]
    IN  CASE Len(Tables) = 0 -> <<>>
          [] Len(Tables) = 1 -> places(Tables[1])
          [] OTHER -> places(Tables[1]) \o places(Tables[2])

\* The characters from start to the NUL or to the end of the data.
StringAt(start) ==
    LET ends == {k \in start + 1 .. Len(dynlib_data) : dynlib_data[k] = 0}
    IN  SubSeq(dynlib_data, start + 1,
               IF ends = {} THEN Len(dynlib_data) ELSE Least(ends) - 1)

\* A slice that begins behind the end of the data panics; one that begins at its
\* end is empty, and nothing is parsed from it.
SlicePanics(start) == start > Len(dynlib_data)
SliceEmpty(start) == start = Len(dynlib_data)

Rel(k) == dynlib_data[Entries[k] + 1]

\* Mutant: the last symbol of the table is not seen.
HasSymbol_OffByOne(k) ==
    Second(Rel(k)) # 0 /\ Second(Rel(k)) + 1 < dynamic_value(DT_SCE_SYMTABSZ)

HasSymbol(k) == Second(Rel(k)) # 0 /\ Second(Rel(k)) < dynamic_value(DT_SCE_SYMTABSZ)
SymbolPlace(k) == dynamic_value(DT_SCE_SYMTAB) + Second(Rel(k))
NameOffset(k) == dynlib_data[SymbolPlace(k) + 1]
NamePlace(k) == dynamic_value(DT_SCE_STRTAB) + NameOffset(k)

InStrings(offset) == offset < dynamic_value(DT_SCE_STRSZ)

RelocationPanics(k) ==
    \/ SlicePanics(Entries[k])
    \/ /\ ~SliceEmpty(Entries[k]) /\ HasSymbol(k)
       /\ \/ SlicePanics(SymbolPlace(k))
          \/ /\ ~SliceEmpty(SymbolPlace(k))
             /\ InStrings(NameOffset(k)) /\ SlicePanics(NamePlace(k))

SymbolName(k) ==
    IF HasSymbol(k) /\ ~SliceEmpty(SymbolPlace(k)) /\ InStrings(NameOffset(k))
    THEN StringAt(NamePlace(k)) ELSE <<>>

ParseRelocation ==
    LET k == at - Len(program_headers)
    IN  /\ step = "copy" /\ k \in DOMAIN Entries
        /\ IF RelocationPanics(k)
           THEN /\ step' = "panicked"
                /\ UNCHANGED <<at, relocations>>
           ELSE /\ relocations' =
                      IF SliceEmpty(Entries[k]) THEN relocations
                      ELSE Append(relocations,
                                  [offset |-> First(Rel(k)), symbol_name |-> SymbolName(k)])
                /\ at' = at + 1
                /\ UNCHANGED step
        /\ UNCHANGED <<file, dynamic_entries, dynlib_data, image>>

Loaded ==
    /\ step = "copy" /\ at > Len(program_headers) + Len(Entries)
    /\ step' = "loaded"
    /\ UNCHANGED <<file, at, dynamic_entries, dynlib_data, image, relocations>>

\* Unlike the strings of the symbols, these are looked up with a check.
get_dynamic_string(offset) ==
    IF /\ HasTag(DT_SCE_STRTAB) /\ HasTag(DT_SCE_STRSZ) /\ InStrings(offset)
       /\ dynamic_value(DT_SCE_STRTAB) + offset < Len(dynlib_data)
    THEN StringAt(dynamic_value(DT_SCE_STRTAB) + offset) ELSE <<>>

NamesModule(w) == First(w) \in {DT_NEEDED, DT_SCE_IMPORT_LIB}

Nonempty(names) == SelectSeq(names, LAMBDA name : name # <<>>)

needed_modules ==
    Nonempty([k \in DOMAIN dynamic_entries |->
                IF NamesModule(dynamic_entries[k])
                THEN get_dynamic_string(Second(dynamic_entries[k])) ELSE <<>>])

-----------------------------------------------------------------------------

Init ==
    /\ file \in Files
    /\ step = "headers"
    /\ at = 0
    /\ dynamic_entries = <<>>
    /\ dynlib_data = <<>>
    /\ image = <<>>
    /\ relocations = <<>>

Next ==
    \/ ParseHeaders \/ ReadDynamicEntry \/ ReadDynlibData
    \/ MapModule \/ CopySegment \/ ParseRelocation \/ Loaded

Spec == Init /\ [][Next]_vars

-----------------------------------------------------------------------------
(* Sound files: those that were made from the ELF they name, by the rules of the     *)
(* formats, and then maybe cut off.                                         *)

\* The words of program header i of f are in it from off on.
Holds(f, i, off) ==
    LET p == f.program_headers[i]
    IN  /\ off + p.filesz <= f.size
        /\ \A k \in 1 .. p.filesz :
              off + k <= Len(f.data) => f.data[off + k] = f.elf[p.offset + k]

Blocks(f) ==
    {s \in DOMAIN f.segments :
        f.segments[s].blocked /\ f.segments[s].id \in DOMAIN f.program_headers}

\* Those in whose program header that of i begins.
Around(f, i) ==
    LET ph == f.program_headers
    IN  {s \in Blocks(f) :
            LET p == ph[f.segments[s].id]
            IN  p.offset <= ph[i].offset /\ ph[i].offset < p.offset + p.filesz}

Sound(f) ==
    LET ph  == f.program_headers
        seg == f.segments
    IN  /\ ~f.is_self => \A i \in DOMAIN ph : Holds(f, i, ph[i].offset)
        /\ f.is_self =>
              /\ \A s \in Blocks(f) : Holds(f, seg[s].id, seg[s].file_offset)
              /\ \A i \in DOMAIN ph :
                    \/ \E s \in Blocks(f) : seg[s].id = i
                    \/ /\ Around(f, i) # {}
                       /\ \A s \in Around(f, i) :
                             LET p == ph[seg[s].id]
                             IN  ph[i].offset + ph[i].filesz <= p.offset + p.filesz
                    \/ Around(f, i) = {} /\ Holds(f, i, 1 + Len(seg) + ph[i].offset)
        /\ \A i, j \in DOMAIN ph :
              i # j /\ ph[i].phdr_type = "Load" /\ ph[j].phdr_type = "Load" =>
                  \/ ph[i].vaddr + ph[i].memsz <= ph[j].vaddr
                  \/ ph[j].vaddr + ph[j].memsz <= ph[i].vaddr

\* The words of the last program header of a type, and the dynamic entries among
\* them, up to DT_NULL.
WordsOf(f, type) ==
    LET S == {i \in DOMAIN f.program_headers : f.program_headers[i].phdr_type = type}
        p == f.program_headers[Greatest(S)]
    IN  IF S = {} THEN <<>> ELSE [k \in 1 .. p.filesz |-> f.elf[p.offset + k]]

EntriesOf(f) ==
    LET words == WordsOf(f, "Dynamic")
    IN  [k \in {n \in DOMAIN words : \A j \in 1 .. n : ~IsNull(words[j])} |-> words[k]]

TagsIn(dyn, tag) == {k \in DOMAIN dyn : First(dyn[k]) = tag}
ValueIn(dyn, tag) == Second(dyn[Least(TagsIn(dyn, tag))])

\* The text that begins behind the first start words and ends with a NUL.
HasText(lib, start) == \E k \in start + 1 .. Len(lib) : lib[k] = 0
TextFrom(lib, start) ==
    SubSeq(lib, start + 1, Least({k \in start + 1 .. Len(lib) : lib[k] = 0}) - 1)

\* Symbol s of the symbol table has this name; the symbol 0 has none.
SymbolNamed(dyn, lib, s, name) ==
    LET place == ValueIn(dyn, DT_SCE_SYMTAB) + s
        start == ValueIn(dyn, DT_SCE_STRTAB) + lib[place + 1]
    IN  \/ s = 0 /\ name = <<>>
        \/ /\ s # 0 /\ s < ValueIn(dyn, DT_SCE_SYMTABSZ) /\ place < Len(lib)
           /\ lib[place + 1] < ValueIn(dyn, DT_SCE_STRSZ)
           /\ HasText(lib, start) /\ name = TextFrom(lib, start)

\* The relocation r is at this place of the dynlib data.
RelocAt(dyn, lib, place, r) ==
    /\ place < Len(lib)
    /\ r.offset = First(lib[place + 1])
    /\ SymbolNamed(dyn, lib, Second(lib[place + 1]), r.symbol_name)

\* How many relocations the table with these tags has.
TableSize(dyn, off, sz) ==
    IF \A tag \in SymbolTags \cup {off, sz} : TagsIn(dyn, tag) # {} THEN ValueIn(dyn, sz) ELSE 0

\* The tables of f stand for its relocations, those of DT_SCE_RELA first, and for the
\* modules it needs.
TablesSound(f) ==
    LET lib     == WordsOf(f, "SceDynlibData")
        dyn     == EntriesOf(f)
        relas   == TableSize(dyn, DT_SCE_RELA, DT_SCE_RELASZ)
        jmprels == TableSize(dyn, DT_SCE_JMPREL, DT_SCE_PLTRELSZ)
        name(k) == ValueIn(dyn, DT_SCE_STRTAB) + Second(dyn[k])
    IN  /\ lib \in Seq(Nat) /\ \A k \in DOMAIN dyn : dyn[k] \in Nat
        /\ f.relocs \in Seq([offset : Nat, symbol_name : Seq(Nat)])
        /\ Len(f.relocs) = relas + jmprels
        /\ \A k \in 1 .. relas :
              RelocAt(dyn, lib, ValueIn(dyn, DT_SCE_RELA) + k - 1, f.relocs[k])
        /\ \A k \in 1 .. jmprels :
              RelocAt(dyn, lib, ValueIn(dyn, DT_SCE_JMPREL) + k - 1, f.relocs[relas + k])
        /\ \A k \in DOMAIN dyn : NamesModule(dyn[k]) =>
              /\ TagsIn(dyn, DT_SCE_STRTAB) # {} /\ TagsIn(dyn, DT_SCE_STRSZ) # {}
              /\ Second(dyn[k]) < ValueIn(dyn, DT_SCE_STRSZ)
              /\ HasText(lib, name(k))
        /\ f.needed = Nonempty([k \in DOMAIN dyn |->
                                  IF NamesModule(dyn[k]) THEN TextFrom(lib, name(k)) ELSE <<>>])

-----------------------------------------------------------------------------
(* Properties. *)

\* Nothing has been cut off.
Whole == Len(data) = file.size

ElfWord(i, k) == file.elf[program_headers[i].offset + k]

Place(i, k) == program_headers[i].vaddr - min_addr + k

\* However a SELF arranges its segments, and wherever the file was cut off: when
\* Module::load has copied the segments, each LOAD segment has in memory the very
\* words the ELF inside has there or, if the file is cut, none of them, and the
\* rest of the memory is zero.
ImageFaithful ==
    step = "copy" /\ at > Len(program_headers) =>
        /\ \A i \in Loads :
              \/ \A k \in 1 .. program_headers[i].filesz : image[Place(i, k)] = ElfWord(i, k)
              \/ /\ ~Whole
                 /\ \A k \in 1 .. program_headers[i].filesz : image[Place(i, k)] = 0
        /\ \A a \in DOMAIN image :
              (\A i \in Loads : \A k \in 1 .. program_headers[i].filesz : Place(i, k) # a)
                  => image[a] = 0

\* The entries parse reads are those of the PT_DYNAMIC of the ELF inside, up to
\* DT_NULL: all of them, or the first ones if the file is cut.  PT_DYNAMIC may
\* have a segment of its own, or lie anywhere in that of a LOAD segment.
DynamicFaithful ==
    step \in {"map", "copy", "loaded"} /\ OfType("Dynamic") # {} =>
        LET p == program_headers[dynamic_phdr]
        IN  /\ Len(dynamic_entries) <= p.filesz
            /\ \A k \in DOMAIN dynamic_entries :
                  dynamic_entries[k] = ElfWord(dynamic_phdr, k) /\ ~IsNull(dynamic_entries[k])
            /\ Whole /\ Len(dynamic_entries) < p.filesz =>
                  IsNull(ElfWord(dynamic_phdr, Len(dynamic_entries) + 1))

\* The relocations and the needed modules of a whole file are those it was made
\* with; a file that is cut off may lose some, or the ends of their names, and
\* gains none.  A whole file makes nothing panic.
TablesUnderstood ==
    /\ step = "loaded" /\ Whole =>
          relocations = file.relocs /\ needed_modules = file.needed
    /\ step = "loaded" =>
          \A k \in DOMAIN relocations : \E r \in DOMAIN file.relocs :
              LET got  == relocations[k]
                  made == file.relocs[r]
              IN  /\ got.offset = made.offset
                  /\ Len(got.symbol_name) <= Len(made.symbol_name)
                  /\ got.symbol_name = SubSeq(made.symbol_name, 1, Len(got.symbol_name))
    /\ step = "panicked" => ~Whole

-----------------------------------------------------------------------------
(* What the code does not keep: README.md, "Divergences", says how.        *)

\* "Partial read - get what we can" (elf.rs:598): a file whose dynlib data is cut
\* off is loaded all the same.
CutFilesTolerated == step # "panicked"

\* A module whose load succeeds has all its segments ("Segment loaded",
\* module.rs:136, is what the log says of each).
NothingMissing ==
    step = "copy" /\ at > Len(program_headers) =>
        \A i \in Loads : \A k \in 1 .. program_headers[i].filesz :
            image[Place(i, k)] = ElfWord(i, k)

=============================================================================
