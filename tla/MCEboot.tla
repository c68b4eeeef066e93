------------------------------- MODULE MCEboot -------------------------------
(***************************************************************************)
(* Files for the loader and the patches.  Shapes are programs of three     *)
(* layouts, written as an ELF and as every SELF with its segments in any   *)
(* order, whole and cut off anywhere; their words are all different.       *)
(* Images are plain ELFs whose code is a run of up to three pieces, whole  *)
(* patterns and parts of them, with a relocation at any place or none.     *)
(* A behaviour is the boot of one of these, or the parsing of a PARAM.SFO. *)
(***************************************************************************)
EXTENDS CodePatch, Psf, SequencesExt

Hole == 9999   \* a header, or a word that belongs to nothing

Header(type, off, vaddr, filesz, memsz) ==
    [phdr_type |-> type, offset |-> off, vaddr |-> vaddr, filesz |-> filesz, memsz |-> memsz]

Holes(n) == [k \in 1 .. n |-> Hole]

\* Two names, the symbols that have them, and the relocations of two tables.
Names == <<<<101, 102>>, <<103>>>>
Strings == <<0, 101, 102, 0, 103, 0>>
Symbols == <<0, 1, 4>>

Dynlib(relas, jmprels) == Strings \o Symbols \o relas \o jmprels

\* The dynamic entries for it; one more word follows DT_NULL.
Dynamic(relas, jmprels) ==
    <<Pack(DT_NEEDED, 1), Pack(DT_SCE_IMPORT_LIB, 4), Pack(DT_SCE_STRTAB, 0),
      Pack(DT_SCE_STRSZ, 6), Pack(DT_SCE_SYMTAB, 6), Pack(DT_SCE_SYMTABSZ, 3),
      Pack(DT_SCE_RELA, 9), Pack(DT_SCE_RELASZ, Len(relas)),
      Pack(DT_SCE_JMPREL, 9 + Len(relas)), Pack(DT_SCE_PLTRELSZ, Len(jmprels)),
      Pack(0, 0), Pack(DT_NEEDED, 4)>>

Reloc(word) ==
    [offset |-> First(word),
     symbol_name |-> IF Second(word) = 0 THEN <<>> ELSE Names[Second(word)]]

\* The file data of a program: an ELF with these program headers and what follows.
Program(headers, body, relas, jmprels) ==
    [program_headers |-> headers,
     elf |-> Holes(1 + Len(headers)) \o body,
     relocs |-> [k \in DOMAIN (relas \o jmprels) |-> Reloc((relas \o jmprels)[k])],
     needed |-> Names]

-----------------------------------------------------------------------------
(* Shapes. *)

Relas == <<Pack(1, 0), Pack(3, 2)>>
Jmprels == <<Pack(5, 1)>>
Dyn == Dynamic(Relas, Jmprels)
Lib == Dynlib(Relas, Jmprels)
Text == <<201, 202, 203>>
Bss == 2

Shapes == {
    \* PT_DYNAMIC ends the second LOAD segment.
    Program(<<Header("Load", 5, 2, 3, 4), Header("Load", 8, 8, 14, 16),
              Header("Dynamic", 10, 10, 12, 12), Header("SceDynlibData", 22, 0, 12, 12)>>,
            Text \o <<204, 205>> \o Dyn \o Lib, Relas, Jmprels),
    \* PT_DYNAMIC begins the second, right behind the first.
    Program(<<Header("SceDynlibData", 23, 0, 12, 12), Header("Load", 5, 0, 3, 3),
              Header("Dynamic", 8, 4, 12, 12), Header("Load", 8, 4, 15, 15)>>,
            Text \o Dyn \o Text \o Lib, Relas, Jmprels),
    \* PT_DYNAMIC is its own; the LOAD segments are out of order and one is empty.
    Program(<<Header("Dynamic", 6, 0, 12, 12), Header("Load", 18, 6, 3, 3),
              Header("Load", 18, 4, 0, Bss), Header("Load", 21, 1, 2, 3),
              Header("SceDynlibData", 23, 0, 12, 12)>>,
            Dyn \o Text \o <<204, 205>> \o Lib, Relas, Jmprels)}

Contents(prog, i) ==
    SubSeq(prog.elf, prog.program_headers[i].offset + 1,
           prog.program_headers[i].offset + prog.program_headers[i].filesz)

\* The program headers whose data no other one contains.
Outer(prog) ==
    LET ph == prog.program_headers
    IN  {i \in DOMAIN ph :
            /\ ph[i].filesz > 0
            /\ ~\E j \in DOMAIN ph \ {i} :
                  /\ ph[j].offset <= ph[i].offset
                  /\ ph[i].offset + ph[i].filesz <= ph[j].offset + ph[j].filesz}

\* A SELF with a blocked segment for each of these headers, in this order, a hole
\* between them, and before each a segment that is not blocked.
Blocked(prog, order) ==
    LET n     == Len(order)
        start == 1 + 2 * n + 1 + Len(prog.program_headers)
        place == [k \in 1 .. n |->
                    start + FoldLeft(LAMBDA sum, i : sum + 1 + Len(Contents(prog, i)), 0,
                                     SubSeq(order, 1, k - 1))]
    IN  [segments |-> [s \in 1 .. 2 * n |->
            IF s % 2 = 1 THEN [blocked |-> FALSE, id |-> order[(s + 1) \div 2], file_offset |-> 0]
            ELSE [blocked |-> TRUE, id |-> order[s \div 2], file_offset |-> place[s \div 2]]],
         data |-> FoldLeft(LAMBDA bytes, i : bytes \o Contents(prog, i) \o <<Hole>>,
                           Holes(start), order)]

\* A SELF that is headers put before the ELF.
Prefixed(prog) ==
    [segments |-> <<[blocked |-> FALSE, id |-> 1, file_offset |-> 0]>>,
     data |-> Holes(2) \o prog.elf]

Orders(S) ==
    {order \in [1 .. Cardinality(S) -> S] :
        \A i, j \in DOMAIN order : order[i] = order[j] => i = j}

File(prog, self, fault, segments, bytes, n) ==
    [is_self |-> self, fault |-> fault, segments |-> segments,
     program_headers |-> prog.program_headers, data |-> SubSeq(bytes, 1, n),
     elf |-> prog.elf, size |-> Len(bytes), relocs |-> prog.relocs, needed |-> prog.needed]

Selfs(prog) == {Prefixed(prog)} \cup {Blocked(prog, order) : order \in Orders(Outer(prog))}

ShapeFiles ==
    UNION {{File(prog, FALSE, "none", <<>>, prog.elf, n) : n \in 0 .. Len(prog.elf)}
             : prog \in Shapes}
    \cup UNION {UNION {{File(prog, TRUE, "none", self.segments, self.data, n)
                          : n \in 0 .. Len(self.data)} : self \in Selfs(prog)} : prog \in Shapes}
    \cup {File(prog, FALSE, fault, <<>>, prog.elf, Len(prog.elf)) :
            prog \in Shapes, fault \in {"NotElf", "Not64Bit", "NotLittleEndian", "NotX86_64"}}
    \cup {File([program_headers |-> <<>>, elf |-> Holes(1), relocs |-> <<>>, needed |-> <<>>],
               FALSE, "none", <<>>, Holes(1), 1)}

-----------------------------------------------------------------------------
(* Images. *)

Pieces == {AssertTrap, <<133, 192, 117, 2>>, <<205, 65>>, SYSCALL, <<15>>, <<5>>, <<144>>}

Codes == Pieces \cup {p \o q : p, q \in Pieces} \cup {p \o q \o r : p, q, r \in Pieces}

ImageProgram(code, relas) ==
    Program(<<Header("Load", 4, 0, Len(code), Len(code)),
              Header("Dynamic", 4 + Len(code), 0, 12, 12),
              Header("SceDynlibData", 16 + Len(code), 0, 9 + Len(relas), 9 + Len(relas))>>,
            code \o Dynamic(relas, <<>>) \o Dynlib(relas, <<>>), relas, <<>>)

ImageFiles ==
    LET whole(prog) == File(prog, FALSE, "none", <<>>, prog.elf, Len(prog.elf))
    IN  {whole(ImageProgram(code, <<>>)) : code \in Codes}
        \cup UNION {{whole(ImageProgram(code, <<Pack(off, 0)>>)) : off \in 0 .. Len(code) - 1}
                      : code \in Codes}

MCFiles == ShapeFiles \cup ImageFiles

ASSUME MCFilesSound == \A f \in MCFiles : Sound(f) /\ TablesSound(f)

MCPointers == {<<1, 15>>, <<5, 1>>, <<16, 2>>}

-----------------------------------------------------------------------------
(* PARAM.SFO files of up to two entries: texts, empty ones and some that   *)
(* are not UTF-8, binary values with zeros, integers and formats that are  *)
(* not known; values are padded, keys are not.                             *)

VARIABLE side    \* the part a behaviour follows

Value(fmt, bytes) == [fmt |-> fmt, bytes |-> bytes]
SfoValues == {Value(516, <<>>), Value(516, <<65, 66>>), Value(516, <<255>>), Value(4, <<0, 255>>),
              Value(1028, <<1, 2, 0, 0>>), Value(1, <<7>>)}
SfoKeys == <<<<84>>, <<86, 69>>>>

\* A text is stored with a zero behind it, and everything in four bytes.
Stored(v) == IF v.fmt = 516 THEN v.bytes \o <<0>> ELSE v.bytes
Padded(v) == Stored(v) \o [k \in 1 .. 4 - Len(Stored(v)) |-> 0]

SfoFile(values, size) ==
    LET n         == Len(values)
        keys      == FoldLeft(LAMBDA b, i : b \o SfoKeys[i] \o <<0>>, <<>>, [i \in 1 .. n |-> i])
        tables    == keys \o FoldLeft(LAMBDA b, v : b \o Padded(v), <<>>, values)
        key_table == 20 + 16 * n
        whole     == key_table + Len(tables)
        kept      == IF size < whole THEN size ELSE whole
    IN  [magic |-> TRUE,
         key_table_offset |-> key_table,
         data_table_offset |-> key_table + Len(keys),
         index |-> [i \in 1 .. n |-> [key_offset |-> 2 * (i - 1), param_fmt |-> values[i].fmt,
                                      param_len |-> Len(Stored(values[i])),
                                      data_offset |-> 4 * (i - 1)]],
         bytes |-> [a \in key_table .. whole + 4 |->
                       IF a < kept THEN tables[a - key_table + 1] ELSE 0],
         size |-> kept,
         whole |-> whole,
         sound |-> \A i \in 1 .. n : values[i] # Value(516, <<255>>) /\ values[i].fmt # 1,
         entries |-> [k \in {SfoKeys[i] : i \in 1 .. n} |->
                         values[CHOOSE i \in 1 .. n : SfoKeys[i] = k]]]

MCSfoFiles ==
    LET Lists == UNION {[1 .. n -> SfoValues] : n \in 0 .. 2}
    IN  {SfoFile(values, size) : values \in Lists, size \in 0 .. 70}
        \cup {[SfoFile(<<>>, 20) EXCEPT !.magic = FALSE, !.sound = FALSE],
              [SfoFile(<<Value(516, <<>>)>>, 70) EXCEPT !.index[1].param_len = 0]}

ASSUME MCSfoFilesMade == \A f \in MCSfoFiles : Made(f)

\* The part that is not followed stays as it is in one of its first states.
MCInit ==
    \/ /\ side = "eboot" /\ BootInit
       /\ sfo = SfoFile(<<>>, 20) /\ sfo_step = "header" /\ done = 0 /\ entries = <<>>
    \/ /\ side = "sfo" /\ PsfInit
       /\ file = (CHOOSE f \in MCFiles : TRUE) /\ BootInit

MCNext ==
    /\ UNCHANGED side
    /\ \/ side = "eboot" /\ BootNext /\ UNCHANGED psfVars
       \/ side = "sfo" /\ PsfNext /\ UNCHANGED bootVars

MCSpec == MCInit /\ [][MCNext]_<<side, bootVars, psfVars>>

=============================================================================
