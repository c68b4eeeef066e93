------------------------------ MODULE MCLinker ------------------------------
(***************************************************************************)
(* Small disks for the linker: an executable and two modules.              *)
(***************************************************************************)
EXTENDS Linker

Root == <<>>
Sce == <<"sce_module">>
MCMain == <<Root, "eboot">>

File(needed, tls, min, relocs, exports) ==
    [needed |-> needed, tls |-> tls, min_addr |-> min, size |-> 8, relocs |-> relocs,
     exports |-> exports]

-----------------------------------------------------------------------------
(* Every shape of dependencies: x may be in either directory or in both, y is     *)
(* below sce_module, anything may need anything, itself included.          *)

Layouts == {{<<Root, "x">>, <<Sce, "y">>},
            {<<Sce, "x">>, <<Sce, "y">>},
            {<<Root, "x">>, <<Sce, "x">>, <<Sce, "y">>}}

NeededLists == {<<>>, <<"x">>, <<"x", "y">>, <<"y", "x">>, <<"eboot", "y">>, <<"gone">>}

LoadDisks ==
    UNION {{[p \in paths |-> File(needed[p], p[2] # "y", 0, <<>>, {})] :
               needed \in [paths -> NeededLists]} :
           paths \in {layout \cup {MCMain} : layout \in Layouts}}

-----------------------------------------------------------------------------
(* Relocations of every type, against symbols HLE knows by name, by NID    *)
(* and not at all.                                                         *)

Sym(nid, suffix) == [nid |-> nid, suffix |-> suffix]
Rel(offset, rel_type, symbol, addend) ==
    [offset |-> offset, rel_type |-> rel_type, symbol |-> symbol, addend |-> addend]

MCKnownNids == [n \in {"nidA"} |-> "malloc"]

Imports == {Sym("malloc", ""), Sym("nidA", "#A#B"), Sym("nidB", "#A#B"), Sym("", ""),
            Sym("", "#A#B")}

\* The table of the executable, whose LOAD segments begin at min.
Table(min, types, s, t) ==
    <<Rel(min, "RELATIVE", Sym("", ""), 2), Rel(min + 1, types[1], s, 0),
      Rel(min + 2, types[2], t, 0), Rel(min + 2, "other", s, 0),
      Rel(min + 4, "DTPMOD64", Sym("", ""), 0)>>

\* Where min is 4 the last store of the executable falls into x.
RelocDisksAt(min) ==
    {[p \in {MCMain, <<Root, "x">>} |->
        IF p = MCMain THEN File(<<"x">>, TRUE, min, Table(min, types, s, t), {})
        ELSE File(<<>>, TRUE, 0, <<Rel(7, "JUMP_SLOT", u, addend)>>, {Sym("nidB", "#A#B")})] :
     types \in {<<"64", "JUMP_SLOT">>, <<"GLOB_DAT", "GLOB_DAT">>},
     s \in Imports, t \in Imports, u \in Imports, addend \in {0, 1}}

RelocDisks == RelocDisksAt(0) \cup RelocDisksAt(4)

MCDisks == LoadDisks \cup RelocDisks

MCHleNames == <<"malloc", "free">>

=============================================================================
