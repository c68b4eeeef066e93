------------------------------- MODULE Linker -------------------------------
(***************************************************************************)
(* The dynamic linker at boot: the HLE libraries register their stubs,     *)
(* load_module loads the executable and, depth first, what it needs, and   *)
(* relocate_all fills every slot of every module                           *)
(* (crates/core/src/linker/{mod,module,relocation}.rs, hle/{stubs,         *)
(* libraries}.rs, loader/symbols.rs).  The recursion of load_module is a   *)
(* stack of frames, one step for each dependency a frame looks at.         *)
(*                                                                         *)
(* A file is what the linker reads of it: the names it needs, whether it   *)
(* has a TLS segment, where its LOAD segments begin and how much memory    *)
(* they take, its relocations and what it exports.  Addresses count words. *)
(* A symbol is its NID and its suffix ("#library#module", or none); a     *)
(* plain name is one without suffix.                                       *)
(***************************************************************************)
EXTENDS Integers, Sequences, FiniteSets

CONSTANTS
    Disks,         \* what may be on disk: functions from paths <<dir, name>> to files
    Main,          \* the path of the executable
    HleNames,      \* the names libkernel registers, in order
    KnownNids,     \* lookup_known_nid: a function from NIDs to names
    MAX_STUBS,
    STUB_SIZE,
    StubBase,      \* where the stub region is
    UserBase       \* where the memory manager puts the first module

Symbol == [nid : STRING, suffix : STRING]
ParsedRelocation == [offset : Nat, rel_type : STRING, symbol : Symbol, addend : Int]

\* A path is a directory and a name.
Path == Seq(STRING) \X STRING

ASSUME LinkerAssumption ==
    /\ \A d \in Disks :
          /\ Main \in DOMAIN d
          /\ DOMAIN d \subseteq Path
          /\ \A p \in DOMAIN d :
                /\ d[p].needed \in Seq(STRING)
                /\ d[p].tls \in BOOLEAN
                /\ d[p].min_addr \in Nat
                /\ d[p].size \in Nat
                /\ d[p].relocs \in Seq(ParsedRelocation)
    /\ HleNames \in Seq(STRING)
    /\ \A n \in DOMAIN KnownNids : KnownNids[n] \in STRING
    /\ MAX_STUBS \in Nat
    /\ STUB_SIZE \in Nat \ {0}
    /\ StubBase \in Nat \ {0}
    /\ UserBase \in Nat \ {0}

VARIABLES
    disk,
    phase,          \* "register", "load", "relocate", "done" or "failed"
    names,          \* names of the StubAllocator; used is its length
    hle_symbols,    \* name -> virtual_address
    modules,        \* sequence of [path, base, tls_index]
    stack,          \* the calls of load_module, the innermost first: [dir, needed]
    max_tls_index,
    failed,         \* history: the paths whose load failed
    at,             \* relocate_all: the module and the relocation it is at
    image,          \* address -> the word a relocation stored there
    wrote           \* history: <<module, relocation, address>> of every store

vars == <<disk, phase, names, hle_symbols, modules, stack, max_tls_index, failed, at,
          image, wrote>>

loading == <<modules, stack, max_tls_index, failed>>
relocating == <<at, image, wrote>>

Plain(name) == [nid |-> name, suffix |-> ""]

-----------------------------------------------------------------------------
(* Stubs. *)

\* The address next_stub gives, 0 when the region is full.
next_stub(ns) == IF Len(ns) < MAX_STUBS THEN StubBase + STUB_SIZE * Len(ns) ELSE 0

allocate_stub(ns, name) == IF Len(ns) < MAX_STUBS THEN Append(ns, name) ELSE ns

is_stub(ns, addr) == addr >= StubBase /\ addr < StubBase + STUB_SIZE * Len(ns)

get_stub_index(addr) == (addr - StubBase) \div STUB_SIZE

\* The name the dispatcher gets for a trap at addr.
get_stub_name(ns, addr) == ns[get_stub_index(addr) + 1]

\* register_all_libraries, one name at a time.
RegisterStub ==
    /\ phase = "register"
    /\ Cardinality(DOMAIN hle_symbols) < Len(HleNames)
    /\ LET name == HleNames[Cardinality(DOMAIN hle_symbols) + 1]
       IN  /\ hle_symbols' = [n \in DOMAIN hle_symbols \cup {name} |->
                                IF n = name THEN next_stub(names) ELSE hle_symbols[n]]
           /\ names' = allocate_stub(names, Plain(name))
    /\ UNCHANGED <<disk, phase, loading, relocating>>

-----------------------------------------------------------------------------
(* load_module. *)

NameOf(path) == path[2]

\* Mutant: a module counts as loaded only if it came from the same path.
IsLoaded_ByPath(path) == \E k \in DOMAIN modules : modules[k].path = path

IsLoaded(path) == \E k \in DOMAIN modules : NameOf(modules[k].path) = NameOf(path)

\* The memory manager has only handed out memory so far: the next module goes
\* behind the last.
NextBase ==
    IF modules = <<>> THEN UserBase
    ELSE LET last == modules[Len(modules)] IN last.base + disk[last.path].size

\* Mutant: every module gets the index of the last one with TLS.
TlsIndex_Shared(path) == max_tls_index

TlsIndex(path) == IF disk[path].tls THEN max_tls_index + 1 ELSE 0

\* Module::load and the push of the module, which comes before its dependencies.
Loads(path, frames) ==
    /\ modules' = Append(modules, [path |-> path, base |-> NextBase,
                                   tls_index |-> TlsIndex(path)])
    /\ max_tls_index' = IF disk[path].tls THEN max_tls_index + 1 ELSE max_tls_index
    /\ stack' = <<[dir |-> path[1], needed |-> disk[path].needed]>> \o frames
    /\ UNCHANGED failed

LoadMain ==
    /\ phase = "register"
    /\ Cardinality(DOMAIN hle_symbols) = Len(HleNames)
    /\ \/ Loads(Main, <<>>) /\ phase' = "load"
       \/ phase' = "failed" /\ UNCHANGED loading
    /\ UNCHANGED <<disk, names, hle_symbols, relocating>>

\* Where a frame looks for a dependency: its own directory, then sce_module
\* below it.
Candidates(dir, name) == <<<<dir, name>>, <<dir \o <<"sce_module">>, name>>>>

Found(dir, name) ==
    {k \in 1 .. 2 : Candidates(dir, name)[k] \in DOMAIN disk}

\* Mutant: a dependency is looked for in its own directory only.
DependencyPath_SameDir(dir, name) == <<dir, name>>

DependencyPath(dir, name) ==
    Candidates(dir, name)[IF 1 \in Found(dir, name) THEN 1 ELSE 2]

\* The next dependency of the innermost frame.
LoadDependency ==
    /\ phase = "load"
    /\ stack # <<>> /\ stack[1].needed # <<>>
    /\ LET name   == Head(stack[1].needed)
           path   == DependencyPath(stack[1].dir, name)
           frames == <<[dir |-> stack[1].dir, needed |-> Tail(stack[1].needed)]>> \o Tail(stack)
       IN  \/ /\ path \notin DOMAIN disk   \* HLE stubs will do
              /\ stack' = frames
              /\ UNCHANGED <<modules, max_tls_index, failed>>
           \/ /\ path \in DOMAIN disk /\ IsLoaded(path)
              /\ stack' = frames
              /\ UNCHANGED <<modules, max_tls_index, failed>>
           \/ /\ path \in DOMAIN disk /\ ~IsLoaded(path)
              /\ Loads(path, frames)
           \/ /\ path \in DOMAIN disk /\ ~IsLoaded(path)   \* a warning is all
              /\ failed' = failed \cup {path}
              /\ stack' = frames
              /\ UNCHANGED <<modules, max_tls_index>>
    /\ UNCHANGED <<disk, phase, names, hle_symbols, relocating>>

LoadReturns ==
    /\ phase = "load"
    /\ stack # <<>> /\ stack[1].needed = <<>>
    /\ stack' = Tail(stack)
    /\ phase' = IF Len(stack) = 1 THEN "relocate" ELSE "load"
    /\ UNCHANGED <<disk, names, hle_symbols, modules, max_tls_index, failed, relocating>>

-----------------------------------------------------------------------------
(* relocate_all. *)

Relocs(k) == disk[modules[k].path].relocs

Symbolic(rel) == rel.rel_type \in {"64", "GLOB_DAT", "JUMP_SLOT"}

\* Where the relocation stores: the offset is added to the base as it stands.
target_addr(k, rel) == modules[k].base + rel.offset

\* Where the word is that the relocation is for: Module::load has put what the
\* file has at min_addr at the base.
Slot(k, rel) == modules[k].base + rel.offset - disk[modules[k].path].min_addr

\* symbol_name is empty.
Unnamed(sym) == sym.nid = "" /\ sym.suffix = ""

\* The base name is tried first; the whole symbol is the same name or, with its
\* suffix, none that HLE registers.
Resolved(sym) == ~Unnamed(sym) /\ sym.nid \in DOMAIN hle_symbols

resolve(sym) == IF Resolved(sym) THEN hle_symbols[sym.nid] ELSE 0

\* Mutant: the stub is named after the symbol even if its NID is known.
StubName_Raw(sym) == sym

\* The name the stub of an unresolved import gets.
StubName(sym) ==
    IF sym.nid \in DOMAIN KnownNids THEN Plain(KnownNids[sym.nid]) ELSE sym

\* A store where no memory is mapped would end the program, which is left out.
Stores(k, j, addr, value) ==
    /\ image' = [a \in DOMAIN image \cup {addr} |-> IF a = addr THEN value ELSE image[a]]
    /\ wrote' = wrote \cup {<<k, j, addr>>}

NeedsStub(rel) == ~Unnamed(rel.symbol) /\ ~Resolved(rel.symbol)

apply_relocation(k, j, rel) ==
    LET addr == target_addr(k, rel)
    IN  \/ /\ rel.rel_type = "RELATIVE"
           /\ Stores(k, j, addr, modules[k].base + rel.addend)
           /\ UNCHANGED names
        \/ /\ Symbolic(rel) /\ NeedsStub(rel)
           /\ Stores(k, j, addr, next_stub(names) + rel.addend)
           /\ names' = allocate_stub(names, StubName(rel.symbol))
        \/ /\ Symbolic(rel) /\ ~NeedsStub(rel)
           /\ Stores(k, j, addr, resolve(rel.symbol) + rel.addend)
           /\ UNCHANGED names
        \/ /\ rel.rel_type = "DTPMOD64"
           /\ Stores(k, j, addr, 1)
           /\ UNCHANGED names
        \/ /\ rel.rel_type = "other"   \* a warning is all
           /\ UNCHANGED <<image, wrote, names>>

Relocate ==
    /\ phase = "relocate"
    /\ at[1] <= Len(modules) /\ at[2] <= Len(Relocs(at[1]))
    /\ apply_relocation(at[1], at[2], Relocs(at[1])[at[2]])
    /\ at' = <<at[1], at[2] + 1>>
    /\ UNCHANGED <<disk, phase, hle_symbols, loading>>

\* Mutant: the loop starts over with the same module.
NextModule_Same(k) == k

NextModule(k) == k + 1

\* The loop goes on to the next module, or is over.
RelocateNextModule ==
    /\ phase = "relocate"
    /\ at[1] <= Len(modules) /\ at[2] > Len(Relocs(at[1]))
    /\ at' = <<NextModule(at[1]), 1>>
    /\ phase' = IF NextModule(at[1]) > Len(modules) THEN "done" ELSE "relocate"
    /\ UNCHANGED <<disk, names, hle_symbols, loading, image, wrote>>

-----------------------------------------------------------------------------

Init ==
    /\ disk \in Disks
    /\ phase = "register"
    /\ names = <<>>
    /\ hle_symbols = [n \in {} |-> 0]
    /\ modules = <<>>
    /\ stack = <<>>
    /\ max_tls_index = 0
    /\ failed = {}
    /\ at = <<1, 1>>
    /\ image = [a \in {} |-> 0]
    /\ wrote = {}

Next ==
    \/ RegisterStub \/ LoadMain \/ LoadDependency \/ LoadReturns
    \/ Relocate \/ RelocateNextModule

Spec == Init /\ [][Next]_vars

\* Boot is one thread that nothing blocks.
FairSpec == Spec /\ WF_vars(Next)

-----------------------------------------------------------------------------
(* Properties. *)

\* The type of the state.
TypeOK ==
    /\ phase \in {"register", "load", "relocate", "done", "failed"}
    /\ Len(names) <= MAX_STUBS
    /\ hle_symbols \in [DOMAIN hle_symbols -> Nat]
    /\ \A k \in DOMAIN modules :
          modules[k].path \in DOMAIN disk /\ modules[k].base \in Nat
          /\ modules[k].tls_index \in 0 .. max_tls_index
    /\ failed \subseteq DOMAIN disk
    /\ at \in Nat \X Nat
    /\ image \in [DOMAIN image -> Int]

Linked == phase \in {"relocate", "done"}

\* The state has its type, and whatever the dependencies, cycles and diamonds
\* included, no module is loaded twice, and the executable is module 0 ("index 0 is
\* the main executable", linker/mod.rs:19).
LoadedOnce ==
    /\ TypeOK
    /\ \A k, l \in DOMAIN modules :
          NameOf(modules[k].path) = NameOf(modules[l].path) => k = l
    /\ modules # <<>> => modules[1].path = Main

\* When linking starts, every dependency of a loaded module that is on disk where
\* that module looks for it has been loaded, or its load has failed: the depth
\* first walk skips nothing.
DependenciesLoaded ==
    Linked =>
        \A k \in DOMAIN modules :
            LET path == modules[k].path
            IN  \A d \in DOMAIN disk[path].needed :
                    LET name == disk[path].needed[d]
                    IN  Found(path[1], name) # {} =>
                            \/ \E l \in DOMAIN modules : NameOf(modules[l].path) = name
                            \/ \E f \in failed : NameOf(f) = name

\* The TLS indices are handed out without gaps or duplicates, failed loads and
\* modules without TLS notwithstanding: a DTV can be indexed by them.
TlsIndicesDense ==
    LET withTls == {k \in DOMAIN modules : disk[modules[k].path].tls}
    IN  /\ \A k, l \in withTls : modules[k].tls_index = modules[l].tls_index => k = l
        /\ {modules[k].tls_index : k \in withTls} = 1 .. max_tls_index

\* The imports of module k that no other relocation, of any module, overwrites.
Final(k) ==
    {j \in DOMAIN Relocs(k) :
        /\ Symbolic(Relocs(k)[j]) /\ ~Unnamed(Relocs(k)[j].symbol) /\ Relocs(k)[j].addend = 0
        /\ \A w \in wrote : w[3] = Slot(k, Relocs(k)[j]) => w[1] = k /\ w[2] = j}

\* The modules whose LOAD segments begin at 0.
AtZero == {k \in DOMAIN modules : disk[modules[k].path].min_addr = 0}

\* The name the dispatcher has to see for an import.
Expected(sym) ==
    CASE Resolved(sym) -> Plain(sym.nid)
      [] ~Resolved(sym) /\ sym.nid \in DOMAIN KnownNids -> Plain(KnownNids[sym.nid])
      [] OTHER -> sym

\* Once linked, a call through any import of a module whose LOAD segments begin at
\* 0 traps in the stub of that very function, so the dispatcher runs the right one
\* ("Each stub gets a unique address so we can identify which function was called",
\* stubs.rs:4).  Only when the stub region is full is an import null; it is never
\* another's stub.  Modules that begin higher may be loaded too.
ImportsDispatch ==
    phase = "done" =>
        \A k \in AtZero : \A j \in Final(k) :
            LET addr == image[Slot(k, Relocs(k)[j])]
            IN  \/ /\ is_stub(names, addr)
                   /\ get_stub_name(names, addr) = Expected(Relocs(k)[j].symbol)
                \/ addr = 0 /\ Len(names) = MAX_STUBS

\* Loading ends, on cyclic dependencies too, and so does relocation.
BootEnds == <>(phase \in {"done", "failed"})

-----------------------------------------------------------------------------
(* What the code does not keep: README.md, "Divergences", says how.        *)

\* "Minimum address of the LOAD segments in the ELF (used for relative offset
\* calculation)." (linker/module.rs:57): every relocation stores into the word it is
\* for, and so into its own module.
StoresHitTheirSlots ==
    \A w \in wrote : w[3] = Slot(w[1], Relocs(w[1])[w[2]])

\* "resolving symbols against the HLE symbol table and other loaded modules"
\* (relocation.rs:3): an import that a loaded module exports, and HLE does not,
\* gets an address in that module.
ModuleExportsResolve ==
    phase = "done" =>
        \A k \in AtZero, l \in DOMAIN modules : \A j \in Final(k) :
            LET rel  == Relocs(k)[j]
                addr == image[Slot(k, rel)]
            IN  rel.symbol \in disk[modules[l].path].exports /\ ~Resolved(rel.symbol) =>
                    addr >= modules[l].base
                    /\ addr < modules[l].base + disk[modules[l].path].size

=============================================================================
