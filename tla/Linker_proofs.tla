---------------------------- MODULE Linker_proofs ----------------------------
(***************************************************************************)
(* Proofs about the dynamic linker, for any disks, any dependencies, any   *)
(* relocations and any size of the stub region.                            *)
(***************************************************************************)
EXTENDS Linker, FiniteSetTheorems, TLAPS

-----------------------------------------------------------------------------
(* Stubs. *)

\* The names of stubs.
Name == Symbol \cup {Plain(n) : n \in STRING}

\* addr is where the stub of name is or, in a full region, null.
Traps(ns, addr, name) ==
    \/ \E i \in 1 .. Len(ns) : addr = StubBase + STUB_SIZE * (i - 1) /\ ns[i] = name
    \/ addr = 0 /\ Len(ns) = MAX_STUBS

\* What Append does.
LEMMA AppendFacts ==
    ASSUME NEW S, NEW s \in Seq(S), NEW e \in S
    PROVE  /\ Append(s, e) \in Seq(S)
           /\ Len(Append(s, e)) = Len(s) + 1
           /\ Append(s, e)[Len(s) + 1] = e
           /\ \A i \in 1 .. Len(s) : Append(s, e)[i] = s[i]
OBVIOUS

\* Numbers in a region of slots of n words each.
LEMMA SlotNumber ==
    ASSUME NEW n \in Nat \ {0}, NEW i \in Nat
    PROVE  (n * i) \div n = i
<1> DEFINE q == (n * i) \div n
           r == (n * i) % n
<1>1. n * i \in Int /\ q \in Int /\ r \in 0 .. n - 1 /\ n * i = n * q + r
  OBVIOUS
<1> HIDE DEF q, r
<1>2. n * (i - q) = r
  BY <1>1
<1>3. i - q <= 0
  <2>1. SUFFICES ASSUME i - q >= 1 PROVE FALSE
    BY <1>1
  <2>2. n * (i - q) >= n
    BY <1>1, <2>1
  <2> QED
    BY <1>1, <1>2, <2>2
<1>4. i - q >= 0
  <2>1. SUFFICES ASSUME i - q <= -1 PROVE FALSE
    BY <1>1
  <2>2. n * (i - q) <= -n
    BY <1>1, <2>1
  <2> QED
    BY <1>1, <1>2, <2>2
<1>5. i = q
  BY <1>1, <1>3, <1>4
<1> QED
  BY <1>5 DEF q

LEMMA SlotInside ==
    ASSUME NEW n \in Nat \ {0}, NEW m \in Nat, NEW i \in 1 .. m
    PROVE  n * (i - 1) \in Nat /\ n * (i - 1) < n * m
<1>1. n * m = n * (i - 1) + n * (m - (i - 1))
  OBVIOUS
<1>2. m - (i - 1) >= 1 /\ m - (i - 1) \in Nat /\ i - 1 \in Nat
  OBVIOUS
<1>3. n * (m - (i - 1)) >= n
  BY <1>2
<1>4. n * (i - 1) \in Nat /\ n * m \in Nat
  BY <1>2
<1> QED
  BY <1>1, <1>3, <1>4

\* The dispatcher finds the name of a stub from the address of the trap.
LEMMA TrapDispatched ==
    ASSUME NEW ns, NEW addr, NEW name, Len(ns) \in Nat, Traps(ns, addr, name)
    PROVE  \/ is_stub(ns, addr) /\ get_stub_name(ns, addr) = name
           \/ addr = 0 /\ Len(ns) = MAX_STUBS
<1>1. SUFFICES ASSUME NEW i \in 1 .. Len(ns), addr = StubBase + STUB_SIZE * (i - 1), ns[i] = name
               PROVE  is_stub(ns, addr) /\ get_stub_name(ns, addr) = name
  BY DEF Traps
<1> DEFINE off == STUB_SIZE * (i - 1)
           m == Len(ns)
<1>2. STUB_SIZE \in Nat \ {0} /\ StubBase \in Nat /\ m \in Nat
  BY LinkerAssumption
<1>3. off \in Nat /\ off < STUB_SIZE * m
  BY <1>2, SlotInside
<1>4. off \div STUB_SIZE = i - 1
  <2>1. i - 1 \in Nat
    BY <1>2
  <2> QED
    BY <1>2, <2>1, SlotNumber
<1>5. STUB_SIZE * m \in Nat /\ i \in Nat
  BY <1>2
<1> HIDE DEF off, m
<1>6. addr = StubBase + off
  BY <1>1 DEF off
<1>7. addr - StubBase = off /\ addr >= StubBase /\ addr < StubBase + STUB_SIZE * m
  BY <1>2, <1>3, <1>5, <1>6
<1>8. get_stub_index(addr) + 1 = i
  BY <1>4, <1>5, <1>7 DEF get_stub_index
<1> QED
  BY <1>1, <1>7, <1>8 DEF is_stub, get_stub_name, m

\* New stubs leave the others where they are.
LEMMA TrapsKept ==
    ASSUME NEW ns \in Seq(Name), NEW new \in Name, NEW addr, NEW name, Traps(ns, addr, name)
    PROVE  Traps(allocate_stub(ns, new), addr, name)
<1>1. CASE Len(ns) < MAX_STUBS
  <2>1. allocate_stub(ns, new) = Append(ns, new)
    BY <1>1 DEF allocate_stub
  <2>2. PICK i \in 1 .. Len(ns) : addr = StubBase + STUB_SIZE * (i - 1) /\ ns[i] = name
    BY <1>1, LinkerAssumption DEF Traps
  <2>3. Append(ns, new)[i] = ns[i] /\ Len(Append(ns, new)) = Len(ns) + 1
    BY AppendFacts
  <2>4. i \in 1 .. Len(Append(ns, new))
    BY <2>3
  <2> QED
    BY <2>1, <2>2, <2>3, <2>4 DEF Traps
<1>2. CASE ~(Len(ns) < MAX_STUBS)
  BY <1>2 DEF allocate_stub
<1> QED
  BY <1>1, <1>2

\* A new stub is that of its name.
LEMMA StubAllocated ==
    ASSUME NEW ns \in Seq(Name), Len(ns) <= MAX_STUBS, NEW new \in Name
    PROVE  /\ allocate_stub(ns, new) \in Seq(Name)
           /\ Len(allocate_stub(ns, new)) <= MAX_STUBS
           /\ next_stub(ns) \in Nat
           /\ Traps(allocate_stub(ns, new), next_stub(ns), new)
<1>1. Len(ns) \in Nat /\ STUB_SIZE \in Nat /\ StubBase \in Nat /\ MAX_STUBS \in Nat
  BY LinkerAssumption
<1>2. CASE Len(ns) < MAX_STUBS
  <2>1. allocate_stub(ns, new) = Append(ns, new) /\ next_stub(ns) = StubBase + STUB_SIZE * Len(ns)
    BY <1>2 DEF allocate_stub, next_stub
  <2>2. /\ Append(ns, new) \in Seq(Name) /\ Len(Append(ns, new)) = Len(ns) + 1
        /\ Append(ns, new)[Len(ns) + 1] = new
    BY AppendFacts
  <2>3. Len(ns) + 1 \in 1 .. Len(Append(ns, new)) /\ Len(ns) + 1 - 1 = Len(ns)
    BY <1>1, <2>2
  <2>4. StubBase + STUB_SIZE * Len(ns) \in Nat /\ Len(ns) + 1 <= MAX_STUBS
    BY <1>1, <1>2
  <2>5. Traps(Append(ns, new), StubBase + STUB_SIZE * Len(ns), new)
    BY <2>2, <2>3 DEF Traps
  <2> QED
    BY <2>1, <2>2, <2>4, <2>5
<1>3. CASE ~(Len(ns) < MAX_STUBS)
  BY <1>1, <1>3 DEF allocate_stub, next_stub, Traps
<1> QED
  BY <1>2, <1>3

\* What the symbol table holds are stubs of the names it has.
StubInv ==
    /\ names \in Seq(Name) /\ Len(names) <= MAX_STUBS
    /\ IsFiniteSet(DOMAIN hle_symbols)
    /\ hle_symbols \in [DOMAIN hle_symbols -> Nat]
    /\ \A n \in DOMAIN hle_symbols : Traps(names, hle_symbols[n], Plain(n))

-----------------------------------------------------------------------------
(* Loading. *)

ModuleEntry == [path : Path, base : Nat, tls_index : Nat]
Frame == [dir : Seq(STRING), needed : Seq(STRING)]

LoadTypes ==
    /\ disk \in Disks
    /\ phase \in {"register", "load", "relocate", "done", "failed"}
    /\ modules \in Seq(ModuleEntry)
    /\ stack \in Seq(Frame)
    /\ max_tls_index \in Nat
    /\ failed \subseteq DOMAIN disk
    /\ \A k \in DOMAIN modules :
          modules[k].path \in DOMAIN disk /\ modules[k].tls_index <= max_tls_index

\* Nothing is loaded before the main executable, and nothing is left to do after it.
PhaseInv ==
    /\ phase \in {"register", "failed"} =>
          modules = <<>> /\ stack = <<>> /\ max_tls_index = 0
    /\ phase = "load" => modules # <<>>
    /\ Linked => stack = <<>>

Unique ==
    /\ \A k, l \in DOMAIN modules :
          NameOf(modules[k].path) = NameOf(modules[l].path) => k = l
    /\ modules # <<>> => modules[1].path = Main

\* The module name has been loaded or has failed to.
Settled(name) ==
    \/ \E l \in DOMAIN modules : NameOf(modules[l].path) = name
    \/ \E f \in failed : NameOf(f) = name

\* A frame of load_module that looks in dir has name still to do.
Pending(frames, dir, name) ==
    \E s \in DOMAIN frames :
        frames[s].dir = dir /\ \E e \in DOMAIN frames[s].needed : frames[s].needed[e] = name

\* There is a file where load_module looks.
OnDisk(files, dir, name) == \E c \in 1 .. 2 : Candidates(dir, name)[c] \in DOMAIN files

\* No dependency of a loaded module is forgotten.
NothingSkipped ==
    \A k \in DOMAIN modules : \A d \in DOMAIN disk[modules[k].path].needed :
        LET dir  == modules[k].path[1]
            name == disk[modules[k].path].needed[d]
        IN  OnDisk(disk, dir, name) => Settled(name) \/ Pending(stack, dir, name)

LoadInv ==
    /\ LoadTypes /\ PhaseInv /\ Unique /\ NothingSkipped /\ TlsIndicesDense

\* What is read of a file has its type.
LEMMA DiskTypes ==
    ASSUME disk \in Disks, NEW p \in DOMAIN disk
    PROVE  /\ p \in Path /\ p[1] \in Seq(STRING) /\ p[2] \in STRING
           /\ disk[p].needed \in Seq(STRING) /\ disk[p].tls \in BOOLEAN
           /\ disk[p].min_addr \in Nat /\ disk[p].size \in Nat
           /\ disk[p].relocs \in Seq(ParsedRelocation)
<1>1. p \in Path
  BY LinkerAssumption
<1>2. p[1] \in Seq(STRING) /\ p[2] \in STRING
  BY <1>1 DEF Path
<1> QED
  BY <1>1, <1>2, LinkerAssumption

\* Where the next module goes.
LEMMA NextBaseType ==
    ASSUME LoadTypes
    PROVE  NextBase \in Nat
<1>1. CASE modules = <<>>
  BY <1>1, LinkerAssumption DEF NextBase
<1>2. CASE modules # <<>>
  <2> DEFINE n == Len(modules)
             last == modules[n]
  <2>1. n \in DOMAIN modules /\ last \in ModuleEntry
    BY <1>2 DEF LoadTypes
  <2>2. last.base \in Nat /\ last.path \in DOMAIN disk
    BY <2>1 DEF LoadTypes, ModuleEntry
  <2>3. disk[last.path].size \in Nat
    BY <2>2, DiskTypes DEF LoadTypes
  <2>4. NextBase = last.base + disk[last.path].size
    BY <1>2 DEF NextBase
  <2> QED
    BY <2>2, <2>3, <2>4
<1> QED
  BY <1>1, <1>2

\* The frames of a call and those below it.
LEMMA FrameOnTop ==
    ASSUME NEW f \in Frame, NEW frames \in Seq(Frame)
    PROVE  /\ <<f>> \o frames \in Seq(Frame)
           /\ DOMAIN (<<f>> \o frames) = 1 .. Len(frames) + 1
           /\ (<<f>> \o frames)[1] = f
           /\ \A i \in 1 .. Len(frames) : (<<f>> \o frames)[i + 1] = frames[i]
OBVIOUS

\* What a frame on top has to do and what those below have to.
LEMMA PendingOnTop ==
    ASSUME NEW f \in Frame, NEW frames \in Seq(Frame)
    PROVE  /\ \A e \in DOMAIN f.needed : Pending(<<f>> \o frames, f.dir, f.needed[e])
           /\ \A dir, name : Pending(frames, dir, name) => Pending(<<f>> \o frames, dir, name)
<1> DEFINE all == <<f>> \o frames
<1>1. /\ DOMAIN all = 1 .. Len(frames) + 1 /\ all[1] = f /\ Len(frames) \in Nat
      /\ \A i \in 1 .. Len(frames) : all[i + 1] = frames[i]
  BY FrameOnTop
<1> HIDE DEF all
<1>2. 1 \in DOMAIN all
  BY <1>1
<1>3. \A e \in DOMAIN f.needed : Pending(all, f.dir, f.needed[e])
  BY <1>1, <1>2 DEF Pending
<1>4. ASSUME NEW dir, NEW name, Pending(frames, dir, name) PROVE Pending(all, dir, name)
  <2>1. PICK s \in DOMAIN frames :
            frames[s].dir = dir /\ \E e \in DOMAIN frames[s].needed : frames[s].needed[e] = name
    BY <1>4 DEF Pending
  <2>2. s \in 1 .. Len(frames) /\ s + 1 \in DOMAIN all
    BY <1>1, <2>1
  <2>3. all[s + 1] = frames[s]
    BY <1>1, <2>2
  <2> QED
    BY <2>1, <2>2, <2>3 DEF Pending
<1> QED
  BY <1>3, <1>4 DEF all

\* The modules after the load of one more.
LEMMA ModulesAfterLoad ==
    ASSUME LoadInv, NEW path \in DOMAIN disk, NEW frames \in Seq(Frame), Loads(path, frames)
    PROVE  /\ modules' \in Seq(ModuleEntry)
           /\ Len(modules') = Len(modules) + 1
           /\ \A k \in 1 .. Len(modules) : modules'[k] = modules[k]
           /\ modules'[Len(modules) + 1].path = path
           /\ modules'[Len(modules) + 1].base = NextBase
           /\ modules'[Len(modules) + 1].tls_index = TlsIndex(path)
           /\ DOMAIN modules' = 1 .. Len(modules) + 1
           /\ Len(modules) \in Nat /\ DOMAIN modules = 1 .. Len(modules)
<1> DEFINE m == [path |-> path, base |-> NextBase, tls_index |-> TlsIndex(path)]
<1>1. modules' = Append(modules, m)
  BY DEF Loads
<1>2. TlsIndex(path) \in Nat
  BY DEF TlsIndex, LoadInv, LoadTypes
<1>3. m \in ModuleEntry
  BY <1>2, NextBaseType, DiskTypes DEF LoadInv, LoadTypes, ModuleEntry
<1>4. modules \in Seq(ModuleEntry)
  BY DEF LoadInv, LoadTypes
<1>5. m.path = path /\ m.base = NextBase /\ m.tls_index = TlsIndex(path)
  OBVIOUS
<1> HIDE DEF m
<1>6. /\ Append(modules, m) \in Seq(ModuleEntry) /\ Len(Append(modules, m)) = Len(modules) + 1
      /\ Append(modules, m)[Len(modules) + 1] = m
      /\ \A k \in 1 .. Len(modules) : Append(modules, m)[k] = modules[k]
  BY <1>3, <1>4, AppendFacts
<1> QED
  BY <1>1, <1>4, <1>5, <1>6

LEMMA LoadKeepsTypes ==
    ASSUME LoadInv, NEW path \in DOMAIN disk, NEW frames \in Seq(Frame), Loads(path, frames),
           disk' = disk, phase' = "load"
    PROVE  LoadTypes'
<1> DEFINE n == Len(modules)
           f == [dir |-> path[1], needed |-> disk[path].needed]
<1>1. /\ modules' \in Seq(ModuleEntry) /\ DOMAIN modules' = 1 .. n + 1 /\ n \in Nat
      /\ DOMAIN modules = 1 .. n
      /\ \A k \in 1 .. n : modules'[k] = modules[k]
      /\ modules'[n + 1].path = path /\ modules'[n + 1].tls_index = TlsIndex(path)
  BY ModulesAfterLoad
<1>2. /\ disk \in Disks /\ max_tls_index \in Nat /\ failed \subseteq DOMAIN disk
      /\ \A k \in 1 .. n : modules[k].path \in DOMAIN disk /\ modules[k].tls_index <= max_tls_index
      /\ \A k \in 1 .. n : modules[k].tls_index \in Nat
  <2>1. \A k \in 1 .. n : modules[k] \in ModuleEntry
    BY <1>1 DEF LoadInv, LoadTypes
  <2>2. \A k \in 1 .. n : modules[k].tls_index \in Nat
    BY <2>1 DEF ModuleEntry
  <2> QED
    BY <1>1, <2>2 DEF LoadInv, LoadTypes
<1>3. f \in Frame
  BY <1>2, DiskTypes DEF Frame
<1>4. stack' \in Seq(Frame)
  BY <1>3, FrameOnTop DEF Loads
<1>5. /\ max_tls_index' \in Nat /\ max_tls_index <= max_tls_index' /\ TlsIndex(path) <= max_tls_index'
      /\ failed' = failed
  BY <1>2, DiskTypes DEF Loads, TlsIndex
<1> HIDE DEF n
<1>6. \A k \in 1 .. n + 1 : k \in 1 .. n \/ k = n + 1
  BY <1>1
<1>7. ASSUME NEW k \in 1 .. n + 1
      PROVE  modules'[k].path \in DOMAIN disk /\ modules'[k].tls_index <= max_tls_index'
  <2>1. CASE k \in 1 .. n
    <3>1. modules[k].tls_index <= max_tls_index /\ modules[k].tls_index \in Nat
      BY <1>2, <2>1
    <3>2. modules[k].tls_index <= max_tls_index'
      BY <1>2, <1>5, <3>1
    <3> QED
      BY <1>1, <1>2, <2>1, <3>2
  <2>2. CASE k = n + 1
    BY <1>1, <1>5, <2>2
  <2> QED
    BY <1>6, <2>1, <2>2
<1> QED
  BY <1>1, <1>2, <1>4, <1>5, <1>7 DEF LoadTypes

LEMMA LoadKeepsUnique ==
    ASSUME LoadInv, NEW path \in DOMAIN disk, NEW frames \in Seq(Frame), Loads(path, frames),
           ~IsLoaded(path), modules = <<>> => path = Main
    PROVE  Unique'
<1> DEFINE n == Len(modules)
<1>1. /\ DOMAIN modules' = 1 .. n + 1 /\ n \in Nat /\ DOMAIN modules = 1 .. n
      /\ \A k \in 1 .. n : modules'[k] = modules[k]
      /\ modules'[n + 1].path = path
      /\ modules = <<>> <=> n = 0
  BY ModulesAfterLoad DEF LoadInv, LoadTypes
<1>2. \A k \in 1 .. n : NameOf(modules[k].path) # NameOf(path)
  BY <1>1 DEF IsLoaded
<1>3. Unique
  BY DEF LoadInv
<1> HIDE DEF n
<1>4. \A k \in 1 .. n + 1 : k \in 1 .. n \/ k = n + 1
  BY <1>1
<1>5. ASSUME NEW k \in 1 .. n + 1, NEW l \in 1 .. n + 1,
             NameOf(modules'[k].path) = NameOf(modules'[l].path)
      PROVE  k = l
  <2>1. CASE k \in 1 .. n /\ l \in 1 .. n
    BY <1>1, <1>3, <1>5, <2>1 DEF Unique
  <2>2. CASE k \in 1 .. n /\ l = n + 1
    BY <1>1, <1>2, <1>5, <2>2
  <2>3. CASE k = n + 1 /\ l \in 1 .. n
    <3>1. NameOf(modules[l].path) = NameOf(path)
      BY <1>1, <1>5, <2>3
    <3> QED
      BY <1>2, <2>3, <3>1
  <2>4. CASE k = n + 1 /\ l = n + 1
    BY <2>4
  <2> QED
    BY <1>4, <2>1, <2>2, <2>3, <2>4
<1>6. modules'[1].path = Main
  <2>1. CASE n = 0
    BY <1>1, <2>1
  <2>2. CASE n # 0
    <3>1. 1 \in 1 .. n
      BY <1>1, <2>2
    <3> QED
      BY <1>1, <1>3, <2>2, <3>1 DEF Unique
  <2> QED
    BY <2>1, <2>2
<1>7. \A k, l \in DOMAIN modules' : NameOf(modules'[k].path) = NameOf(modules'[l].path) => k = l
  BY <1>1, <1>5
<1> QED
  BY <1>6, <1>7 DEF Unique, NameOf

LEMMA LoadKeepsTls ==
    ASSUME LoadInv, NEW path \in DOMAIN disk, NEW frames \in Seq(Frame), Loads(path, frames),
           disk' = disk
    PROVE  TlsIndicesDense'
<1> DEFINE n == Len(modules)
           tls(m) == disk[m.path].tls
           W == {k \in 1 .. n : tls(modules[k])}
           W1 == {k \in 1 .. n + 1 : tls(modules'[k])}
           M == max_tls_index
<1>1. /\ DOMAIN modules' = 1 .. n + 1 /\ n \in Nat /\ DOMAIN modules = 1 .. n
      /\ \A k \in 1 .. n : modules'[k] = modules[k]
      /\ modules'[n + 1].path = path /\ modules'[n + 1].tls_index = TlsIndex(path)
  BY ModulesAfterLoad
<1>2. /\ \A k, l \in W : modules[k].tls_index = modules[l].tls_index => k = l
      /\ {modules[k].tls_index : k \in W} = 1 .. M
      /\ M \in Nat
  BY <1>1 DEF LoadInv, LoadTypes, TlsIndicesDense
<1>3. tls(modules'[n + 1]) <=> disk[path].tls
  BY <1>1
<1>4. /\ disk[path].tls => TlsIndex(path) = M + 1 /\ max_tls_index' = M + 1
      /\ ~disk[path].tls => max_tls_index' = M
  BY DEF TlsIndex, Loads
<1>5. SUFFICES /\ \A k, l \in W1 : modules'[k].tls_index = modules'[l].tls_index => k = l
               /\ {modules'[k].tls_index : k \in W1} = 1 .. max_tls_index'
  BY <1>1 DEF TlsIndicesDense
<1> HIDE DEF n, M, tls
<1>6. \A k \in 1 .. n + 1 : k \in 1 .. n \/ k = n + 1
  BY <1>1
<1>7. n + 1 \in 1 .. n + 1 /\ n + 1 \notin 1 .. n /\ 1 .. n \subseteq 1 .. n + 1
  BY <1>1
<1>8. CASE disk[path].tls
  <2>1. W1 = W \cup {n + 1}
    BY <1>1, <1>3, <1>6, <1>7, <1>8
  <2>2. \A k \in W : modules'[k].tls_index = modules[k].tls_index /\ modules[k].tls_index \in 1 .. M
    BY <1>1, <1>2
  <2>3. modules'[n + 1].tls_index = M + 1 /\ M + 1 \notin 1 .. M
    BY <1>1, <1>2, <1>4, <1>8
  <2>4. {modules'[k].tls_index : k \in W1} = 1 .. M \cup {M + 1}
    <3>1. {modules'[k].tls_index : k \in W} = 1 .. M
      BY <1>2, <2>2
    <3> QED
      BY <2>1, <2>3, <3>1
  <2>5. 1 .. M \cup {M + 1} = 1 .. M + 1
    BY <1>2
  <2>6. \A k, l \in W1 : modules'[k].tls_index = modules'[l].tls_index => k = l
    <3> HIDE DEF W, W1
    <3> QED
      BY <1>2, <2>1, <2>2, <2>3
  <2> QED
    BY <1>4, <1>8, <2>4, <2>5, <2>6
<1>9. CASE ~disk[path].tls
  <2>1. W1 = W
    BY <1>1, <1>3, <1>6, <1>7, <1>9
  <2>2. \A k \in W : modules'[k].tls_index = modules[k].tls_index
    BY <1>1
  <2> QED
    BY <1>2, <1>4, <1>9, <2>1, <2>2
<1> QED
  BY <1>8, <1>9

\* The new frame has all the dependencies of the new module to do.
LEMMA LoadKeepsDependencies ==
    ASSUME LoadInv, NEW path \in DOMAIN disk, NEW frames \in Seq(Frame), Loads(path, frames),
           disk' = disk,
           \A dir, name : Pending(stack, dir, name) /\ OnDisk(disk, dir, name) =>
               Pending(frames, dir, name) \/ name = NameOf(path)
    PROVE  NothingSkipped'
<1> DEFINE n == Len(modules)
           f == [dir |-> path[1], needed |-> disk[path].needed]
<1>1. /\ DOMAIN modules' = 1 .. n + 1 /\ n \in Nat /\ DOMAIN modules = 1 .. n
      /\ \A k \in 1 .. n : modules'[k] = modules[k]
      /\ modules'[n + 1].path = path
  BY ModulesAfterLoad
<1>2. f \in Frame /\ f.dir = path[1] /\ f.needed = disk[path].needed
  BY DiskTypes DEF LoadInv, LoadTypes, Frame
<1>3. stack' = <<f>> \o frames /\ failed' = failed
  BY DEF Loads
<1> HIDE DEF n, f
<1>4. /\ \A e \in DOMAIN f.needed : Pending(stack', f.dir, f.needed[e])
      /\ \A dir, name : Pending(frames, dir, name) => Pending(stack', dir, name)
  BY <1>2, <1>3, PendingOnTop
<1>5. n + 1 \in 1 .. n + 1 /\ 1 .. n \subseteq 1 .. n + 1
      /\ \A k \in 1 .. n + 1 : k \in 1 .. n \/ k = n + 1
  BY <1>1
<1> DEFINE Settled1(name) ==
               \/ \E l \in DOMAIN modules' : NameOf(modules'[l].path) = name
               \/ \E g \in failed' : NameOf(g) = name
<1>6. \A name : Settled(name) => Settled1(name)
  BY <1>1, <1>3, <1>5 DEF Settled
<1>7. Settled1(NameOf(path))
  BY <1>1, <1>5
<1>8. ASSUME NEW k \in DOMAIN modules', NEW d \in DOMAIN disk[modules'[k].path].needed,
             OnDisk(disk, modules'[k].path[1], disk[modules'[k].path].needed[d])
      PROVE  \/ Settled1(disk[modules'[k].path].needed[d])
             \/ Pending(stack', modules'[k].path[1], disk[modules'[k].path].needed[d])
  <2>1. CASE k \in 1 .. n
    <3> DEFINE dir == modules[k].path[1]
               name == disk[modules[k].path].needed[d]
    <3>1. modules'[k] = modules[k]
      BY <1>1, <2>1
    <3>2. Settled(name) \/ Pending(stack, dir, name)
      BY <1>1, <1>8, <2>1, <3>1 DEF LoadInv, NothingSkipped
    <3>3. OnDisk(disk, dir, name)
      BY <1>8, <3>1
    <3> HIDE DEF dir, name, Settled1
    <3>4. Settled1(name) \/ Pending(stack', dir, name)
      BY <1>4, <1>6, <1>7, <3>2, <3>3
    <3> QED
      BY <3>1, <3>4 DEF dir, name
  <2>2. CASE k = n + 1
    BY <1>1, <1>2, <1>4, <2>2
  <2> QED
    BY <1>1, <1>5, <2>1, <2>2
<1>9. SUFFICES ASSUME NEW k \in DOMAIN modules', NEW d \in DOMAIN disk'[modules'[k].path].needed,
                      OnDisk(disk', modules'[k].path[1], disk'[modules'[k].path].needed[d])
               PROVE  \/ Settled1(disk'[modules'[k].path].needed[d])
                      \/ Pending(stack', modules'[k].path[1], disk'[modules'[k].path].needed[d])
  BY DEF NothingSkipped, Settled, NameOf
<1> HIDE DEF Settled1
<1> QED
  BY <1>8, <1>9

\* A step that loads no module.
LEMMA NoLoadKeeps ==
    ASSUME LoadInv, UNCHANGED <<disk, modules, max_tls_index>>, stack' \in Seq(Frame),
           phase' \in {"register", "load", "relocate", "done", "failed"}, PhaseInv',
           failed \subseteq failed', failed' \subseteq DOMAIN disk,
           \A dir, name : Pending(stack, dir, name) /\ OnDisk(disk, dir, name) =>
               \/ Pending(stack', dir, name)
               \/ Settled(name)
               \/ \E f \in failed' : NameOf(f) = name
    PROVE  LoadInv'
<1>1. LoadTypes'
  BY DEF LoadInv, LoadTypes
<1>2. Unique' /\ TlsIndicesDense'
  BY DEF LoadInv, Unique, TlsIndicesDense, NameOf
<1>3. NothingSkipped'
  <2> DEFINE Settled1(name) ==
                 \/ \E l \in DOMAIN modules : NameOf(modules[l].path) = name
                 \/ \E f \in failed' : NameOf(f) = name
  <2>1. \A name : Settled(name) => Settled1(name)
    BY DEF Settled
  <2>2. \A name : (\E f \in failed' : NameOf(f) = name) => Settled1(name)
    OBVIOUS
  <2>3. SUFFICES ASSUME NEW k \in DOMAIN modules, NEW d \in DOMAIN disk[modules[k].path].needed,
                        OnDisk(disk, modules[k].path[1], disk[modules[k].path].needed[d])
                 PROVE  \/ Settled1(disk[modules[k].path].needed[d])
                        \/ Pending(stack', modules[k].path[1], disk[modules[k].path].needed[d])
    BY DEF NothingSkipped, Settled, NameOf
  <2> HIDE DEF Settled1
  <2>4. \/ Settled(disk[modules[k].path].needed[d])
        \/ Pending(stack, modules[k].path[1], disk[modules[k].path].needed[d])
    BY <2>3 DEF LoadInv, NothingSkipped
  <2> QED
    BY <2>1, <2>2, <2>3, <2>4
<1> QED
  BY <1>1, <1>2, <1>3 DEF LoadInv

\* A step that has nothing to do with loading.
LEMMA LoadingUnchanged ==
    ASSUME LoadInv, UNCHANGED <<disk, loading>>,
           phase' \in {"register", "load", "relocate", "done", "failed"}, PhaseInv'
    PROVE  LoadInv'
<1>1. UNCHANGED <<modules, stack, max_tls_index, failed>>
  BY DEF loading
<1>2. stack' \in Seq(Frame) /\ failed \subseteq failed' /\ failed' \subseteq DOMAIN disk
  BY <1>1 DEF LoadInv, LoadTypes
<1> QED
  BY <1>1, <1>2, NoLoadKeeps

LEMMA LoadMainKeeps ==
    ASSUME LoadInv, LoadMain
    PROVE  LoadInv'
<1>1. /\ phase = "register" /\ disk' = disk /\ modules = <<>> /\ stack = <<>> /\ disk \in Disks
  BY DEF LoadMain, LoadInv, PhaseInv, LoadTypes
<1>2. CASE Loads(Main, <<>>) /\ phase' = "load"
  <2>1. Main \in DOMAIN disk /\ <<>> \in Seq(Frame)
    BY <1>1, LinkerAssumption
  <2>2. ~IsLoaded(Main)
    BY <1>1 DEF IsLoaded
  <2>3. \A dir, name : ~Pending(stack, dir, name)
    BY <1>1 DEF Pending
  <2>4. LoadTypes' /\ Unique'
    BY <1>1, <1>2, <2>1, <2>2, LoadKeepsTypes, LoadKeepsUnique
  <2>5. TlsIndicesDense' /\ NothingSkipped'
    BY <1>1, <1>2, <2>1, <2>3, LoadKeepsTls, LoadKeepsDependencies
  <2>6. PhaseInv'
    <3>1. Len(modules') = Len(modules) + 1 /\ Len(modules) \in Nat
      BY <1>2, <2>1, ModulesAfterLoad
    <3>2. modules' # <<>>
      BY <3>1
    <3> QED
      BY <1>2, <3>2 DEF PhaseInv, Linked
  <2> QED
    BY <2>4, <2>5, <2>6 DEF LoadInv
<1>3. CASE phase' = "failed" /\ UNCHANGED loading
  <2>1. PhaseInv'
    BY <1>1, <1>3 DEF LoadInv, PhaseInv, Linked, loading
  <2> QED
    BY <1>1, <1>3, <2>1, LoadingUnchanged
<1> QED
  BY <1>2, <1>3 DEF LoadMain

\* The frames that are left when the innermost one has taken up a dependency.
FramesLeft == <<[dir |-> stack[1].dir, needed |-> Tail(stack[1].needed)]>> \o Tail(stack)

LEMMA DependencyTaken ==
    ASSUME stack \in Seq(Frame), stack # <<>>, stack[1].needed # <<>>
    PROVE  /\ FramesLeft \in Seq(Frame)
           /\ stack[1].dir \in Seq(STRING) /\ Head(stack[1].needed) \in STRING
           /\ \A dir, name : Pending(stack, dir, name) =>
                 \/ Pending(FramesLeft, dir, name)
                 \/ dir = stack[1].dir /\ name = Head(stack[1].needed)
<1> DEFINE top == stack[1]
           rest == Tail(stack)
           need == top.needed
           f == [dir |-> top.dir, needed |-> Tail(need)]
<1>1. /\ top \in Frame /\ rest \in Seq(Frame) /\ Len(stack) \in Nat /\ Len(rest) = Len(stack) - 1
      /\ \A i \in 1 .. Len(rest) : rest[i] = stack[i + 1]
      /\ DOMAIN stack = 1 .. Len(stack) /\ DOMAIN rest = 1 .. Len(rest)
  OBVIOUS
<1>2. top.dir \in Seq(STRING) /\ need \in Seq(STRING) /\ need # <<>>
  BY <1>1 DEF Frame
<1> HIDE DEF need
<1>3. /\ Head(need) = need[1] /\ Head(need) \in STRING
      /\ Tail(need) \in Seq(STRING) /\ Len(need) \in Nat /\ Len(Tail(need)) = Len(need) - 1
      /\ \A i \in 1 .. Len(Tail(need)) : Tail(need)[i] = need[i + 1]
      /\ DOMAIN need = 1 .. Len(need) /\ DOMAIN Tail(need) = 1 .. Len(Tail(need))
  BY <1>2
<1>4. f \in Frame /\ f.dir = top.dir /\ f.needed = Tail(need)
  BY <1>2, <1>3 DEF Frame
<1> DEFINE frames == FramesLeft
<1>5. frames = <<f>> \o rest
  BY DEF FramesLeft, need
<1> HIDE DEF f, top, rest, frames
<1>6. frames \in Seq(Frame)
  BY <1>1, <1>4, <1>5, FrameOnTop
<1>7. /\ \A e \in DOMAIN f.needed : Pending(frames, f.dir, f.needed[e])
      /\ \A dir, name : Pending(rest, dir, name) => Pending(frames, dir, name)
  BY <1>1, <1>4, <1>5, PendingOnTop
<1>8. ASSUME NEW dir, NEW name, Pending(stack, dir, name)
      PROVE  Pending(frames, dir, name) \/ (dir = top.dir /\ name = Head(need))
  <2>1. PICK s \in DOMAIN stack :
            stack[s].dir = dir /\ \E e \in DOMAIN stack[s].needed : stack[s].needed[e] = name
    BY <1>8 DEF Pending
  <2>2. CASE s = 1
    <3>1. PICK e \in DOMAIN need : need[e] = name
      BY <2>1, <2>2 DEF top, need
    <3>2. dir = top.dir
      BY <2>1, <2>2 DEF top
    <3>3. CASE e = 1
      BY <1>3, <3>1, <3>2, <3>3
    <3>4. CASE e # 1
      <4>1. e - 1 \in 1 .. Len(Tail(need)) /\ e - 1 + 1 = e
        BY <1>3, <3>4
      <4>2. Tail(need)[e - 1] = name /\ e - 1 \in DOMAIN Tail(need)
        BY <1>3, <3>1, <4>1
      <4> QED
        BY <1>4, <1>7, <3>2, <4>2
    <3> QED
      BY <3>3, <3>4
  <2>3. CASE s # 1
    <3>1. s - 1 \in 1 .. Len(rest) /\ s - 1 + 1 = s
      BY <1>1, <2>3
    <3>2. rest[s - 1] = stack[s] /\ s - 1 \in DOMAIN rest
      BY <1>1, <3>1
    <3>3. Pending(rest, dir, name)
      BY <2>1, <3>2 DEF Pending
    <3> QED
      BY <1>7, <3>3
  <2> QED
    BY <2>2, <2>3
<1> QED
  BY <1>2, <1>3, <1>6, <1>8 DEF top, need, frames

\* load_module finds a dependency that is on disk, under its name.
LEMMA DependencyFound ==
    ASSUME NEW dir, NEW name
    PROVE  /\ NameOf(DependencyPath(dir, name)) = name
           /\ OnDisk(disk, dir, name) => DependencyPath(dir, name) \in DOMAIN disk
<1> DEFINE here == <<dir, name>>
           below == <<dir \o <<"sce_module">>, name>>
<1>1. Candidates(dir, name)[1] = here /\ Candidates(dir, name)[2] = below
  BY DEF Candidates
<1>2. NameOf(here) = name /\ NameOf(below) = name
  BY DEF NameOf
<1> HIDE DEF here, below
<1>3. /\ 1 \in Found(dir, name) <=> here \in DOMAIN disk
      /\ OnDisk(disk, dir, name) => here \in DOMAIN disk \/ below \in DOMAIN disk
  <2>1. 1 \in Found(dir, name) <=> here \in DOMAIN disk
    BY <1>1 DEF Found
  <2>2. \A c \in 1 .. 2 : c = 1 \/ c = 2
    OBVIOUS
  <2>3. OnDisk(disk, dir, name) => here \in DOMAIN disk \/ below \in DOMAIN disk
    BY <1>1, <2>2 DEF OnDisk
  <2> QED
    BY <2>1, <2>3
<1>4. DependencyPath(dir, name) = IF here \in DOMAIN disk THEN here ELSE below
  BY <1>1, <1>3 DEF DependencyPath
<1> QED
  BY <1>2, <1>3, <1>4

LEMMA LoadDependencyKeeps ==
    ASSUME LoadInv, LoadDependency
    PROVE  LoadInv'
<1> DEFINE top == stack[1]
           name == Head(top.needed)
           path == DependencyPath(top.dir, name)
           frames == FramesLeft
<1>1. /\ phase = "load" /\ phase' = "load" /\ disk' = disk
      /\ stack \in Seq(Frame) /\ stack # <<>> /\ top.needed # <<>> /\ failed \subseteq DOMAIN disk
  BY DEF LoadDependency, LoadInv, LoadTypes
<1>2. /\ \/ path \notin DOMAIN disk /\ stack' = frames /\ UNCHANGED <<modules, max_tls_index, failed>>
         \/ /\ path \in DOMAIN disk /\ IsLoaded(path) /\ stack' = frames
            /\ UNCHANGED <<modules, max_tls_index, failed>>
         \/ path \in DOMAIN disk /\ ~IsLoaded(path) /\ Loads(path, frames)
         \/ /\ path \in DOMAIN disk /\ failed' = failed \cup {path} /\ stack' = frames
            /\ UNCHANGED <<modules, max_tls_index>>
  BY DEF LoadDependency, FramesLeft
<1>3. /\ frames \in Seq(Frame)
      /\ \A d, n : Pending(stack, d, n) => Pending(frames, d, n) \/ (d = top.dir /\ n = name)
  BY <1>1, DependencyTaken
<1>4. NameOf(path) = name /\ (OnDisk(disk, top.dir, name) => path \in DOMAIN disk)
  BY DependencyFound
<1>5. modules # <<>>
  BY <1>1 DEF LoadInv, PhaseInv
<1> HIDE DEF name, path, frames, top
<1>6. modules' # <<>> => PhaseInv'
  BY <1>1 DEF PhaseInv, Linked
<1>7. CASE path \notin DOMAIN disk /\ stack' = frames /\ UNCHANGED <<modules, max_tls_index, failed>>
  BY <1>1, <1>3, <1>4, <1>5, <1>6, <1>7, NoLoadKeeps
<1>8. CASE /\ path \in DOMAIN disk /\ IsLoaded(path) /\ stack' = frames
           /\ UNCHANGED <<modules, max_tls_index, failed>>
  <2>1. Settled(name)
    BY <1>4, <1>8 DEF IsLoaded, Settled
  <2> QED
    BY <1>1, <1>3, <1>5, <1>6, <1>8, <2>1, NoLoadKeeps
<1>9. CASE /\ path \in DOMAIN disk /\ failed' = failed \cup {path} /\ stack' = frames
           /\ UNCHANGED <<modules, max_tls_index>>
  <2>1. path \in failed' /\ NameOf(path) = name /\ failed' \subseteq DOMAIN disk
    BY <1>1, <1>4, <1>9
  <2> QED
    BY <1>1, <1>3, <1>5, <1>6, <1>9, <2>1, NoLoadKeeps
<1>10. CASE path \in DOMAIN disk /\ ~IsLoaded(path) /\ Loads(path, frames)
  <2>1. LoadTypes' /\ TlsIndicesDense'
    BY <1>1, <1>3, <1>10, LoadKeepsTypes, LoadKeepsTls
  <2>2. Unique'
    BY <1>3, <1>5, <1>10, LoadKeepsUnique
  <2>3. NothingSkipped'
    BY <1>1, <1>3, <1>4, <1>10, LoadKeepsDependencies
  <2>4. modules' # <<>>
    <3>1. Len(modules') = Len(modules) + 1 /\ Len(modules) \in Nat
      BY <1>3, <1>10, ModulesAfterLoad
    <3> QED
      BY <3>1
  <2> QED
    BY <1>6, <2>1, <2>2, <2>3, <2>4 DEF LoadInv
<1> QED
  BY <1>2, <1>7, <1>8, <1>9, <1>10

LEMMA LoadReturnsKeeps ==
    ASSUME LoadInv, LoadReturns
    PROVE  LoadInv'
<1> DEFINE rest == Tail(stack)
<1>1. /\ phase = "load" /\ UNCHANGED <<disk, modules, max_tls_index, failed>> /\ stack' = rest
      /\ phase' = IF Len(stack) = 1 THEN "relocate" ELSE "load"
      /\ stack \in Seq(Frame) /\ stack # <<>> /\ stack[1].needed = <<>> /\ failed \subseteq DOMAIN disk
  BY DEF LoadReturns, LoadInv, LoadTypes
<1>2. /\ rest \in Seq(Frame) /\ Len(stack) \in Nat /\ Len(rest) = Len(stack) - 1
      /\ \A i \in 1 .. Len(rest) : rest[i] = stack[i + 1]
      /\ DOMAIN stack = 1 .. Len(stack) /\ DOMAIN rest = 1 .. Len(rest)
      /\ Len(stack) = 1 => rest = <<>>
  BY <1>1
<1> HIDE DEF rest
<1>3. PhaseInv'
  BY <1>1, <1>2 DEF LoadInv, PhaseInv, Linked
<1>4. ASSUME NEW dir, NEW name, Pending(stack, dir, name)
      PROVE  Pending(rest, dir, name)
  <2>1. PICK s \in DOMAIN stack :
            stack[s].dir = dir /\ \E e \in DOMAIN stack[s].needed : stack[s].needed[e] = name
    BY <1>4 DEF Pending
  <2>2. s # 1
    BY <1>1, <2>1
  <2>3. s - 1 \in 1 .. Len(rest) /\ s - 1 + 1 = s
    BY <1>2, <2>2
  <2>4. rest[s - 1] = stack[s] /\ s - 1 \in DOMAIN rest
    BY <1>2, <2>3
  <2> QED
    BY <2>1, <2>4 DEF Pending
<1> QED
  BY <1>1, <1>2, <1>3, <1>4, NoLoadKeeps

-----------------------------------------------------------------------------
(* Registration and relocation. *)

LEMMA RegisterKeepsStubs ==
    ASSUME StubInv, RegisterStub
    PROVE  StubInv'
<1> DEFINE D == DOMAIN hle_symbols
           c == Cardinality(D)
           name == HleNames[c + 1]
           new == allocate_stub(names, Plain(name))
           addr == next_stub(names)
<1>1. /\ c < Len(HleNames) /\ names' = new
      /\ hle_symbols' = [n \in D \cup {name} |-> IF n = name THEN addr ELSE hle_symbols[n]]
  BY DEF RegisterStub
<1>2. IsFiniteSet(D) /\ c \in Nat
  BY FS_CardinalityType DEF StubInv
<1>3. name \in STRING
  <2>1. HleNames \in Seq(STRING) /\ Len(HleNames) \in Nat
    BY LinkerAssumption
  <2> HIDE DEF c
  <2>2. c + 1 \in 1 .. Len(HleNames)
    BY <1>1, <1>2, <2>1
  <2> QED
    BY <2>1, <2>2
<1>4. Plain(name) \in Name
  BY <1>3 DEF Name
<1>5. /\ new \in Seq(Name) /\ Len(new) <= MAX_STUBS /\ addr \in Nat
      /\ Traps(new, addr, Plain(name))
  BY <1>4, StubAllocated DEF StubInv
<1>6. \A n \in D : hle_symbols[n] \in Nat /\ Traps(new, hle_symbols[n], Plain(n))
  BY <1>4, TrapsKept DEF StubInv
<1>7. IsFiniteSet(D \cup {name})
  BY <1>2, FS_AddElement
<1> HIDE DEF D, name, new, addr
<1>8. /\ DOMAIN hle_symbols' = D \cup {name}
      /\ \A n \in D \cup {name} :
            hle_symbols'[n] \in Nat /\ Traps(names', hle_symbols'[n], Plain(n))
  BY <1>1, <1>5, <1>6
<1>9. hle_symbols' \in [DOMAIN hle_symbols' -> Nat]
  BY <1>1, <1>8
<1> QED
  BY <1>1, <1>5, <1>7, <1>8, <1>9 DEF StubInv, Traps, Plain

\* The symbolic relocations that store the bare address of an import.
Import(rel) == Symbolic(rel) /\ ~Unnamed(rel.symbol) /\ rel.addend = 0

\* No other relocation has stored where w has.
OnlyOne(w) == \A v \in wrote : v[3] = w[3] => v[1] = w[1] /\ v[2] = w[2]

\* A store is where its relocation says.
WroteInv ==
    \A w \in wrote :
        /\ w[1] \in DOMAIN modules /\ w[2] \in DOMAIN Relocs(w[1])
        /\ w[3] = target_addr(w[1], Relocs(w[1])[w[2]])
        /\ w[3] \in DOMAIN image

\* An import that nothing overwrote has the stub of its function.
FilledInv ==
    \A w \in wrote :
        Import(Relocs(w[1])[w[2]]) /\ OnlyOne(w) =>
            Traps(names, image[w[3]], Expected(Relocs(w[1])[w[2]].symbol))

\* The relocations before the one at hand have been applied.
AppliedInv ==
    \A k \in DOMAIN modules : \A j \in DOMAIN Relocs(k) :
        (k < at[1] \/ (k = at[1] /\ j < at[2])) /\ Symbolic(Relocs(k)[j]) =>
            <<k, j, target_addr(k, Relocs(k)[j])>> \in wrote

RelocTypes ==
    /\ at \in Nat \X Nat /\ at[1] > 0 /\ at[2] > 0
    /\ image \in [DOMAIN image -> Int]
    /\ ~Linked => wrote = {} /\ at = <<1, 1>>
    /\ phase = "done" => at[1] > Len(modules)

RelocInv == RelocTypes /\ WroteInv /\ FilledInv /\ AppliedInv

\* The parts of FilledInv depend on the modules, the stubs and the names only.
LEMMA FilledParts ==
    ASSUME UNCHANGED <<disk, modules, hle_symbols>>
    PROVE  /\ \A k : Relocs(k)' = Relocs(k)
           /\ \A sym : Expected(sym)' = Expected(sym)
<1>1. \A k : Relocs(k)' = Relocs(k)
  BY DEF Relocs
<1>2. \A sym : Expected(sym)' = Expected(sym)
  BY DEF Expected, Resolved, Plain
<1> QED
  BY <1>1, <1>2, Zenon

LEMMA FilledUnchanged ==
    ASSUME FilledInv, UNCHANGED <<disk, modules, hle_symbols, names, image, wrote>>
    PROVE  FilledInv'
<1>1. /\ \A k : Relocs(k)' = Relocs(k)
      /\ \A sym : Expected(sym)' = Expected(sym)
  BY FilledParts
<1>2. SUFFICES ASSUME NEW w \in wrote, Import(Relocs(w[1])[w[2]]), OnlyOne(w)
               PROVE  Traps(names, image[w[3]], Expected(Relocs(w[1])[w[2]].symbol))
  BY <1>1 DEF FilledInv, OnlyOne, Traps
<1> QED
  BY <1>2, Zenon DEF FilledInv

LinkInv == StubInv /\ LoadInv /\ RelocInv

\* What a relocation is.
LEMMA RelocationTypes ==
    ASSUME LoadTypes, NEW k \in DOMAIN modules, NEW j \in DOMAIN Relocs(k)
    PROVE  /\ Relocs(k)[j] \in ParsedRelocation
           /\ Relocs(k)[j].offset \in Nat /\ Relocs(k)[j].addend \in Int
           /\ Relocs(k)[j].symbol \in Symbol
           /\ modules[k].base \in Nat
           /\ target_addr(k, Relocs(k)[j]) \in Nat
<1>1. modules[k] \in ModuleEntry /\ modules[k].path \in DOMAIN disk
  BY DEF LoadTypes
<1>2. Relocs(k) \in Seq(ParsedRelocation)
  BY <1>1, DiskTypes DEF LoadTypes, Relocs
<1>3. Relocs(k)[j] \in ParsedRelocation
  BY <1>2
<1>4. /\ Relocs(k)[j].offset \in Nat /\ Relocs(k)[j].addend \in Int
      /\ Relocs(k)[j].symbol \in Symbol
  BY <1>3 DEF ParsedRelocation
<1>5. modules[k].base \in Nat
  BY <1>1 DEF ModuleEntry
<1> QED
  BY <1>3, <1>4, <1>5 DEF target_addr

\* Nothing has been stored before relocate_all.
LEMMA NothingStored ==
    ASSUME RelocInv, LoadTypes', wrote' = {}, at' = <<1, 1>>, image' = image, phase' # "done"
    PROVE  RelocInv'
<1>1. RelocTypes'
  BY DEF RelocInv, RelocTypes
<1>2. WroteInv' /\ FilledInv'
  BY DEF WroteInv, FilledInv
<1>3. AppliedInv'
  <2>1. SUFFICES ASSUME NEW k \in DOMAIN modules', NEW j \in DOMAIN Relocs(k)',
                        k < 1 \/ (k = 1 /\ j < 1)
                 PROVE  FALSE
    BY DEF AppliedInv
  <2>2. DOMAIN modules' = 1 .. Len(modules') /\ Len(modules') \in Nat
    BY DEF LoadTypes
  <2>3. k \in Nat /\ k > 0
    BY <2>2
  <2>4. modules'[k].path \in DOMAIN disk' /\ disk' \in Disks
    BY DEF LoadTypes
  <2>5. disk'[modules'[k].path].relocs \in Seq(ParsedRelocation)
    BY <2>4, LinkerAssumption
  <2>6. j \in DOMAIN disk'[modules'[k].path].relocs
    BY DEF Relocs
  <2>7. j \in Nat /\ j > 0
    BY <2>5, <2>6
  <2> QED
    BY <2>1, <2>3, <2>7
<1> QED
  BY <1>1, <1>2, <1>3 DEF RelocInv

\* A store fills the slot of its own relocation and of no other one that counts.
LEMMA StoreKeeps ==
    ASSUME LinkInv, UNCHANGED <<disk, modules, hle_symbols>>,
           NEW k \in DOMAIN modules, NEW j \in DOMAIN Relocs(k), NEW value \in Int,
           Stores(k, j, target_addr(k, Relocs(k)[j]), value),
           \A a, name : Traps(names, a, name) => Traps(names', a, name),
           Import(Relocs(k)[j]) => Traps(names', value, Expected(Relocs(k)[j].symbol))
    PROVE  /\ image' \in [DOMAIN image' -> Int] /\ WroteInv' /\ FilledInv'
           /\ wrote \subseteq wrote' /\ <<k, j, target_addr(k, Relocs(k)[j])>> \in wrote'
<1> DEFINE addr == target_addr(k, Relocs(k)[j])
           new == <<k, j, addr>>
<1>1. /\ image' = [a \in DOMAIN image \cup {addr} |-> IF a = addr THEN value ELSE image[a]]
      /\ wrote' = wrote \cup {new}
  BY DEF Stores
<1>2. new[1] = k /\ new[2] = j /\ new[3] = addr
  OBVIOUS
<1>3. image \in [DOMAIN image -> Int] /\ WroteInv /\ FilledInv
  BY DEF LinkInv, RelocInv, RelocTypes
<1>4. /\ \A l : Relocs(l)' = Relocs(l)
      /\ \A l, rel : target_addr(l, rel)' = target_addr(l, rel)
      /\ \A sym : Expected(sym)' = Expected(sym)
  BY DEF Relocs, target_addr, Expected, Resolved
<1> HIDE DEF addr, new
<1>5. /\ image' \in [DOMAIN image' -> Int] /\ DOMAIN image' = DOMAIN image \cup {addr}
      /\ image'[addr] = value /\ \A a \in DOMAIN image : a # addr => image'[a] = image[a]
  BY <1>1, <1>3
<1>6. WroteInv'
  <2>1. SUFFICES ASSUME NEW w \in wrote'
                 PROVE  /\ w[1] \in DOMAIN modules /\ w[2] \in DOMAIN Relocs(w[1])
                        /\ w[3] = target_addr(w[1], Relocs(w[1])[w[2]])
                        /\ w[3] \in DOMAIN image'
    BY DEF WroteInv, Relocs, target_addr
  <2>2. CASE w \in wrote
    BY <1>3, <1>5, <2>2 DEF WroteInv
  <2>3. CASE w = new
    BY <1>2, <1>5, <2>3 DEF addr
  <2> QED
    BY <1>1, <2>2, <2>3
<1>7. FilledInv'
  <2>1. SUFFICES ASSUME NEW w \in wrote', Import(Relocs(w[1])[w[2]]),
                        \A v \in wrote' : v[3] = w[3] => v[1] = w[1] /\ v[2] = w[2]
                 PROVE  Traps(names', image'[w[3]], Expected(Relocs(w[1])[w[2]].symbol))
    <3>1. /\ \A i : Relocs(i)' = Relocs(i)
          /\ \A s : Expected(s)' = Expected(s)
      BY FilledParts
    <3> QED
      BY <3>1 DEF FilledInv, OnlyOne, Traps
  <2>2. CASE w[3] = addr
    <3>1. w[1] = k /\ w[2] = j
      BY <1>1, <1>2, <2>1, <2>2
    <3> QED
      BY <1>5, <2>1, <2>2, <3>1
  <2>3. CASE w[3] # addr
    <3>1. w \in wrote
      BY <1>1, <1>2, <2>1, <2>3
    <3>2. OnlyOne(w)
      BY <1>1, <2>1 DEF OnlyOne
    <3>3. Traps(names, image[w[3]], Expected(Relocs(w[1])[w[2]].symbol))
      BY <1>3, <2>1, <3>1, <3>2 DEF FilledInv
    <3>4. image'[w[3]] = image[w[3]]
      BY <1>3, <1>5, <2>3, <3>1 DEF WroteInv
    <3> QED
      BY <3>3, <3>4
  <2> QED
    BY <2>2, <2>3
<1> QED
  BY <1>1, <1>5, <1>6, <1>7 DEF addr, new

\* The stub of an unresolved import gets the name the dispatcher has to see.
LEMMA StubNameType ==
    ASSUME NEW sym \in Symbol
    PROVE  StubName(sym) \in Name /\ (~Resolved(sym) => Expected(sym) = StubName(sym))
<1>1. StubName(sym) \in Name
  BY LinkerAssumption DEF StubName, Name
<1>2. ~Resolved(sym) => Expected(sym) = StubName(sym)
  BY DEF Expected, StubName
<1> QED
  BY <1>1, <1>2

\* Whatever its type, a relocation leaves the stubs and the slots as they should be.
LEMMA ApplyKeeps ==
    ASSUME LinkInv, UNCHANGED <<disk, modules, hle_symbols>>,
           NEW k \in DOMAIN modules, NEW j \in DOMAIN Relocs(k),
           apply_relocation(k, j, Relocs(k)[j])
    PROVE  /\ StubInv'
           /\ image' \in [DOMAIN image' -> Int] /\ WroteInv' /\ FilledInv'
           /\ wrote \subseteq wrote'
           /\ Symbolic(Relocs(k)[j]) => <<k, j, target_addr(k, Relocs(k)[j])>> \in wrote'
<1> DEFINE rel == Relocs(k)[j]
           addr == target_addr(k, rel)
           sym == rel.symbol
           Kept == \A a, name : Traps(names, a, name) => Traps(names', a, name)
           Goal == /\ StubInv'
                   /\ image' \in [DOMAIN image' -> Int] /\ WroteInv' /\ FilledInv'
                   /\ wrote \subseteq wrote'
                   /\ Symbolic(rel) => <<k, j, addr>> \in wrote'
<1> SUFFICES Goal
  OBVIOUS
<1>1. /\ rel \in ParsedRelocation /\ rel.addend \in Int /\ sym \in Symbol /\ modules[k].base \in Nat
      /\ StubInv
  BY RelocationTypes DEF LinkInv, LoadInv
<1>2. /\ names \in Seq(Name) /\ Len(names) <= MAX_STUBS /\ hle_symbols \in [DOMAIN hle_symbols -> Nat]
      /\ \A n \in DOMAIN hle_symbols : Traps(names, hle_symbols[n], Plain(n))
  BY <1>1 DEF StubInv
<1>3. names' = names => Kept /\ StubInv'
  BY <1>1 DEF StubInv, Traps, Plain
<1>4. ASSUME NEW value \in Int, Stores(k, j, addr, value), Kept, StubInv',
             Import(rel) => Traps(names', value, Expected(sym))
      PROVE  Goal
  BY <1>4, StoreKeeps
<1>5. CASE /\ rel.rel_type = "RELATIVE" /\ Stores(k, j, addr, modules[k].base + rel.addend)
           /\ UNCHANGED names
  <2>1. modules[k].base + rel.addend \in Int /\ ~Import(rel)
    BY <1>1, <1>5 DEF Import, Symbolic
  <2> HIDE DEF rel, addr, sym, Kept, Goal
  <2> QED
    BY <1>3, <1>4, <1>5, <2>1
<1>6. CASE /\ Symbolic(rel) /\ NeedsStub(rel) /\ Stores(k, j, addr, next_stub(names) + rel.addend)
           /\ names' = allocate_stub(names, StubName(sym))
  <2> DEFINE new == StubName(sym)
  <2>1. new \in Name /\ Expected(sym) = new
    BY <1>1, <1>6, StubNameType DEF NeedsStub
  <2>2. /\ allocate_stub(names, new) \in Seq(Name) /\ Len(allocate_stub(names, new)) <= MAX_STUBS
        /\ next_stub(names) \in Nat /\ Traps(allocate_stub(names, new), next_stub(names), new)
    BY <1>2, <2>1, StubAllocated
  <2>3. Kept
    BY <1>2, <1>6, <2>1, TrapsKept
  <2>4. StubInv'
    <3>1. IsFiniteSet(DOMAIN hle_symbols)
      BY <1>1 DEF StubInv
    <3>2. \A n \in DOMAIN hle_symbols : Traps(names', hle_symbols[n], Plain(n))
      BY <1>2, <2>3
    <3> QED
      BY <1>2, <1>6, <2>2, <3>1, <3>2 DEF StubInv, Traps, Plain
  <2>5. /\ next_stub(names) + rel.addend \in Int
        /\ Import(rel) => next_stub(names) + rel.addend = next_stub(names)
    <3> DEFINE x == rel.addend
               r == next_stub(names)
    <3>1. x \in Int /\ r \in Nat /\ (Import(rel) => x = 0)
      BY <1>1, <2>2 DEF Import
    <3> HIDE DEF x, r
    <3>2. r + x \in Int /\ (Import(rel) => r + x = r)
      BY <3>1
    <3> QED
      BY <3>2 DEF x, r
  <2>6. Import(rel) => Traps(names', next_stub(names) + rel.addend, Expected(sym))
    BY <1>6, <2>1, <2>2, <2>5
  <2> HIDE DEF rel, addr, sym, Kept, Goal
  <2> QED
    BY <1>4, <1>6, <2>3, <2>4, <2>5, <2>6
<1>7. CASE /\ Symbolic(rel) /\ ~NeedsStub(rel) /\ Stores(k, j, addr, resolve(sym) + rel.addend)
           /\ UNCHANGED names
  <2>1. resolve(sym) \in Nat
    BY <1>2 DEF resolve, Resolved
  <2>2. /\ resolve(sym) + rel.addend \in Int
        /\ Import(rel) => resolve(sym) + rel.addend = resolve(sym)
    <3> DEFINE x == rel.addend
               r == resolve(sym)
    <3>1. x \in Int /\ r \in Nat /\ (Import(rel) => x = 0)
      BY <1>1, <2>1 DEF Import
    <3> HIDE DEF x, r
    <3>2. r + x \in Int /\ (Import(rel) => r + x = r)
      BY <3>1
    <3> QED
      BY <3>2 DEF x, r
  <2>3. Import(rel) => Resolved(sym)
    BY <1>7 DEF Import, NeedsStub
  <2>4. Resolved(sym) => Traps(names, resolve(sym), Plain(sym.nid)) /\ Expected(sym) = Plain(sym.nid)
    BY <1>2 DEF Resolved, resolve, Expected
  <2>5. Import(rel) => Traps(names', resolve(sym) + rel.addend, Expected(sym))
    BY <1>7, <2>2, <2>3, <2>4
  <2> HIDE DEF rel, addr, sym, Kept, Goal
  <2> QED
    BY <1>3, <1>4, <1>7, <2>2, <2>5
<1>8. CASE rel.rel_type = "DTPMOD64" /\ Stores(k, j, addr, 1) /\ UNCHANGED names
  <2>1. 1 \in Int /\ ~Import(rel)
    BY <1>8 DEF Import, Symbolic
  <2> HIDE DEF rel, addr, sym, Kept, Goal
  <2> QED
    BY <1>3, <1>4, <1>8, <2>1
<1>9. CASE rel.rel_type = "other" /\ UNCHANGED <<image, wrote, names>>
  <2>1. ~Symbolic(rel)
    BY <1>9 DEF Symbolic
  <2>2. image \in [DOMAIN image -> Int] /\ WroteInv /\ FilledInv
    BY DEF LinkInv, RelocInv, RelocTypes
  <2>3. WroteInv'
    BY <1>9, <2>2 DEF WroteInv, Relocs, target_addr
  <2>4. FilledInv'
    BY <1>1, <1>9, <2>2, FilledUnchanged
  <2>5. StubInv'
    BY <1>3, <1>9
  <2> QED
    BY <1>9, <2>1, <2>2, <2>3, <2>4, <2>5
<1> QED
  BY <1>5, <1>6, <1>7, <1>8, <1>9 DEF apply_relocation

LEMMA RelocateKeeps ==
    ASSUME LinkInv, Relocate
    PROVE  LinkInv'
<1> DEFINE k == at[1]
           j == at[2]
<1>1. /\ phase = "relocate" /\ k <= Len(modules) /\ j <= Len(Relocs(k))
      /\ apply_relocation(k, j, Relocs(k)[j]) /\ at' = <<k, j + 1>>
      /\ UNCHANGED <<disk, phase, hle_symbols, loading, modules>>
  BY DEF Relocate, loading
<1>2. k \in Nat /\ j \in Nat /\ k > 0 /\ j > 0 /\ AppliedInv /\ LoadTypes
  BY DEF LinkInv, LoadInv, RelocInv, RelocTypes
<1>3. k \in DOMAIN modules
  <2>1. DOMAIN modules = 1 .. Len(modules) /\ Len(modules) \in Nat
    BY <1>2 DEF LoadTypes
  <2> QED
    BY <1>1, <1>2, <2>1
<1>4. j \in DOMAIN Relocs(k)
  <2>1. modules[k].path \in DOMAIN disk
    BY <1>2, <1>3 DEF LoadTypes
  <2>2. Relocs(k) \in Seq(ParsedRelocation)
    BY <1>2, <2>1, DiskTypes DEF LoadTypes, Relocs
  <2>3. DOMAIN Relocs(k) = 1 .. Len(Relocs(k)) /\ Len(Relocs(k)) \in Nat
    BY <2>2
  <2> QED
    BY <1>1, <1>2, <2>3
<1>5. /\ StubInv' /\ image' \in [DOMAIN image' -> Int] /\ WroteInv' /\ FilledInv'
      /\ wrote \subseteq wrote'
      /\ Symbolic(Relocs(k)[j]) => <<k, j, target_addr(k, Relocs(k)[j])>> \in wrote'
  BY <1>1, <1>3, <1>4, ApplyKeeps
<1>6. at'[1] = k /\ at'[2] = j + 1 /\ at' \in Nat \X Nat
  BY <1>1, <1>2
<1>7. RelocTypes'
  <2>1. at'[1] > 0 /\ at'[2] > 0
    BY <1>2, <1>6
  <2>2. Linked' /\ phase' # "done"
    BY <1>1 DEF Linked
  <2> QED
    BY <1>5, <1>6, <2>1, <2>2 DEF RelocTypes
<1>8. AppliedInv'
  <2>1. SUFFICES ASSUME NEW l \in DOMAIN modules, NEW i \in DOMAIN Relocs(l),
                        l < k \/ (l = k /\ i < j + 1), Symbolic(Relocs(l)[i])
                 PROVE  <<l, i, target_addr(l, Relocs(l)[i])>> \in wrote'
    BY <1>1, <1>6 DEF AppliedInv, Relocs, target_addr
  <2>2. l < k \/ (l = k /\ i < j) \/ (l = k /\ i = j)
    <3>1. l = k => i \in Nat
      <4>1. modules[l].path \in DOMAIN disk
        BY <1>2 DEF LoadTypes
      <4>2. Relocs(l) \in Seq(ParsedRelocation)
        BY <1>2, <4>1, DiskTypes DEF LoadTypes, Relocs
      <4> QED
        BY <4>2
    <3> HIDE DEF k, j
    <3> QED
      BY <1>2, <2>1, <3>1
  <2>3. CASE l < k \/ (l = k /\ i < j)
    BY <1>2, <1>5, <2>1, <2>3 DEF AppliedInv
  <2>4. CASE l = k /\ i = j
    <3> HIDE DEF k, j
    <3> QED
      BY <1>5, <2>1, <2>4
  <2> QED
    BY <2>2, <2>3, <2>4
<1>9. LoadInv'
  <2>1. PhaseInv'
    BY <1>1 DEF LinkInv, LoadInv, PhaseInv, Linked, loading
  <2> QED
    BY <1>1, <2>1, LoadingUnchanged DEF LinkInv
<1> QED
  BY <1>5, <1>7, <1>8, <1>9 DEF LinkInv, RelocInv

\* The slots stay as they are when the next module is taken up.
LEMMA NextModuleKeeps ==
    ASSUME LinkInv, RelocateNextModule
    PROVE  LinkInv'
<1> DEFINE k == at[1]
           j == at[2]
<1>1. /\ phase = "relocate" /\ k <= Len(modules) /\ j > Len(Relocs(k)) /\ at' = <<k + 1, 1>>
      /\ phase' = IF k + 1 > Len(modules) THEN "done" ELSE "relocate"
      /\ UNCHANGED <<disk, names, hle_symbols, loading, modules, image, wrote>>
  BY DEF RelocateNextModule, NextModule, loading
<1>2. /\ k \in Nat /\ j \in Nat /\ k > 0 /\ j > 0 /\ AppliedInv /\ LoadTypes
      /\ image \in [DOMAIN image -> Int] /\ WroteInv /\ FilledInv /\ StubInv
  BY DEF LinkInv, LoadInv, RelocInv, RelocTypes
<1>3. at'[1] = k + 1 /\ at'[2] = 1 /\ at' \in Nat \X Nat /\ at'[1] > 0
  BY <1>1, <1>2
<1>4. RelocTypes'
  BY <1>1, <1>2, <1>3 DEF RelocTypes, Linked
<1>5. StubInv'
  BY <1>1, <1>2 DEF StubInv, Traps, Plain
<1>6. WroteInv'
  BY <1>1, <1>2 DEF WroteInv, Relocs, target_addr
<1>7. FilledInv'
  BY <1>1, <1>2, FilledUnchanged
<1>8. AppliedInv'
  <2>1. SUFFICES ASSUME NEW l \in DOMAIN modules, NEW i \in DOMAIN Relocs(l),
                        l < k + 1 \/ (l = k + 1 /\ i < 1), Symbolic(Relocs(l)[i])
                 PROVE  <<l, i, target_addr(l, Relocs(l)[i])>> \in wrote
    BY <1>1, <1>3 DEF AppliedInv, Relocs, target_addr
  <2>2. l \in Nat /\ i \in Nat /\ i > 0 /\ i <= Len(Relocs(l)) /\ Len(Relocs(l)) \in Nat
    <3>1. modules[l].path \in DOMAIN disk /\ l \in Nat
      BY <1>2 DEF LoadTypes
    <3>2. Relocs(l) \in Seq(ParsedRelocation)
      BY <1>2, <3>1, DiskTypes DEF LoadTypes, Relocs
    <3> QED
      BY <3>1, <3>2
  <2>3. l = k => i < j
    BY <1>1, <1>2, <2>2
  <2>4. l < k \/ (l = k /\ i < j)
    <3> HIDE DEF k, j
    <3> QED
      BY <1>2, <2>1, <2>2, <2>3
  <2> QED
    BY <1>2, <2>1, <2>4 DEF AppliedInv
<1>9. LoadInv'
  <2>1. PhaseInv'
    BY <1>1 DEF LinkInv, LoadInv, PhaseInv, Linked, loading
  <2> QED
    BY <1>1, <2>1, LoadingUnchanged DEF LinkInv
<1> QED
  BY <1>4, <1>5, <1>6, <1>7, <1>8, <1>9 DEF LinkInv, RelocInv

\* Every step keeps the invariant.
LEMMA LinkKeeps ==
    ASSUME LinkInv, [Next]_vars
    PROVE  LinkInv'
<1>1. StubInv /\ LoadInv /\ RelocInv
  BY DEF LinkInv
<1>2. CASE RegisterStub
  <2>1. phase = "register" /\ UNCHANGED <<disk, phase, loading, relocating>>
    BY <1>2 DEF RegisterStub
  <2>2. PhaseInv'
    BY <1>1, <2>1 DEF LoadInv, PhaseInv, Linked, loading
  <2>3. LoadInv'
    BY <1>1, <2>1, <2>2, LoadingUnchanged
  <2>4. wrote = {} /\ at = <<1, 1>>
    BY <1>1, <2>1 DEF RelocInv, RelocTypes, Linked
  <2>5. RelocInv'
    BY <1>1, <2>1, <2>3, <2>4, NothingStored DEF relocating, LoadInv
  <2> QED
    BY <1>1, <1>2, <2>3, <2>5, RegisterKeepsStubs DEF LinkInv
<1>3. CASE LoadMain \/ LoadDependency \/ LoadReturns
  <2>1. /\ phase \in {"register", "load"} /\ phase' # "done"
        /\ UNCHANGED <<names, hle_symbols, at, image, wrote>>
    BY <1>3 DEF LoadMain, LoadDependency, LoadReturns, relocating
  <2>2. LoadInv'
    BY <1>1, <1>3, LoadMainKeeps, LoadDependencyKeeps, LoadReturnsKeeps
  <2>3. StubInv'
    BY <1>1, <2>1 DEF StubInv, Traps, Plain
  <2>4. wrote = {} /\ at = <<1, 1>>
    BY <1>1, <2>1 DEF RelocInv, RelocTypes, Linked
  <2>5. RelocInv'
    BY <1>1, <2>1, <2>2, <2>4, NothingStored DEF LoadInv
  <2> QED
    BY <2>2, <2>3, <2>5 DEF LinkInv
<1>4. CASE Relocate
  BY <1>4, RelocateKeeps
<1>5. CASE RelocateNextModule
  BY <1>5, NextModuleKeeps
<1>6. CASE UNCHANGED vars
  <2>1. UNCHANGED <<disk, phase, names, hle_symbols, modules, stack, max_tls_index, failed, at,
                    image, wrote>>
    BY <1>6 DEF vars
  <2>2. LoadInv'
    BY <1>1, <2>1, LoadingUnchanged DEF LoadInv, LoadTypes, PhaseInv, Linked, loading
  <2>3. StubInv' /\ RelocTypes' /\ WroteInv' /\ AppliedInv'
    BY <1>1, <2>1 DEF StubInv, Traps, Plain, RelocInv, RelocTypes, WroteInv, AppliedInv, Linked,
                      Relocs, target_addr
  <2>4. FilledInv'
    BY <1>1, <2>1, FilledUnchanged DEF RelocInv
  <2> QED
    BY <2>2, <2>3, <2>4 DEF LinkInv, RelocInv
<1> QED
  BY <1>2, <1>3, <1>4, <1>5, <1>6 DEF Next

LEMMA LinkInitHolds ==
    ASSUME Init
    PROVE  LinkInv
<1>1. /\ disk \in Disks /\ phase = "register" /\ names = <<>> /\ hle_symbols = [n \in {} |-> 0]
      /\ modules = <<>> /\ stack = <<>> /\ max_tls_index = 0 /\ failed = {} /\ at = <<1, 1>>
      /\ image = [a \in {} |-> 0] /\ wrote = {}
  BY DEF Init
<1>2. StubInv
  BY <1>1, FS_EmptySet, LinkerAssumption DEF StubInv
<1>3. LoadTypes /\ PhaseInv /\ Unique /\ NothingSkipped
  BY <1>1 DEF LoadTypes, PhaseInv, Linked, Unique, NothingSkipped
<1>4. TlsIndicesDense
  BY <1>1 DEF TlsIndicesDense
<1>5. RelocTypes /\ WroteInv /\ FilledInv /\ AppliedInv
  BY <1>1 DEF RelocTypes, WroteInv, FilledInv, AppliedInv, Linked
<1> QED
  BY <1>2, <1>3, <1>4, <1>5 DEF LinkInv, LoadInv, RelocInv

LEMMA LinkInvHolds == Spec => []LinkInv
<1>1. Init => LinkInv
  BY LinkInitHolds
<1>2. LinkInv /\ [Next]_vars => LinkInv'
  BY LinkKeeps
<1> QED
  BY <1>1, <1>2, PTL DEF Spec

-----------------------------------------------------------------------------
(* Theorems. *)

\* However files need each other, in circles too, load_module loads none twice, and
\* the executable is module 0.
THEOREM AlwaysLoadedOnce == Spec => []LoadedOnce
<1>1. LinkInv => LoadedOnce
  <2>1. SUFFICES ASSUME LinkInv PROVE LoadedOnce
    OBVIOUS
  <2>2. StubInv /\ LoadTypes /\ Unique /\ RelocTypes
    BY <2>1 DEF LinkInv, LoadInv, RelocInv
  <2>3. \A k \in DOMAIN modules :
            /\ modules[k].path \in DOMAIN disk /\ modules[k].base \in Nat
            /\ modules[k].tls_index \in 0 .. max_tls_index
    <3>1. SUFFICES ASSUME NEW k \in DOMAIN modules
                   PROVE  /\ modules[k].path \in DOMAIN disk /\ modules[k].base \in Nat
                          /\ modules[k].tls_index \in 0 .. max_tls_index
      OBVIOUS
    <3>2. modules[k] \in ModuleEntry /\ modules[k].path \in DOMAIN disk /\ max_tls_index \in Nat
          /\ modules[k].tls_index <= max_tls_index
      BY <2>2 DEF LoadTypes
    <3>3. modules[k].base \in Nat /\ modules[k].tls_index \in Nat
      BY <3>2 DEF ModuleEntry
    <3> QED
      BY <3>2, <3>3
  <2>4. TypeOK
    BY <2>2, <2>3 DEF TypeOK, StubInv, LoadTypes, RelocTypes
  <2> QED
    BY <2>2, <2>4 DEF LoadedOnce, Unique
<1> QED
  BY <1>1, LinkInvHolds, PTL

\* The depth first walk forgets no dependency that is on disk.
THEOREM DependenciesAlwaysLoaded == Spec => []DependenciesLoaded
<1>1. LinkInv => DependenciesLoaded
  <2>1. SUFFICES ASSUME LinkInv, Linked, NEW k \in DOMAIN modules,
                        NEW d \in DOMAIN disk[modules[k].path].needed,
                        Found(modules[k].path[1], disk[modules[k].path].needed[d]) # {}
                 PROVE  Settled(disk[modules[k].path].needed[d])
    BY DEF DependenciesLoaded, Settled
  <2>2. NothingSkipped /\ stack = <<>>
    BY <2>1 DEF LinkInv, LoadInv, PhaseInv
  <2>3. OnDisk(disk, modules[k].path[1], disk[modules[k].path].needed[d])
    BY <2>1 DEF Found, OnDisk
  <2>4. ~Pending(stack, modules[k].path[1], disk[modules[k].path].needed[d])
    BY <2>2 DEF Pending
  <2> QED
    BY <2>2, <2>3, <2>4 DEF NothingSkipped
<1> QED
  BY <1>1, LinkInvHolds, PTL

\* The TLS indices are 1, 2, ... up to the last one, each given to one module.
THEOREM TlsIndicesAlwaysDense == Spec => []TlsIndicesDense
<1>1. LinkInv => TlsIndicesDense
  BY DEF LinkInv, LoadInv
<1> QED
  BY <1>1, LinkInvHolds, PTL

\* A call through any import traps in the stub of the function it names, for any
\* number of imports; in a full region it is null and never another one's stub.
THEOREM ImportsAlwaysDispatch == Spec => []ImportsDispatch
<1>1. LinkInv => ImportsDispatch
  <2>1. SUFFICES ASSUME LinkInv, phase = "done", NEW k \in AtZero, NEW j \in Final(k)
                 PROVE  LET addr == image[Slot(k, Relocs(k)[j])]
                        IN  \/ /\ is_stub(names, addr)
                               /\ get_stub_name(names, addr) = Expected(Relocs(k)[j].symbol)
                            \/ addr = 0 /\ Len(names) = MAX_STUBS
    BY DEF ImportsDispatch
  <2> DEFINE rel == Relocs(k)[j]
             addr == target_addr(k, rel)
             w == <<k, j, addr>>
  <2>0. k \in DOMAIN modules /\ j \in DOMAIN Relocs(k) /\ Slot(k, rel) = addr
    <3>1. k \in DOMAIN modules /\ j \in DOMAIN Relocs(k) /\ LoadTypes
      BY <2>1 DEF AtZero, Final, LinkInv, LoadInv
    <3>2. modules[k].base \in Nat /\ rel.offset \in Nat
      BY <3>1, RelocationTypes
    <3> QED
      BY <3>1, <3>2 DEF AtZero, Slot, target_addr
  <2>2. /\ j \in DOMAIN Relocs(k) /\ Import(rel)
        /\ \A v \in wrote : v[3] = addr => v[1] = k /\ v[2] = j
    BY <2>0 DEF Final, Import
  <2>3. /\ AppliedInv /\ FilledInv /\ names \in Seq(Name) /\ at[1] > Len(modules)
        /\ modules \in Seq(ModuleEntry) /\ at[1] \in Nat
    BY <2>1 DEF LinkInv, LoadInv, LoadTypes, StubInv, RelocInv, RelocTypes
  <2>4. k < at[1]
    BY <2>0, <2>3
  <2>5. w \in wrote
    BY <2>0, <2>2, <2>3, <2>4 DEF AppliedInv, Import
  <2>6. w[1] = k /\ w[2] = j /\ w[3] = addr
    OBVIOUS
  <2> HIDE DEF w, addr
  <2>7. OnlyOne(w)
    BY <2>2, <2>6 DEF OnlyOne
  <2>8. Traps(names, image[addr], Expected(rel.symbol))
    BY <2>2, <2>3, <2>5, <2>6, <2>7 DEF FilledInv
  <2>9. Len(names) \in Nat
    BY <2>3
  <2> QED
    BY <2>0, <2>8, <2>9, TrapDispatched DEF addr
<1> QED
  BY <1>1, LinkInvHolds, PTL

=============================================================================
