------------------------------- MODULE CodePatch -------------------------------
(***************************************************************************)
(* What boot does to the memory of eboot.bin once Module::load has filled  *)
(* it, in this order: load_module takes the assertion traps out            *)
(* (crates/core/src/linker/mod.rs), relocate_all stores pointers, and main *)
(* has patch_syscalls (crates/core/src/hle/dispatcher.rs) replace SYSCALL  *)
(* by UD2.  Both scans are loops over all bytes, code or not, and neither  *)
(* is run on any other module.  A pointer takes two bytes here.            *)
(***************************************************************************)
EXTENDS ElfLoader

CONSTANT Pointers    \* those a relocation may store: sequences of two bytes

ASSUME CodePatchAssumption == Pointers \subseteq [1 .. 2 -> 0 .. 255]

VARIABLES
    offset,   \* of the loop that runs
    stored    \* history: offset -> the pointer stored there

patching == <<offset, stored>>
elf == <<file, at, dynamic_entries, dynlib_data, relocations>>
bootVars == <<vars, patching>>

SYSCALL == <<15, 5>>      \* 0F 05
UD2 == <<15, 11>>         \* 0F 0B
AssertTrap == <<133, 192, 117, 2, 205, 65>>    \* test eax,eax; jne +2; int 0x41
AssertPatch == <<184, 10, 0, 0, 0, 144>>       \* mov eax,10; nop

Size == Len(image)

\* Are the bytes of pattern at off?
At(bytes, off, pattern) ==
    /\ off + Len(pattern) <= Len(bytes)
    /\ SubSeq(bytes, off + 1, off + Len(pattern)) = pattern

\* bytes, with those of new from off on.
Overwritten(bytes, off, new) ==
    [k \in DOMAIN bytes |->
        IF k - off \in DOMAIN new THEN new[k - off] ELSE bytes[k]]

-----------------------------------------------------------------------------

\* Mutant: the scan stops one byte early.
MoreAssertions_OffByOne == offset + 6 < Size

MoreAssertions == offset + 5 < Size

\* One turn of the loop in load_module.
ScanAssertion ==
    /\ step = "loaded" /\ MoreAssertions
    /\ IF At(image, offset, AssertTrap)
       THEN /\ image' = Overwritten(image, offset, AssertPatch)
            /\ offset' = offset + 6
       ELSE /\ offset' = offset + 1
            /\ UNCHANGED image
    /\ UNCHANGED <<step, stored, elf>>

AssertionsDone ==
    /\ step = "loaded" /\ ~MoreAssertions
    /\ step' = "relocate"
    /\ offset' = 1
    /\ UNCHANGED <<image, stored, elf>>

\* The next relocation stores a pointer, at the base and its offset; what falls
\* outside the module changes nothing in it.
Relocate(ptr) ==
    /\ step = "relocate" /\ offset \in DOMAIN relocations
    /\ LET off == relocations[offset].offset
       IN  /\ image' = Overwritten(image, off, ptr)
           /\ stored' = [s \in DOMAIN stored \cup {off} |-> IF s = off THEN ptr ELSE stored[s]]
    /\ offset' = offset + 1
    /\ UNCHANGED <<step, elf>>

RelocateDone ==
    /\ step = "relocate" /\ offset > Len(relocations)
    /\ step' = "syscalls"
    /\ offset' = 0
    /\ UNCHANGED <<image, stored, elf>>

\* Mutant: the scan stops one byte early.
MoreSyscalls_OffByOne == offset + 1 < Size - 1

MoreSyscalls == offset < Size - 1

\* One turn of the loop in patch_syscalls.
ScanSyscall ==
    /\ step = "syscalls" /\ MoreSyscalls
    /\ image' = IF At(image, offset, SYSCALL) THEN Overwritten(image, offset, UD2) ELSE image
    /\ offset' = offset + 1
    /\ UNCHANGED <<step, stored, elf>>

SyscallsDone ==
    /\ step = "syscalls" /\ ~MoreSyscalls
    /\ step' = "jump"
    /\ UNCHANGED <<image, offset, stored, elf>>

BootInit ==
    /\ Init
    /\ offset = 0
    /\ stored = [s \in {} |-> <<>>]

BootNext ==
    \/ Next /\ UNCHANGED patching
    \/ ScanAssertion \/ AssertionsDone
    \/ \E ptr \in Pointers : Relocate(ptr)
    \/ RelocateDone
    \/ ScanSyscall \/ SyscallsDone

BootSpec == BootInit /\ [][BootNext]_bootVars

-----------------------------------------------------------------------------
(* Properties.                                                             *)

\* No assertion trap of eboot.bin is left when its dependencies are loaded,
\* wherever it stands and whatever it overlaps with.
NoAssertionLeft ==
    step = "relocate" /\ offset = 1 =>
        \A off \in 0 .. Size - 1 : ~At(image, off, AssertTrap)

\* "Patch executable segments (Replace SYSCALL with UD2)" (main.rs:248): when the
\* guest starts, eboot.bin has no SYSCALL left, one that a relocation or the other
\* patch put together included.
NoSyscallLeft ==
    step = "jump" => \A off \in 0 .. Size - 1 : ~At(image, off, SYSCALL)

-----------------------------------------------------------------------------
(* What the code does not keep: README.md, "Divergences", says how.        *)

\* A pointer a relocation has stored is there when the guest starts.  (The patch
\* is of two bytes because a longer one "would corrupt surrounding instructions",
\* dispatcher.rs:3.)
PointersKept ==
    step = "jump" => \A s \in DOMAIN stored : s + 2 <= Size => At(image, s, stored[s])

=============================================================================
