-------------------------------- MODULE CFiles --------------------------------
(***************************************************************************)
(* The C streams of crates/core/src/hle/exports.rs: fopen, fread, fseek,   *)
(* ftell and fclose over the table OPEN_CFILES, called by guest threads.   *)
(*                                                                         *)
(* The table is behind a mutex, so a call is one step, except fopen: it    *)
(* takes its FILE* from the counter NEXT_FILE_PTR first and locks the      *)
(* table afterwards.  A FILE* is a number, 0 is null, and the counter goes *)
(* up by one.  A path is the prefix of a mount point and the rest.         *)
(***************************************************************************)
EXTENDS Integers, FiniteSets

CONSTANTS
    Threads,
    Mounts,          \* FS_MOUNTS: the prefixes main has mounted
    Paths,           \* the paths asked for, records [prefix, file]
    Length,          \* function: the length of each file there is
    Word,            \* size_t is 0 .. Word - 1
    OverflowChecks,  \* TRUE: a dev build, an overflowing * panics;
                     \* FALSE: a release build, it wraps
    ReadCap,         \* the most bytes one read of the host returns
    MaxPos,          \* the last position the host seeks to
    ItemSizes,       \* the size callers of fread pass
    Counts,          \* the count they pass
    Offsets,         \* the offset callers of fseek pass
    OpenLimit        \* bound: the streams opened

ASSUME CFilesAssumption ==
    /\ Word \in Nat \ {0}
    /\ OverflowChecks \in BOOLEAN
    /\ ReadCap \in Nat
    /\ MaxPos \in Nat
    /\ \A file \in DOMAIN Length : Length[file] \in 0 .. MaxPos
    /\ ItemSizes \subseteq 0 .. Word - 1
    /\ Counts \subseteq 0 .. Word - 1
    /\ Offsets \subseteq Int
    /\ OpenLimit \in Nat

VARIABLES
    NEXT_FILE_PTR,
    OPEN_CFILES,   \* FILE* -> [file, pos]
    opening,       \* thread in the middle of fopen -> the [ptr, file] it took
    panicked,      \* a panic has ended the process
    last,          \* the last call: [call, ptr, asked, ret]
    handed,        \* history: FILE* -> the file fopen returned it for
    closed,        \* history: what fclose has answered 0 for
    reported       \* history: FILE* -> where the items returned since it was
                   \* opened or last moved by fseek end

vars == <<NEXT_FILE_PTR, OPEN_CFILES, opening, panicked, last, handed, closed, reported>>

Smaller(a, b) == IF a < b THEN a ELSE b

With(f, x, v) == [y \in DOMAIN f \cup {x} |-> IF y = x THEN v ELSE f[y]]

Without(f, x) == [y \in DOMAIN f \ {x} |-> f[y]]

\* What guests pass as a FILE*: any stream there has been or will be, and null.
Ptrs == 0 .. OpenLimit

Returns(call, ptr, asked, ret) ==
    last' = [call |-> call, ptr |-> ptr, asked |-> asked, ret |-> ret]

Idle(t) == ~panicked /\ t \notin DOMAIN opening

-----------------------------------------------------------------------------
\* One mount at most is the prefix of a path, and the file is there.
resolve_ps4_path(path) == path.prefix \in Mounts /\ path.file \in DOMAIN Length

\* Mutant: the number of open streams names the next one.
FreshPtr_ByCount == Cardinality(DOMAIN OPEN_CFILES) + 1

FreshPtr == NEXT_FILE_PTR

\* fopen has opened the file and takes a FILE* from the counter.
FopenTake(t, path) ==
    /\ Idle(t)
    /\ NEXT_FILE_PTR <= OpenLimit
    /\ resolve_ps4_path(path)
    /\ opening' = With(opening, t, [ptr |-> FreshPtr, file |-> path.file])
    /\ NEXT_FILE_PTR' = NEXT_FILE_PTR + 1
    /\ UNCHANGED <<OPEN_CFILES, panicked, last, handed, closed, reported>>

\* It locks the table, inserts the stream and returns.
FopenInsert(t) ==
    /\ t \in DOMAIN opening
    /\ ~panicked
    /\ LET ptr  == opening[t].ptr
           file == opening[t].file
       IN  /\ OPEN_CFILES' = With(OPEN_CFILES, ptr, [file |-> file, pos |-> 0])
           /\ handed' = With(handed, ptr, file)
           /\ reported' = With(reported, ptr, 0)
           /\ Returns("fopen", ptr, 0, ptr)
    /\ opening' = Without(opening, t)
    /\ UNCHANGED <<NEXT_FILE_PTR, panicked, closed>>

\* The name is null, not below a mount point or of no file, or the host does not
\* open the file.
FopenFails(t) ==
    /\ Idle(t)
    /\ Returns("fopen", 0, 0, 0)
    /\ UNCHANGED <<NEXT_FILE_PTR, OPEN_CFILES, opening, panicked, handed, closed, reported>>

-----------------------------------------------------------------------------
\* size * count panics, before the table is locked.
FreadPanics(t, size, count) ==
    /\ Idle(t)
    /\ OverflowChecks /\ size * count >= Word
    /\ panicked' = TRUE
    /\ UNCHANGED <<NEXT_FILE_PTR, OPEN_CFILES, opening, last, handed, closed, reported>>

Total(size, count) == (size * count) % Word

\* What one read of the host returns.  Behind the end it returns nothing.
BytesRead(ptr, total) ==
    LET left == Length[OPEN_CFILES[ptr].file] - OPEN_CFILES[ptr].pos
    IN  IF left <= 0 THEN 0 ELSE Smaller(Smaller(total, left), ReadCap)

\* Mutant: the count asked for is returned, whatever was read.
Items_Asked(bytes_read, size, count) == count

Items(bytes_read, size, count) == bytes_read \div size

\* Mutant: the bytes of an item that is not whole are left in the stream.
Advance_WholeItems(bytes_read, size) == (bytes_read \div size) * size

\* The host has moved the position by what it read, whole items or not.
Advance(bytes_read, size) == bytes_read

\* The stream is open and the host reads.
Fread(t, ptr, size, count) ==
    /\ Idle(t)
    /\ ~(OverflowChecks /\ size * count >= Word)
    /\ Total(size, count) # 0
    /\ ptr \in DOMAIN OPEN_CFILES
    /\ LET bytes_read == BytesRead(ptr, Total(size, count))
           items      == Items(bytes_read, size, count)
       IN  /\ OPEN_CFILES' = [OPEN_CFILES EXCEPT ![ptr].pos = @ + Advance(bytes_read, size)]
           /\ reported' = [reported EXCEPT ![ptr] = @ + items * size]
           /\ Returns("fread", ptr, count, items)
    /\ UNCHANGED <<NEXT_FILE_PTR, opening, panicked, handed, closed>>

\* There is no buffer or nothing to read, the stream is not open, or the host
\* fails to read: 0 items and the position is kept.
FreadNothing(t, ptr, size, count) ==
    /\ Idle(t)
    /\ ~(OverflowChecks /\ size * count >= Word)
    /\ Returns("fread_nothing", ptr, count, 0)
    /\ UNCHANGED <<NEXT_FILE_PTR, OPEN_CFILES, opening, panicked, handed, closed, reported>>

-----------------------------------------------------------------------------
\* Where lseek counts from, for SEEK_SET, SEEK_CUR and SEEK_END.
SeekBase(ptr, whence) ==
    CASE whence = 0 -> 0
      [] whence = 1 -> OPEN_CFILES[ptr].pos
      [] whence = 2 -> Length[OPEN_CFILES[ptr].file]

\* Mutant: a negative position is not refused.
Seekable_Negative(pos) == pos <= MaxPos

\* The positions the host takes, behind the end of the file too.
Seekable(pos) == pos \in 0 .. MaxPos

Seeks(ptr, offset, whence) ==
    /\ whence \in 0 .. 2
    /\ ptr \in DOMAIN OPEN_CFILES
    /\ Seekable(SeekBase(ptr, whence) + offset)

Fseek(t, ptr, offset, whence) ==
    /\ Idle(t)
    /\ Seeks(ptr, offset, whence)
    /\ OPEN_CFILES' = [OPEN_CFILES EXCEPT ![ptr].pos = SeekBase(ptr, whence) + offset]
    /\ reported' = [reported EXCEPT ![ptr] = SeekBase(ptr, whence) + offset]
    /\ Returns("fseek", ptr, 0, 0)
    /\ UNCHANGED <<NEXT_FILE_PTR, opening, panicked, handed, closed>>

\* Another whence, a stream that is not open, or a position the host refuses.
FseekFails(t, ptr, offset, whence) ==
    /\ Idle(t)
    /\ ~Seeks(ptr, offset, whence)
    /\ Returns("fseek", ptr, 0, -1)
    /\ UNCHANGED <<NEXT_FILE_PTR, OPEN_CFILES, opening, panicked, handed, closed, reported>>

Ftell(t, ptr) ==
    /\ Idle(t)
    /\ Returns("ftell", ptr, 0, IF ptr \in DOMAIN OPEN_CFILES THEN OPEN_CFILES[ptr].pos ELSE -1)
    /\ UNCHANGED <<NEXT_FILE_PTR, OPEN_CFILES, opening, panicked, handed, closed, reported>>

Fclose(t, ptr) ==
    /\ Idle(t)
    /\ ptr \in DOMAIN OPEN_CFILES
    /\ OPEN_CFILES' = Without(OPEN_CFILES, ptr)
    /\ closed' = closed \cup {ptr}
    /\ Returns("fclose", ptr, 0, 0)
    /\ UNCHANGED <<NEXT_FILE_PTR, opening, panicked, handed, reported>>

FcloseFails(t, ptr) ==
    /\ Idle(t)
    /\ ptr \notin DOMAIN OPEN_CFILES
    /\ Returns("fclose", ptr, 0, -1)
    /\ UNCHANGED <<NEXT_FILE_PTR, OPEN_CFILES, opening, panicked, handed, closed, reported>>

-----------------------------------------------------------------------------
Init ==
    /\ NEXT_FILE_PTR = 1
    /\ OPEN_CFILES = [ptr \in {} |-> 0]
    /\ opening = [t \in {} |-> 0]
    /\ panicked = FALSE
    /\ last = [call |-> "none", ptr |-> 0, asked |-> 0, ret |-> 0]
    /\ handed = [ptr \in {} |-> 0]
    /\ closed = {}
    /\ reported = [ptr \in {} |-> 0]

Next == \E t \in Threads :
    \/ \E path \in Paths : FopenTake(t, path)
    \/ FopenInsert(t)
    \/ FopenFails(t)
    \/ \E size \in ItemSizes, count \in Counts :
        \/ FreadPanics(t, size, count)
        \/ \E ptr \in Ptrs : Fread(t, ptr, size, count) \/ FreadNothing(t, ptr, size, count)
    \/ \E ptr \in Ptrs, offset \in Offsets, whence \in 0 .. 3 :
        Fseek(t, ptr, offset, whence) \/ FseekFails(t, ptr, offset, whence)
    \/ \E ptr \in Ptrs : Ftell(t, ptr) \/ Fclose(t, ptr) \/ FcloseFails(t, ptr)

Spec == Init /\ [][Next]_vars

-----------------------------------------------------------------------------
(* Properties.                                                             *)

\* The type of the table, of the calls under way and of the history: a position
\* is one the host takes.
TypeOK ==
    /\ NEXT_FILE_PTR \in 1 .. OpenLimit + 1
    /\ DOMAIN OPEN_CFILES \subseteq 1 .. OpenLimit
    /\ \A ptr \in DOMAIN OPEN_CFILES :
        OPEN_CFILES[ptr] \in [file : DOMAIN Length, pos : 0 .. MaxPos]
    /\ DOMAIN opening \subseteq Threads
    /\ \A t \in DOMAIN opening :
        opening[t] \in [ptr : 1 .. OpenLimit, file : DOMAIN Length]
    /\ panicked \in BOOLEAN
    /\ DOMAIN handed = DOMAIN reported

\* A FILE* that fopen has returned stands for the file asked for until it is
\* closed, and for no stream from then on, however the two steps of one fopen
\* interleave with other calls: no two threads in fopen, and no stream before
\* them, share a FILE*.
StreamsKept ==
    /\ \A ptr \in DOMAIN handed \ closed :
        ptr \in DOMAIN OPEN_CFILES /\ OPEN_CFILES[ptr].file = handed[ptr]
    /\ DOMAIN OPEN_CFILES \cap closed = {}
    /\ \A t \in DOMAIN opening : opening[t].ptr \notin DOMAIN handed
    /\ \A t, u \in DOMAIN opening : opening[t].ptr = opening[u].ptr => t = u

\* After any reads and seeks, the items fread has returned make up the stream up
\* to its position; bytes are passed over that no call has returned only when the
\* last item of the file is not whole.
AllReported ==
    \A ptr \in DOMAIN OPEN_CFILES :
        LET pos == OPEN_CFILES[ptr].pos
        IN  /\ reported[ptr] <= pos
            /\ reported[ptr] < pos => pos = Length[OPEN_CFILES[ptr].file]

\* A read the host has done that returns fewer items than asked for has met the
\* end of the file: a caller may take a short count for the end.
ShortMeansEnd ==
    last.call = "fread" /\ last.ret < last.asked =>
        OPEN_CFILES[last.ptr].pos >= Length[OPEN_CFILES[last.ptr].file]

=============================================================================
