------------------------------ MODULE FileSystem ------------------------------
(***************************************************************************)
(* FileSystem of crates/core/src/kernel/filesystem.rs: mount points and    *)
(* file descriptors.  A path is a sequence of pieces of text, "/" among    *)
(* them; the files of the host have a length and no contents.              *)
(***************************************************************************)
EXTENDS Integers, Sequences, FiniteSets

CONSTANTS
    Mounts,     \* the mounts there may be: [prefix, host]
    Paths,      \* the paths the guest opens
    Length,     \* host path -> its length, for the files that exist
    Sizes,      \* the lengths of reads and writes
    MaxOpens    \* bound: files opened

ASSUME FileSystemAssumption ==
    /\ Length \in [DOMAIN Length -> Nat]
    /\ Sizes \subseteq Nat

VARIABLES
    mounts,      \* prefix -> host path
    order,       \* the order the map is iterated in
    next_fd,
    open_files,  \* fd -> [host_path, file, position], file its offset in the host
    returned,    \* what the last call returned
    handles      \* history: [fd, host_path, taken, closed] for every open

fsVars == <<mounts, order, next_fd, open_files, returned, handles>>

\* The literals of OrbisError: -0x7FFE_0000 - n.
OrbisError(n) == -(2147352576 + n)
ENOENT == OrbisError(2)
EBADF == OrbisError(9)

NoFile == -1     \* None: a device file
StdFds == 0 .. 2

IsPrefix(p, path) == Len(p) <= Len(path) /\ SubSeq(path, 1, Len(p)) = p

-----------------------------------------------------------------------------

\* HashMap::insert: a key that is new may move the others.
mount(m) ==
    /\ mounts' = [p \in DOMAIN mounts \cup {m.prefix} |->
                     IF p = m.prefix THEN m.host ELSE mounts[p]]
    /\ IF m.prefix \in DOMAIN mounts
       THEN UNCHANGED order
       ELSE order' \in {o \in [1 .. Len(order) + 1 -> DOMAIN mounts'] :
                           \A p \in DOMAIN mounts' : \E i \in DOMAIN o : o[i] = p}
    /\ returned' = 0
    /\ UNCHANGED <<next_fd, open_files, handles>>

\* trim_start_matches('/')
Trimmed(path) ==
    LET first == CHOOSE i \in 1 .. Len(path) + 1 :
                    /\ i = Len(path) + 1 \/ path[i] # "/"
                    /\ \A j \in 1 .. i - 1 : path[j] = "/"
    IN  SubSeq(path, first, Len(path))

Matching(path) == {i \in DOMAIN order : IsPrefix(order[i], path)}

\* The host path by the first prefix the iteration meets.
resolve_path(path) ==
    LET first == CHOOSE i \in Matching(path) : \A j \in Matching(path) : i <= j
        prefix == order[first]
    IN  mounts[prefix] \o Trimmed(SubSeq(path, Len(prefix) + 1, Len(path)))

IsDevice(path) == IsPrefix(<<"/dev", "/">>, path)

\* Mutant: the descriptor after the ones that are open.
NextFd_ByCount == 3 + Cardinality(DOMAIN open_files)

NextFd == next_fd

\* open_files.insert under a new descriptor
Opened(host_path, file) ==
    /\ Len(handles) < MaxOpens
    /\ next_fd' = next_fd + 1
    /\ open_files' = [fd \in DOMAIN open_files \cup {NextFd} |->
                         IF fd = NextFd
                         THEN [host_path |-> host_path, file |-> file, position |-> 0]
                         ELSE open_files[fd]]
    /\ returned' = NextFd
    /\ handles' = Append(handles, [fd |-> NextFd, host_path |-> host_path, taken |-> 0,
                                   closed |-> FALSE])

open(path) ==
    /\ \/ /\ Matching(path) # {} /\ resolve_path(path) \in DOMAIN Length
          /\ Opened(resolve_path(path), 0)
       \/ /\ Matching(path) = {} /\ IsDevice(path)
          /\ Opened(path, NoFile)
       \/ /\ IF Matching(path) = {} THEN ~IsDevice(path)
                                    ELSE resolve_path(path) \notin DOMAIN Length
          /\ returned' = ENOENT
          /\ UNCHANGED <<next_fd, open_files, handles>>
    /\ UNCHANGED <<mounts, order>>

close(fd) ==
    /\ \/ /\ fd \in DOMAIN open_files
          /\ open_files' = [f \in DOMAIN open_files \ {fd} |-> open_files[f]]
          /\ returned' = 0
          /\ handles' = [i \in DOMAIN handles |->
                            IF handles[i].fd = fd THEN [handles[i] EXCEPT !.closed = TRUE]
                                                  ELSE handles[i]]
       \/ /\ fd \notin DOMAIN open_files
          /\ returned' = EBADF
          /\ UNCHANGED <<open_files, handles>>
    /\ UNCHANGED <<mounts, order, next_fd>>

\* What is left of a file; an offset does not pass its end.
Remaining(f) == Length[f.host_path] - f.file

Taken(len, f) == IF len < Remaining(f) THEN len ELSE Remaining(f)

\* The host's offset and the position move together.
Advanced(f, n) ==
    [host_path |-> f.host_path, file |-> f.file + n, position |-> f.position + n]

read(fd, len) ==
    /\ \/ /\ fd \in DOMAIN open_files /\ open_files[fd].file # NoFile
          /\ LET n == Taken(len, open_files[fd])
             IN  /\ returned' = n
                 /\ open_files' = [open_files EXCEPT ![fd] = Advanced(@, n)]
                 /\ handles' = [i \in DOMAIN handles |->
                                   IF handles[i].fd = fd /\ ~handles[i].closed
                                   THEN [handles[i] EXCEPT !.taken = @ + n]
                                   ELSE handles[i]]
       \/ \* a device, or an error of the host
          /\ fd \in DOMAIN open_files
          /\ returned' = IF open_files[fd].file = NoFile THEN 0 ELSE -1
          /\ UNCHANGED <<open_files, handles>>
       \/ /\ fd \notin DOMAIN open_files
          /\ returned' = EBADF
          /\ UNCHANGED <<open_files, handles>>
    /\ UNCHANGED <<mounts, order, next_fd>>

\* A file was opened with File::open, for reading: the host refuses to write to it.
write(fd, len) ==
    /\ returned' = IF fd \in {1, 2} THEN len
                   ELSE IF fd \notin DOMAIN open_files THEN EBADF
                   ELSE IF open_files[fd].file = NoFile THEN len ELSE -1
    /\ UNCHANGED <<mounts, order, next_fd, open_files, handles>>

-----------------------------------------------------------------------------

FsInit ==
    /\ mounts = <<>>
    /\ order = <<>>
    /\ next_fd = 3
    /\ open_files = <<>>
    /\ returned = 0
    /\ handles = <<>>

FsNext ==
    \/ \E m \in Mounts : mount(m)
    \/ \E path \in Paths : open(path)
    \/ \E fd \in 0 .. next_fd :
        \/ close(fd)
        \/ \E len \in Sizes : read(fd, len) \/ write(fd, len)

FsSpec == FsInit /\ [][FsNext]_fsVars

-----------------------------------------------------------------------------
(* Properties. *)

\* A descriptor stays the one of the file it was opened on, at the byte its reads
\* have come to, until it is closed; then it is that of no file any more, however
\* many files are opened and whatever is mounted afterwards.
DescriptorsKept ==
    \A i \in DOMAIN handles :
        LET h == handles[i]
        IN  IF h.closed
            THEN h.fd \notin DOMAIN open_files
            ELSE /\ h.fd \in DOMAIN open_files
                 /\ open_files[h.fd].host_path = h.host_path
                 /\ open_files[h.fd].position = h.taken
                 /\ open_files[h.fd].file \in {NoFile, h.taken}

-----------------------------------------------------------------------------
(* What the code does not keep: README.md, "Divergences", says how.        *)

\* "They are negative 32-bit values with the format 0x8002XXXX" (kernel/mod.rs:20).
CodesAsDocumented == returned \in {ENOENT, EBADF} => returned + 2147352576 \in 0 .. 65535

\* A path is below the mount point with the longest prefix of it.
MostSpecific ==
    \A path \in Paths : \A p \in DOMAIN mounts :
        IsPrefix(p, path) =>
            \E q \in DOMAIN mounts : /\ Len(q) >= Len(p)
                                     /\ IsPrefix(mounts[q], resolve_path(path))

\* "Write to a file descriptor" (filesystem.rs:158): a file can be written.
FilesWritable ==
    [][\A fd \in DOMAIN open_files, len \in Sizes :
          write(fd, len) /\ fd \notin StdFds => returned' # -1]_fsVars

=============================================================================
