----------------------------- MODULE ThreadManager -----------------------------
(***************************************************************************)
(* ThreadManager of crates/core/src/kernel/threading.rs: threads create    *)
(* threads.  create_thread takes a number under one mutex and stores the   *)
(* thread under another.  Nothing runs yet, and nothing ends.              *)
(***************************************************************************)
EXTENDS Integers, Sequences

CONSTANTS
    Creators,
    MaxCreated   \* bound: calls of create_thread

ASSUME ThreadManagerAssumption == MaxCreated \in Nat

VARIABLES
    next_id,
    threads,    \* the numbers of the threads, as they were stored
    creating,   \* creator -> the number it has taken, 0 if none
    thread_out  \* creator -> the handles sce_pthread_create has given it

tmVars == <<next_id, threads, creating, thread_out>>

\* Mutant: the number is taken from the length of the list.
NewId_ByCount == Len(threads) + 1

NewId == next_id

\* create_thread up to drop(id_lock)
TakeId(c) ==
    /\ creating[c] = 0 /\ next_id <= MaxCreated
    /\ creating' = [creating EXCEPT ![c] = NewId]
    /\ next_id' = next_id + 1
    /\ UNCHANGED <<threads, thread_out>>

\* The rest of create_thread, and sce_pthread_create.
Push(c) ==
    /\ creating[c] # 0
    /\ threads' = Append(threads, creating[c])
    /\ thread_out' = [thread_out EXCEPT ![c] = Append(@, creating[c])]
    /\ creating' = [creating EXCEPT ![c] = 0]
    /\ UNCHANGED next_id

\* It reads the length of the list.
thread_count == UNCHANGED tmVars

TmInit ==
    /\ next_id = 1
    /\ threads = <<>>
    /\ creating = [c \in Creators |-> 0]
    /\ thread_out = [c \in Creators |-> <<>>]

TmNext == (\E c \in Creators : TakeId(c) \/ Push(c)) \/ thread_count

TmSpec == TmInit /\ [][TmNext]_tmVars

\* The letters of "ThreadId(n)", for the thread n of the host.
sce_pthread_self(n) ==
    10 + (CHOOSE d \in 1 .. 9 : 10 ^ (d - 1) <= n /\ n < 10 ^ d)

-----------------------------------------------------------------------------
(* Properties. *)

\* However many threads create threads at once, every handle that was given out is
\* that of one thread of the list, which no other call was given; and every thread
\* of the list was given to its creator.
HandlesUnique ==
    \A n \in 1 .. MaxCreated :
        LET Stored == {i \in DOMAIN threads : threads[i] = n}
            Given == {ci \in Creators \X (1 .. MaxCreated) :
                         ci[2] \in DOMAIN thread_out[ci[1]] /\ thread_out[ci[1]][ci[2]] = n}
        IN  /\ \A i, j \in Stored : i = j
            /\ \A a, b \in Given : a = b
            /\ Stored = {} <=> Given = {}

-----------------------------------------------------------------------------
(* What the code does not keep: README.md, "Divergences", says how.        *)

\* "Map the host thread ID to a PS4 thread handle" (threading.rs:125): threads of
\* the host have different handles.
SelvesDiffer ==
    \A a, b \in 1 .. Len(threads) : sce_pthread_self(a) = sce_pthread_self(b) => a = b

=============================================================================
