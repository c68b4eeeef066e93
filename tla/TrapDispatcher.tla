---------------------------- MODULE TrapDispatcher ----------------------------
(***************************************************************************)
(* How the emulator enters and leaves guest code: the SIGILL and SIGSEGV   *)
(* handlers of crates/core/src/hle/dispatcher.rs, the start of a thread    *)
(* (scePthreadCreate in exports.rs, the end of main.rs), and the locks the *)
(* calls take inside the handlers.                                         *)
(*                                                                         *)
(* Guest code runs with FS_BASE at its own TCB, Rust code needs the FS_BASE*)
(* the host gave the thread.  A handler finds it in THREAD_FS_MAP, a plain *)
(* static array that every new thread writes without a lock.  Registers    *)
(* and memory of the guest are left out; what a call does to them is the   *)
(* subject of the other modules.  A thread never ends: no call ends one.   *)
(***************************************************************************)
EXTENDS Integers, FiniteSets

CONSTANTS
    Threads,                  \* the threads there may be
    Main,                     \* the one the process starts with
    NoTid,                    \* tid 0
    Slots,                    \* the length of THREAD_FS_MAP
    MAX_SIGSEGV_RECOVERIES

ASSUME TrapDispatcherAssumption ==
    /\ IsFiniteSet(Threads)
    /\ Main \in Threads
    /\ NoTid \notin Threads
    /\ Slots \in Nat \ {0}
    /\ MAX_SIGSEGV_RECOVERIES \in Nat

VARIABLES
    pc,             \* where each thread is
    fs,             \* its FS_BASE
    handler,        \* the innermost handler it is in
    saved,          \* that handler's guest_fs: no outer handler is returned to
    idx,            \* the index of its loop over THREAD_FS_MAP
    todo,           \* the fields register_thread_fs has still to store
    THREAD_FS_MAP,  \* index -> [tid, fs]
    outer,          \* who holds the mutex MEMORY_MANAGER
    inner,          \* who holds the mutex of the manager in it
    count,          \* SIGSEGV_RECOVERY_COUNT, up to the bound it is compared with
    recovered,      \* history: the recoveries made
    stopped         \* has the process exited or aborted?

vars == <<pc, fs, handler, saved, idx, todo, THREAD_FS_MAP, outer, inner, count,
          recovered, stopped>>

locks == <<outer, inner>>
tables == <<idx, todo, THREAD_FS_MAP>>
counters == <<count, recovered>>

Host(t) == <<"host", t>>
Guest(t) == <<"guest", t>>
NoFs == <<"none", NoTid>>

Indices == 0 .. Slots - 1

\* Thread t, at l, goes on to m.
Goes(t, l, m) ==
    /\ stopped = FALSE
    /\ pc[t] = l
    /\ pc' = [pc EXCEPT ![t] = m]

\* The process ends, whatever the other threads are doing.
Stops(t, l) ==
    /\ stopped = FALSE
    /\ pc[t] = l
    /\ stopped' = TRUE
    /\ UNCHANGED <<pc, fs, handler, saved, tables, locks, counters>>

-----------------------------------------------------------------------------
(* A thread starts: it registers its host FS_BASE, then swaps to the guest's. *)

\* Mutant: a thread takes the slot it looks at, whoever has it.
SlotUsable_Any(t, i) == TRUE

SlotUsable(t, i) == THREAD_FS_MAP[i].tid \in {NoTid, t}

RegisterScan(t) ==
    /\ \/ /\ idx[t] = Slots
          /\ Goes(t, "scan", "swap")
          /\ UNCHANGED <<idx, todo>>
       \/ /\ idx[t] < Slots /\ SlotUsable(t, idx[t])
          /\ Goes(t, "scan", "store")
          /\ todo' = [todo EXCEPT ![t] = {"tid", "fs"}]
          /\ UNCHANGED idx
       \/ /\ idx[t] < Slots /\ ~SlotUsable(t, idx[t])
          /\ Goes(t, "scan", "scan")
          /\ idx' = [idx EXCEPT ![t] = @ + 1]
          /\ UNCHANGED todo
    /\ UNCHANGED <<fs, handler, saved, THREAD_FS_MAP, locks, counters, stopped>>

\* The pair is stored as two words, in the order the compiler likes, and nothing
\* keeps another thread from storing to the same slot in between.
RegisterStore(t, f) ==
    /\ f \in todo[t]
    /\ Goes(t, "store", IF todo[t] = {f} THEN "swap" ELSE "store")
    /\ todo' = [todo EXCEPT ![t] = @ \ {f}]
    /\ THREAD_FS_MAP' =
          [THREAD_FS_MAP EXCEPT ![idx[t]] =
              IF f = "tid" THEN [@ EXCEPT !.tid = t] ELSE [@ EXCEPT !.fs = Host(t)]]
    /\ UNCHANGED <<fs, handler, saved, idx, locks, counters, stopped>>

SwapToGuest(t) ==
    /\ Goes(t, "swap", "guest")
    /\ fs' = [fs EXCEPT ![t] = Guest(t)]
    /\ UNCHANGED <<handler, saved, tables, locks, counters, stopped>>

-----------------------------------------------------------------------------
(* Entering a handler. *)

EnterHandler(t, l, h) ==
    /\ Goes(t, l, "lookup")
    /\ handler' = [handler EXCEPT ![t] = h]
    /\ saved' = [saved EXCEPT ![t] = fs[t]]
    /\ UNCHANGED <<fs, tables, locks, counters, stopped>>

\* The guest executes a UD2: a stub, a patched SYSCALL or its own.
Trap(t) == EnterHandler(t, "guest", "sigill")

SegvGuest(t) == EnterHandler(t, "guest", "sigsegv")

\* Where a handler follows a pointer of the guest's: the arguments of a call, the
\* address a kernel call writes its result to, the frames of the unwinder.
Dereferences == {"dispatch", "locked", "spawn", "return", "unwind"}

\* SA_NODEFER: the fault is handled on top of the handler that made it.  The dump
\* of a fatal fault may fault on the guest's registers, but the dump of that fault
\* has the handler's own.
SegvNested(t) ==
    \/ \E l \in Dereferences : EnterHandler(t, l, "sigsegv")
    \/ handler[t] # "dump" /\ EnterHandler(t, "fatal", "dump")

\* get_thread_fs found nothing: sigill_handler does the least it can,
\* sigsegv_handler goes on with the FS_BASE it has.
NotFound(t) == IF handler[t] = "sigill" THEN "minimal" ELSE "segv"

\* The two loads of get_thread_fs: the first slot with the thread's tid, then
\* its fs.
LookupTid(t) ==
    /\ \/ \E i \in Indices :
             /\ THREAD_FS_MAP[i].tid = t
             /\ \A j \in 0 .. i - 1 : THREAD_FS_MAP[j].tid # t
             /\ Goes(t, "lookup", "read")
             /\ idx' = [idx EXCEPT ![t] = i]
       \/ /\ \A i \in Indices : THREAD_FS_MAP[i].tid # t
          /\ Goes(t, "lookup", NotFound(t))
          /\ UNCHANGED idx
    /\ UNCHANGED <<fs, handler, saved, todo, THREAD_FS_MAP, locks, counters, stopped>>

HandlerFs(t) == THREAD_FS_MAP[idx[t]].fs

\* What is stored there is never 0.
LookupFs(t) ==
    /\ Goes(t, "read", IF handler[t] = "sigill" THEN "dispatch" ELSE "segv")
    /\ fs' = [fs EXCEPT ![t] = HandlerFs(t)]
    /\ UNCHANGED <<handler, saved, tables, locks, counters, stopped>>

-----------------------------------------------------------------------------
(* sigill_handler. *)

\* Mutant: the handler returns with the FS_BASE it ran with.
FsOnReturn_Kept(t) == fs[t]

FsOnReturn(t) == saved[t]

ReturnsToGuest(t, l) ==
    /\ Goes(t, l, "guest")
    /\ fs' = [fs EXCEPT ![t] = FsOnReturn(t)]

\* The call is skipped and answers 0.
MinimalReturn(t) ==
    /\ ReturnsToGuest(t, "minimal")
    /\ UNCHANGED <<handler, saved, tables, locks, counters, stopped>>

\* Most calls take no lock that this module follows.
Dispatch(t) ==
    /\ \E call \in {"return", "alloc", "create"} : Goes(t, "dispatch", call)
    /\ UNCHANGED <<fs, handler, saved, tables, locks, counters, stopped>>

\* sys_exit, exit and catchReturnFromMain; or the UD2 was no UD2 at all.
DispatchStops(t) == \E l \in {"dispatch", "minimal"} : Stops(t, l)

\* sceKernelAllocateDirectMemory and its kind take both locks, map the memory
\* and store its address where the guest asked before they release them.
AllocOuter(t) ==
    /\ outer = NoTid
    /\ Goes(t, "alloc", "outer")
    /\ outer' = t
    /\ UNCHANGED <<fs, handler, saved, tables, inner, counters, stopped>>

AllocInner(t) ==
    /\ inner = NoTid
    /\ Goes(t, "outer", "locked")
    /\ inner' = t
    /\ UNCHANGED <<fs, handler, saved, tables, outer, counters, stopped>>

\* Mutant: the way back to the guest skips the drop of the manager's own guard.
InnerOnLeave_Kept == inner

InnerOnLeave == NoTid

AllocLeave(t) ==
    /\ Goes(t, "locked", "return")
    /\ outer' = NoTid
    /\ inner' = InnerOnLeave
    /\ UNCHANGED <<fs, handler, saved, tables, counters, stopped>>

\* scePthreadCreate: each lock is held only to clone the reference, to map the
\* TCB and to map the stack, and no pointer of the guest's is used meanwhile.
CreateClone(t) ==
    /\ outer = NoTid
    /\ Goes(t, "create", "tcb")
    /\ UNCHANGED <<fs, handler, saved, tables, locks, counters, stopped>>

CreateTcb(t) ==
    /\ inner = NoTid
    /\ Goes(t, "tcb", "stack")
    /\ UNCHANGED <<fs, handler, saved, tables, locks, counters, stopped>>

\* Either mapping may have failed.
CreateStack(t) ==
    /\ inner = NoTid
    /\ \E l \in {"spawn", "return"} : Goes(t, "stack", l)
    /\ UNCHANGED <<fs, handler, saved, tables, locks, counters, stopped>>

\* Thread u starts with the loop of register_thread_fs.
CreateSpawn(t, u) ==
    /\ stopped = FALSE
    /\ pc[t] = "spawn" /\ pc[u] = "none"
    /\ pc' = [pc EXCEPT ![t] = "return", ![u] = "scan"]
    /\ UNCHANGED <<fs, handler, saved, tables, locks, counters, stopped>>

\* The result of spawn is ignored.
CreateSpawnFails(t) ==
    /\ Goes(t, "spawn", "return")
    /\ UNCHANGED <<fs, handler, saved, tables, locks, counters, stopped>>

Return(t) ==
    /\ ReturnsToGuest(t, "return")
    /\ UNCHANGED <<handler, saved, tables, locks, counters, stopped>>

-----------------------------------------------------------------------------
(* sigsegv_handler. *)

\* Mutant: the bound is checked before the counter moves, off by one.
MayRecover_OffByOne(c) == c <= MAX_SIGSEGV_RECOVERIES

MayRecover(c) == c < MAX_SIGSEGV_RECOVERIES

\* One fetch_add; the count is kept only as far as it is compared.
SegvCount(t) ==
    /\ Goes(t, "segv", IF MayRecover(count) THEN "unwind" ELSE "fatal")
    /\ count' = IF MayRecover(count) THEN count + 1 ELSE count
    /\ UNCHANGED <<fs, handler, saved, tables, locks, recovered, stopped>>

UnwindFound(t) ==
    /\ ReturnsToGuest(t, "unwind")
    /\ recovered' = recovered + 1
    /\ UNCHANGED <<handler, saved, tables, locks, count, stopped>>

UnwindFails(t) ==
    /\ Goes(t, "unwind", "fatal")
    /\ UNCHANGED <<fs, handler, saved, tables, locks, counters, stopped>>

Fatal(t) == Stops(t, "fatal")

-----------------------------------------------------------------------------

Init ==
    /\ pc = [t \in Threads |-> IF t = Main THEN "scan" ELSE "none"]
    /\ fs = [t \in Threads |-> Host(t)]
    /\ handler = [t \in Threads |-> "none"]
    /\ saved = [t \in Threads |-> NoFs]
    /\ idx = [t \in Threads |-> 0]
    /\ todo = [t \in Threads |-> {}]
    /\ THREAD_FS_MAP = [i \in Indices |-> [tid |-> NoTid, fs |-> NoFs]]
    /\ outer = NoTid
    /\ inner = NoTid
    /\ count = 0
    /\ recovered = 0
    /\ stopped = FALSE

Start(t) == RegisterScan(t) \/ (\E f \in {"tid", "fs"} : RegisterStore(t, f)) \/ SwapToGuest(t)

\* What takes a lock.
Locks(t) == AllocOuter(t) \/ AllocInner(t) \/ CreateClone(t) \/ CreateTcb(t) \/ CreateStack(t)

\* What a handler does without one.
Handles(t) ==
    \/ LookupTid(t) \/ LookupFs(t)
    \/ MinimalReturn(t) \/ Dispatch(t) \/ DispatchStops(t) \/ AllocLeave(t)
    \/ (\E u \in Threads : CreateSpawn(t, u)) \/ CreateSpawnFails(t) \/ Return(t)
    \/ SegvCount(t) \/ UnwindFound(t) \/ UnwindFails(t) \/ Fatal(t)

Next ==
    \E t \in Threads :
        Start(t) \/ Handles(t) \/ Locks(t) \/ Trap(t) \/ SegvGuest(t)

\* As long as every pointer the guest passes to a call, and every frame the
\* unwinder follows, can be accessed.
Spec == Init /\ [][Next]_vars

\* Without that assumption.
NestedNext == Next \/ \E t \in Threads : SegvNested(t)
NestedSpec == Init /\ [][NestedNext]_vars

\* The kernel runs every thread, and a mutex of parking_lot is fair in the long
\* run: it hands the lock to a waiting thread now and then.  Nothing makes the
\* guest trap or fault.
Fairness ==
    \A t \in Threads : WF_vars(Start(t)) /\ WF_vars(Handles(t)) /\ SF_vars(Locks(t))

FairSpec == Spec /\ Fairness
FairNestedSpec == NestedSpec /\ Fairness

-----------------------------------------------------------------------------
(* Properties. *)

\* The states in which a thread runs Rust code that may use thread-local storage.
RustCode ==
    {"scan", "store", "swap", "dispatch", "alloc", "outer", "locked", "create", "tcb",
     "stack", "spawn", "return", "segv", "unwind", "fatal"}

Places == RustCode \cup {"none", "guest", "lookup", "read", "minimal"}

FsValues == {Host(t) : t \in Threads} \cup {Guest(t) : t \in Threads} \cup {NoFs}

\* The type of the state; an FS_BASE a thread runs with is never 0.
TypeOK ==
    /\ pc \in [Threads -> Places]
    /\ fs \in [Threads -> FsValues \ {NoFs}]
    /\ handler \in [Threads -> {"none", "sigill", "sigsegv", "dump"}]
    /\ saved \in [Threads -> FsValues]
    /\ idx \in [Threads -> 0 .. Slots]
    /\ todo \in [Threads -> SUBSET {"tid", "fs"}]
    /\ THREAD_FS_MAP \in [Indices -> [tid : Threads \cup {NoTid}, fs : FsValues]]
    /\ outer \in Threads \cup {NoTid}
    /\ inner \in Threads \cup {NoTid}
    /\ count \in 0 .. MAX_SIGSEGV_RECOVERIES
    /\ recovered \in Nat
    /\ stopped \in BOOLEAN

\* Guest code always runs with the FS_BASE of its own TCB, whichever handlers
\* ran in between ("CRITICAL: Restore Guest TLS before returning to guest!",
\* dispatcher.rs:242).
GuestFs == \A t \in Threads : pc[t] = "guest" => fs[t] = Guest(t)

\* The table has the host FS_BASE of thread t, both words of it.
InTable(t) == \E i \in Indices : THREAD_FS_MAP[i] = [tid |-> t, fs |-> Host(t)]

\* The threads that start write the table without a lock, and yet a thread whose
\* entry is whole runs Rust code with its own thread-local storage, whoever wrote
\* between its search of the table and its load of the FS_BASE (register_thread_fs,
\* get_thread_fs, dispatcher.rs:18-48); and the main thread, which registers before
\* there is another, never loses its entry.
OwnHostTls ==
    /\ \A t \in Threads : InTable(t) /\ pc[t] \in RustCode => fs[t] = Host(t)
    /\ pc[Main] \notin {"scan", "store"} => InTable(Main)

\* However many threads fault at the same time, no more than
\* MAX_SIGSEGV_RECOVERIES faults are recovered from.
RecoveriesBounded == recovered <= MAX_SIGSEGV_RECOVERIES

\* Every handler returns to the guest or ends the process: no call waits for ever
\* ("This lets the game progress past unimplemented subsystems.",
\* dispatcher.rs:290).
CallsReturn ==
    \A t \in Threads : pc[t] = "lookup" ~> (pc[t] = "guest" \/ stopped)

-----------------------------------------------------------------------------
(* What the code does not keep: README.md, "Divergences", says how.        *)

\* Rust code never runs with the thread-local storage of the guest or of another
\* thread ("If we can't find host FS for this thread, we CANNOT use
\* Rust/tracing.", dispatcher.rs:100).
HostTls == \A t \in Threads : pc[t] \in RustCode => fs[t] = Host(t)

\* A thread in guest code, or in a handler, has its host FS_BASE in THREAD_FS_MAP:
\* registrations of other threads never lose or tear it ("Written once per thread
\* creation, read in signal handlers.", dispatcher.rs:15).
Registered ==
    \A t \in Threads :
        pc[t] \notin {"none", "scan", "store"} =>
            InTable(t)

=============================================================================
