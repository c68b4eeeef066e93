------------------------ MODULE TrapDispatcher_proofs ------------------------
(***************************************************************************)
(* Proofs about the signal handlers, for any number of threads, any length *)
(* of THREAD_FS_MAP and any bound on the recoveries: the race between two  *)
(* registrations and the threads that find no slot are included.  Then     *)
(* about the recovery of one thread, on a stack of any size.               *)
(***************************************************************************)
EXTENDS TrapDispatcher, FrameWalk, TLAPS, FiniteSetTheorems, SequenceTheorems

\* An FS_BASE of a thread is not 0.
LEMMA FsFacts ==
    ASSUME NEW t \in Threads
    PROVE  /\ Host(t) \in FsValues \ {NoFs}
           /\ Guest(t) \in FsValues \ {NoFs}
BY DEF Host, Guest, NoFs, FsValues

-----------------------------------------------------------------------------
(* Type correctness.  That a handler never loads a 0 from a slot with its  *)
(* tid takes what the two stores of a registration leave behind.           *)

\* The index a thread stores at or loads from is in the table.
IdxInTable ==
    \A t \in Threads : pc[t] \in {"store", "read"} => idx[t] \in Indices

\* A slot whose fs is still 0 names a thread only while that thread is about to
\* store its fs there.
EmptyFsIsPending ==
    \A i \in Indices, t \in Threads :
        THREAD_FS_MAP[i].fs = NoFs /\ THREAD_FS_MAP[i].tid = t =>
            pc[t] = "store" /\ idx[t] = i /\ "fs" \in todo[t]

\* Once a thread has stored its fs, or found its tid, the fs there is not 0.
StoredFs ==
    \A t \in Threads :
        pc[t] = "read" \/ (pc[t] = "store" /\ "fs" \notin todo[t]) =>
            THREAD_FS_MAP[idx[t]].fs # NoFs

\* What a handler gives back on its return is not 0.
SavedFs ==
    \A t \in Threads :
        pc[t] \notin {"none", "scan", "store", "swap", "guest"} => saved[t] # NoFs

TableInv == IdxInTable /\ EmptyFsIsPending /\ StoredFs

TypeInv == TypeOK /\ SavedFs /\ TableInv

\* One step keeps the types, and what a handler has saved.
LEMMA TypeStep ==
    ASSUME TypeInv, [NestedNext]_vars
    PROVE  TypeOK' /\ SavedFs'
<1> USE TrapDispatcherAssumption, FsFacts
           DEF TypeInv, TypeOK, SavedFs, Goes, locks, counters, Places, RustCode
<1>0. CASE UNCHANGED vars
  BY <1>0 DEF vars, tables
<1>1. ASSUME NEW t \in Threads, RegisterScan(t) PROVE TypeOK' /\ SavedFs'
  <2>1. idx[t] \in 0 .. Slots /\ (idx[t] < Slots => idx[t] + 1 \in 0 .. Slots)
    OBVIOUS
  <2>2. idx' \in [Threads -> 0 .. Slots] /\ todo' \in [Threads -> SUBSET {"tid", "fs"}]
    BY <1>1, <2>1 DEF RegisterScan
  <2>3. /\ pc' \in [Threads -> Places]
        /\ pc[t] = "scan" /\ pc'[t] \in {"scan", "store", "swap"}
        /\ \A u \in Threads \ {t} : pc'[u] = pc[u]
    BY <1>1 DEF RegisterScan
  <2> QED
    BY <1>1, <2>2, <2>3 DEF RegisterScan
<1>2. ASSUME NEW t \in Threads, NEW f \in {"tid", "fs"}, RegisterStore(t, f)
      PROVE  TypeOK' /\ SavedFs'
  BY <1>2 DEF RegisterStore, TableInv, IdxInTable, StoredFs, Indices
<1>3. ASSUME NEW t \in Threads, SwapToGuest(t) PROVE TypeOK' /\ SavedFs'
  BY <1>3 DEF SwapToGuest, tables
<1>4. ASSUME NEW t \in Threads, LookupTid(t) PROVE TypeOK' /\ SavedFs'
  <2>1. idx' = idx \/ \E i \in Indices : idx' = [idx EXCEPT ![t] = i]
    BY <1>4 DEF LookupTid
  <2>3. \A i \in Indices : i \in 0 .. Slots
    BY DEF Indices
  <2>4. idx' \in [Threads -> 0 .. Slots]
    BY <2>1, <2>3
  <2>2. /\ pc' \in [Threads -> Places]
        /\ pc[t] = "lookup"
        /\ \A u \in Threads \ {t} : pc'[u] = pc[u]
    BY <1>4 DEF LookupTid, NotFound
  <2> QED
    BY <1>4, <2>4, <2>2 DEF LookupTid
<1>5. ASSUME NEW t \in Threads, LookupFs(t) PROVE TypeOK' /\ SavedFs'
  BY <1>5 DEF LookupFs, HandlerFs, tables, TableInv, IdxInTable, StoredFs, Indices
<1>6. ASSUME NEW t \in Threads, MinimalReturn(t) PROVE TypeOK' /\ SavedFs'
  BY <1>6 DEF MinimalReturn, ReturnsToGuest, FsOnReturn, tables
<1>7. ASSUME NEW t \in Threads, Dispatch(t) PROVE TypeOK' /\ SavedFs'
  BY <1>7 DEF Dispatch, tables
<1>8. ASSUME NEW t \in Threads, DispatchStops(t) PROVE TypeOK' /\ SavedFs'
  BY <1>8 DEF DispatchStops, Stops, tables
<1>9. ASSUME NEW t \in Threads, AllocOuter(t) PROVE TypeOK' /\ SavedFs'
  BY <1>9 DEF AllocOuter, tables
<1>10. ASSUME NEW t \in Threads, AllocInner(t) PROVE TypeOK' /\ SavedFs'
  BY <1>10 DEF AllocInner, tables
<1>11. ASSUME NEW t \in Threads, AllocLeave(t) PROVE TypeOK' /\ SavedFs'
  BY <1>11 DEF AllocLeave, InnerOnLeave, tables
<1>12. ASSUME NEW t \in Threads, CreateClone(t) PROVE TypeOK' /\ SavedFs'
  BY <1>12 DEF CreateClone, tables
<1>13. ASSUME NEW t \in Threads, CreateTcb(t) PROVE TypeOK' /\ SavedFs'
  BY <1>13 DEF CreateTcb, tables
<1>14. ASSUME NEW t \in Threads, CreateStack(t) PROVE TypeOK' /\ SavedFs'
  BY <1>14 DEF CreateStack, tables
<1>15. ASSUME NEW t \in Threads, NEW u \in Threads, CreateSpawn(t, u)
      PROVE  TypeOK' /\ SavedFs'
  BY <1>15 DEF CreateSpawn, tables
<1>16. ASSUME NEW t \in Threads, CreateSpawnFails(t) PROVE TypeOK' /\ SavedFs'
  BY <1>16 DEF CreateSpawnFails, tables
<1>17. ASSUME NEW t \in Threads, Return(t) PROVE TypeOK' /\ SavedFs'
  BY <1>17 DEF Return, ReturnsToGuest, FsOnReturn, tables
<1>18. ASSUME NEW t \in Threads, SegvCount(t) PROVE TypeOK' /\ SavedFs'
  BY <1>18 DEF SegvCount, MayRecover, tables
<1>19. ASSUME NEW t \in Threads, UnwindFound(t) PROVE TypeOK' /\ SavedFs'
  BY <1>19 DEF UnwindFound, ReturnsToGuest, FsOnReturn, tables
<1>20. ASSUME NEW t \in Threads, UnwindFails(t) PROVE TypeOK' /\ SavedFs'
  BY <1>20 DEF UnwindFails, tables
<1>21. ASSUME NEW t \in Threads, Fatal(t) PROVE TypeOK' /\ SavedFs'
  BY <1>21 DEF Fatal, Stops, tables
<1>22. ASSUME NEW t \in Threads, Trap(t) PROVE TypeOK' /\ SavedFs'
  BY <1>22 DEF Trap, EnterHandler, tables
<1>23. ASSUME NEW t \in Threads, SegvGuest(t) PROVE TypeOK' /\ SavedFs'
  BY <1>23 DEF SegvGuest, EnterHandler, tables
<1>24. ASSUME NEW t \in Threads, SegvNested(t) PROVE TypeOK' /\ SavedFs'
  BY <1>24 DEF SegvNested, Dereferences, EnterHandler, tables
<1> QED
  BY <1>0, <1>1, <1>2, <1>3, <1>4, <1>5, <1>6, <1>7, <1>8, <1>9, <1>10, <1>11, <1>12,
     <1>13, <1>14, <1>15, <1>16, <1>17, <1>18, <1>19, <1>20, <1>21, <1>22, <1>23, <1>24
  DEF NestedNext, Next, Start, Handles, Locks

\* A step that leaves the table alone, and moves no thread into or out of a store
\* or a load, keeps what is known of it.
LEMMA TableUnchanged ==
    ASSUME TypeInv, UNCHANGED tables,
           \A t \in Threads :
               pc[t] = "store" \/ pc'[t] \in {"store", "read"} => pc'[t] = pc[t]
    PROVE  TableInv'
BY DEF TypeInv, TypeOK, TableInv, IdxInTable, EmptyFsIsPending, StoredFs, tables, Indices

\* One step keeps what is known of the table.
LEMMA TableStep ==
    ASSUME TypeInv, [NestedNext]_vars
    PROVE  TableInv'
<1> USE TrapDispatcherAssumption, FsFacts DEF Goes
<1>0. CASE UNCHANGED vars
  BY <1>0, TableUnchanged DEF vars, tables
<1>1. ASSUME NEW t \in Threads, RegisterScan(t) PROVE TableInv'
  <2> USE DEF TypeInv
  <2>1. /\ pc[t] = "scan"
        /\ \A u \in Threads \ {t} : pc'[u] = pc[u] /\ idx'[u] = idx[u] /\ todo'[u] = todo[u]
        /\ THREAD_FS_MAP' = THREAD_FS_MAP
    BY <1>1 DEF RegisterScan, TypeOK
  <2>2. \/ pc'[t] \in {"scan", "swap"}
        \/ /\ pc'[t] = "store" /\ todo'[t] = {"tid", "fs"}
           /\ idx'[t] = idx[t] /\ idx[t] \in Indices
    BY <1>1 DEF RegisterScan, TypeOK, Indices
  <2>3. IdxInTable'
    BY <2>1, <2>2 DEF TableInv, IdxInTable, Indices
  <2>4. EmptyFsIsPending'
    BY <2>1 DEF TableInv, EmptyFsIsPending, Indices
  <2>5. StoredFs'
    BY <2>1, <2>2 DEF TableInv, StoredFs
  <2> QED
    BY <2>3, <2>4, <2>5 DEF TableInv
<1>2. ASSUME NEW t \in Threads, NEW f \in {"tid", "fs"}, RegisterStore(t, f)
      PROVE  TableInv'
  <2> DEFINE i == idx[t]
  <2> USE DEF TypeInv, TypeOK, Indices
  <2>1. /\ i \in Indices
        /\ \A j \in Indices \ {i} : THREAD_FS_MAP'[j] = THREAD_FS_MAP[j]
        /\ f = "tid" => /\ THREAD_FS_MAP'[i].tid = t
                        /\ THREAD_FS_MAP'[i].fs = THREAD_FS_MAP[i].fs
        /\ f = "fs" => /\ THREAD_FS_MAP'[i].fs = Host(t)
                       /\ THREAD_FS_MAP'[i].tid = THREAD_FS_MAP[i].tid
    BY <1>2 DEF RegisterStore, TableInv, IdxInTable
  <2>2. /\ pc[t] = "store" /\ pc'[t] \in {"store", "swap"}
        /\ f \in todo[t]
        /\ pc'[t] = "swap" => todo[t] = {f}
        /\ todo'[t] = todo[t] \ {f}
        /\ \A u \in Threads \ {t} : pc'[u] = pc[u] /\ todo'[u] = todo[u]
        /\ idx' = idx
    BY <1>2 DEF RegisterStore
  <2>3. IdxInTable'
    BY <2>1, <2>2 DEF TableInv, IdxInTable
  <2>4. \A j \in Indices : THREAD_FS_MAP'[j].fs = NoFs =>
            THREAD_FS_MAP[j].fs = NoFs /\ (j = i => f = "tid" /\ "fs" \in todo[t])
    BY <2>1, <2>2, FsFacts DEF TableInv, StoredFs
  <2>5. EmptyFsIsPending'
    <3> SUFFICES ASSUME NEW j \in Indices, NEW u \in Threads,
                        THREAD_FS_MAP'[j].fs = NoFs, THREAD_FS_MAP'[j].tid = u
                 PROVE  pc'[u] = "store" /\ idx'[u] = j /\ "fs" \in todo'[u]
      BY DEF EmptyFsIsPending
    <3>1. CASE j = i
      <4>1. u = t /\ "fs" \in todo[t] /\ f = "tid"
        BY <3>1, <2>1, <2>4
      <4> QED
        BY <3>1, <4>1, <2>2
    <3>2. CASE j # i
      <4>1. pc[u] = "store" /\ idx[u] = j /\ "fs" \in todo[u]
        BY <3>2, <2>1 DEF TableInv, EmptyFsIsPending
      <4> QED
        BY <3>2, <4>1, <2>2
    <3> QED
      BY <3>1, <3>2
  <2>6. StoredFs'
    BY <2>1, <2>2, <2>4, <2>3, FsFacts DEF TableInv, StoredFs, IdxInTable
  <2> QED
    BY <2>3, <2>5, <2>6 DEF TableInv
<1>3. ASSUME NEW t \in Threads, SwapToGuest(t) PROVE TableInv'
  BY <1>3, TableUnchanged DEF SwapToGuest, tables, TypeInv, TypeOK
<1>4. ASSUME NEW t \in Threads, LookupTid(t) PROVE TableInv'
  <2> USE DEF TypeInv, TypeOK
  <2>1. CASE Goes(t, "lookup", NotFound(t)) /\ UNCHANGED idx
    BY <1>4, <2>1, TableUnchanged DEF LookupTid, NotFound, tables
  <2>2. ASSUME NEW i \in Indices, THREAD_FS_MAP[i].tid = t, Goes(t, "lookup", "read"),
               idx' = [idx EXCEPT ![t] = i]
        PROVE  TableInv'
    <3>1. UNCHANGED <<todo, THREAD_FS_MAP>>
      BY <1>4 DEF LookupTid
    <3>2. THREAD_FS_MAP[i].fs # NoFs
      BY <2>2 DEF TableInv, EmptyFsIsPending
    <3>3. /\ pc[t] = "lookup" /\ pc'[t] = "read" /\ idx'[t] = i
          /\ \A u \in Threads \ {t} : pc'[u] = pc[u] /\ idx'[u] = idx[u]
      BY <2>2
    <3> HIDE DEF TypeInv, TypeOK
    <3>4. IdxInTable' /\ EmptyFsIsPending' /\ StoredFs'
      BY <3>1, <3>2, <3>3 DEF TypeInv, TableInv, IdxInTable, EmptyFsIsPending, StoredFs
    <3> QED
      BY <3>4 DEF TableInv
  <2> QED
    BY <1>4, <2>1, <2>2 DEF LookupTid
<1>5. ASSUME NEW t \in Threads, LookupFs(t) PROVE TableInv'
  BY <1>5, TableUnchanged DEF LookupFs, HandlerFs, tables, TypeInv, TypeOK
<1>6. ASSUME NEW t \in Threads, MinimalReturn(t) PROVE TableInv'
  BY <1>6, TableUnchanged
     DEF MinimalReturn, ReturnsToGuest, FsOnReturn, tables, TypeInv, TypeOK
<1>7. ASSUME NEW t \in Threads, Dispatch(t) PROVE TableInv'
  BY <1>7, TableUnchanged DEF Dispatch, tables, TypeInv, TypeOK
<1>8. ASSUME NEW t \in Threads, DispatchStops(t) PROVE TableInv'
  BY <1>8, TableUnchanged DEF DispatchStops, Stops, tables, TypeInv, TypeOK
<1>9. ASSUME NEW t \in Threads, AllocOuter(t) PROVE TableInv'
  BY <1>9, TableUnchanged DEF AllocOuter, tables, TypeInv, TypeOK
<1>10. ASSUME NEW t \in Threads, AllocInner(t) PROVE TableInv'
  BY <1>10, TableUnchanged DEF AllocInner, tables, TypeInv, TypeOK
<1>11. ASSUME NEW t \in Threads, AllocLeave(t) PROVE TableInv'
  BY <1>11, TableUnchanged DEF AllocLeave, InnerOnLeave, tables, TypeInv, TypeOK
<1>12. ASSUME NEW t \in Threads, CreateClone(t) PROVE TableInv'
  BY <1>12, TableUnchanged DEF CreateClone, tables, TypeInv, TypeOK
<1>13. ASSUME NEW t \in Threads, CreateTcb(t) PROVE TableInv'
  BY <1>13, TableUnchanged DEF CreateTcb, tables, TypeInv, TypeOK
<1>14. ASSUME NEW t \in Threads, CreateStack(t) PROVE TableInv'
  BY <1>14, TableUnchanged DEF CreateStack, tables, TypeInv, TypeOK
<1>15. ASSUME NEW t \in Threads, NEW u \in Threads, CreateSpawn(t, u)
      PROVE  TableInv'
  BY <1>15, TableUnchanged DEF CreateSpawn, tables, TypeInv, TypeOK
<1>16. ASSUME NEW t \in Threads, CreateSpawnFails(t) PROVE TableInv'
  BY <1>16, TableUnchanged DEF CreateSpawnFails, tables, TypeInv, TypeOK
<1>17. ASSUME NEW t \in Threads, Return(t) PROVE TableInv'
  BY <1>17, TableUnchanged
     DEF Return, ReturnsToGuest, FsOnReturn, tables, TypeInv, TypeOK
<1>18. ASSUME NEW t \in Threads, SegvCount(t) PROVE TableInv'
  BY <1>18, TableUnchanged DEF SegvCount, MayRecover, tables, TypeInv, TypeOK
<1>19. ASSUME NEW t \in Threads, UnwindFound(t) PROVE TableInv'
  BY <1>19, TableUnchanged
     DEF UnwindFound, ReturnsToGuest, FsOnReturn, tables, TypeInv, TypeOK
<1>20. ASSUME NEW t \in Threads, UnwindFails(t) PROVE TableInv'
  BY <1>20, TableUnchanged DEF UnwindFails, tables, TypeInv, TypeOK
<1>21. ASSUME NEW t \in Threads, Fatal(t) PROVE TableInv'
  BY <1>21, TableUnchanged DEF Fatal, Stops, tables, TypeInv, TypeOK
<1>22. ASSUME NEW t \in Threads, Trap(t) PROVE TableInv'
  BY <1>22, TableUnchanged DEF Trap, EnterHandler, tables, TypeInv, TypeOK
<1>23. ASSUME NEW t \in Threads, SegvGuest(t) PROVE TableInv'
  BY <1>23, TableUnchanged DEF SegvGuest, EnterHandler, tables, TypeInv, TypeOK
<1>24. ASSUME NEW t \in Threads, SegvNested(t) PROVE TableInv'
  BY <1>24, TableUnchanged
     DEF SegvNested, Dereferences, EnterHandler, tables, TypeInv, TypeOK
<1> QED
  BY <1>0, <1>1, <1>2, <1>3, <1>4, <1>5, <1>6, <1>7, <1>8, <1>9, <1>10, <1>11, <1>12,
     <1>13, <1>14, <1>15, <1>16, <1>17, <1>18, <1>19, <1>20, <1>21, <1>22, <1>23, <1>24
  DEF NestedNext, Next, Start, Handles, Locks

LEMMA InitTypes ==
    ASSUME Init
    PROVE  TypeInv
<1>1. NoFs \in FsValues
  BY DEF FsValues
<1>2. \A i \in Indices : THREAD_FS_MAP[i].tid = NoTid
  BY DEF Init
<1>3. THREAD_FS_MAP \in [Indices -> [tid : Threads \cup {NoTid}, fs : FsValues]]
  BY <1>1 DEF Init
<1>4. /\ pc \in [Threads -> Places]
      /\ \A t \in Threads : pc[t] \in {"none", "scan"}
  BY DEF Init, Places, RustCode
<1>5. TypeOK
  <2>1. \A t \in Threads : Host(t) \in FsValues \ {NoFs}
    BY FsFacts
  <2>2. fs \in [Threads -> FsValues \ {NoFs}] /\ saved \in [Threads -> FsValues]
    BY <1>1, <2>1 DEF Init
  <2>3. idx \in [Threads -> 0 .. Slots] /\ count \in 0 .. MAX_SIGSEGV_RECOVERIES
    BY TrapDispatcherAssumption DEF Init
  <2> QED
    BY <1>3, <1>4, <2>2, <2>3 DEF Init, TypeOK
<1>6. SavedFs /\ IdxInTable /\ StoredFs
  BY <1>4 DEF SavedFs, IdxInTable, StoredFs
<1>7. EmptyFsIsPending
  BY <1>2, TrapDispatcherAssumption DEF EmptyFsIsPending
<1> QED
  BY <1>5, <1>6, <1>7 DEF TypeInv, TableInv

\* THEOREM: every thread's FS_BASE, handler and place stay within their types; in
\* particular get_thread_fs never answers 0 for a thread that has registered, and no
\* thread is ever resumed with FS_BASE 0.
THEOREM TypeCorrect == NestedSpec => []TypeOK
<1>1. Init => TypeInv
  BY InitTypes
<1>2. TypeInv /\ [NestedNext]_vars => TypeInv'
  BY TypeStep, TableStep DEF TypeInv
<1>3. TypeInv => TypeOK
  BY DEF TypeInv
<1> QED
  BY <1>1, <1>2, <1>3, PTL DEF NestedSpec

-----------------------------------------------------------------------------
(* The table under the unlocked writes of the threads that start, faults   *)
(* inside the handlers included.                                           *)

\* Slot i has a word that thread t stored.
Traces(t, i) == THREAD_FS_MAP[i].tid = t \/ THREAD_FS_MAP[i].fs = Host(t)

\* A thread stores into one slot only, the one its index stays at.
OneSlot ==
    \A t \in Threads, i \in Indices :
        Traces(t, i) => pc[t] \notin {"none", "scan"} /\ idx[t] = i

\* A thread that starts has the FS_BASE the host gave it; later on, Rust code has
\* it if the entry is whole.
HostFs ==
    \A t \in Threads :
        /\ pc[t] \in {"none", "scan", "store", "swap"} => fs[t] = Host(t)
        /\ pc[t] \in RustCode /\ InTable(t) => fs[t] = Host(t)

\* The main thread is alone until its entry is there, and slot 0 is no one else's.
MainFirst ==
    /\ pc[Main] # "none"
    /\ pc[Main] \in {"scan", "store"} =>
          /\ idx[Main] = 0
          /\ \A u \in Threads \ {Main} : pc[u] = "none"
    /\ pc[Main] = "scan" => THREAD_FS_MAP[0].tid = NoTid
    /\ pc[Main] = "store" => /\ "tid" \notin todo[Main] => THREAD_FS_MAP[0].tid = Main
                             /\ "fs" \notin todo[Main] => THREAD_FS_MAP[0].fs = Host(Main)
    /\ pc[Main] \notin {"scan", "store"} =>
          /\ THREAD_FS_MAP[0].tid = Main /\ THREAD_FS_MAP[0].fs = Host(Main)
          /\ \A u \in Threads \ {Main} : pc[u] = "store" => idx[u] # 0

OwnInv == TypeInv /\ OneSlot /\ HostFs /\ MainFirst

\* The FS_BASEs of two threads differ, and an entry is its two words.
LEMMA EntryFacts ==
    ASSUME TypeOK
    PROVE  /\ 0 \in Indices
           /\ \A t, u \in Threads : Host(t) = Host(u) => t = u
           /\ \A t \in Threads : Host(t) # NoFs /\ t # NoTid
           /\ \A t \in Threads, i \in Indices :
                 THREAD_FS_MAP[i] = [tid |-> t, fs |-> Host(t)]
                 <=> THREAD_FS_MAP[i].tid = t /\ THREAD_FS_MAP[i].fs = Host(t)
<1>1. 0 \in Indices
  BY TrapDispatcherAssumption DEF Indices
<1>2. \A t, u \in Threads : Host(t) = Host(u) => t = u
  BY DEF Host
<1>3. \A t \in Threads : Host(t) # NoFs /\ t # NoTid
  BY TrapDispatcherAssumption DEF Host, NoFs
<1>4. \A i \in Indices : THREAD_FS_MAP[i] \in [tid : Threads \cup {NoTid}, fs : FsValues]
  BY DEF TypeOK
<1>5. ASSUME NEW t \in Threads, NEW i \in Indices
      PROVE  THREAD_FS_MAP[i] = [tid |-> t, fs |-> Host(t)]
             <=> THREAD_FS_MAP[i].tid = t /\ THREAD_FS_MAP[i].fs = Host(t)
  BY <1>4
<1> QED
  BY <1>1, <1>2, <1>3, <1>5

\* A step that leaves the table alone, moves no thread into or out of its start, and
\* changes the FS_BASE of none that goes on with Rust code.
LEMMA OwnUnchanged ==
    ASSUME OwnInv, TypeInv', UNCHANGED tables,
           \A u \in Threads :
               /\ pc[u] \in {"none", "scan", "store"} \/ pc'[u] \in {"none", "scan", "store"} =>
                     pc'[u] = pc[u]
               /\ pc'[u] = "swap" => pc[u] = "swap"
               /\ pc'[u] \in RustCode \cup {"none"} =>
                     fs'[u] = fs[u] /\ pc[u] \in RustCode \cup {"none"}
    PROVE  OwnInv'
<1>1. /\ OneSlot /\ HostFs /\ MainFirst /\ Main \in Threads
      /\ idx' = idx /\ todo' = todo /\ THREAD_FS_MAP' = THREAD_FS_MAP
  BY TrapDispatcherAssumption DEF OwnInv, tables
<1>2. OneSlot'
  BY <1>1 DEF OneSlot, Traces
<1>3. HostFs'
  BY <1>1 DEF HostFs, InTable, RustCode
<1>4. MainFirst'
  BY <1>1 DEF MainFirst
<1> QED
  BY <1>2, <1>3, <1>4 DEF OwnInv

\* The search for a slot: slot 0 is free for the main thread alone.
LEMMA ScanKeepsOwn ==
    ASSUME OwnInv, TypeInv', NEW t \in Threads, RegisterScan(t)
    PROVE  OwnInv'
<1>1. /\ TypeOK /\ OneSlot /\ HostFs /\ MainFirst /\ Main \in Threads /\ 0 \in Indices
      /\ Main # NoTid
  BY TrapDispatcherAssumption, EntryFacts DEF OwnInv, TypeInv
<1>2. /\ pc[t] = "scan" /\ pc'[t] \in {"scan", "store", "swap"}
      /\ \A u \in Threads \ {t} : pc'[u] = pc[u] /\ idx'[u] = idx[u] /\ todo'[u] = todo[u]
      /\ UNCHANGED <<fs, THREAD_FS_MAP>>
      /\ pc'[t] = "store" => /\ idx'[t] = idx[t] /\ SlotUsable(t, idx[t])
                             /\ todo'[t] = {"tid", "fs"}
      /\ pc'[t] = "scan" => ~SlotUsable(t, idx[t])
      /\ pc'[t] = "swap" => idx[t] = Slots
  BY <1>1 DEF RegisterScan, TypeOK, Goes
<1>3. OneSlot'
  BY <1>1, <1>2 DEF OneSlot, Traces
<1>4. HostFs'
  BY <1>1, <1>2 DEF HostFs, InTable
<1>5. MainFirst'
  <2>1. CASE t = Main
    <3>1. idx[t] = 0 /\ THREAD_FS_MAP[0].tid = NoTid /\ \A u \in Threads \ {Main} : pc[u] = "none"
      BY <1>1, <1>2, <2>1 DEF MainFirst
    <3>2. SlotUsable(t, 0) /\ Slots # 0
      BY <3>1, TrapDispatcherAssumption DEF SlotUsable
    <3>3. pc'[t] = "store" /\ idx'[t] = 0 /\ todo'[t] = {"tid", "fs"}
      BY <1>2, <3>1, <3>2
    <3> QED
      BY <1>2, <2>1, <3>1, <3>3 DEF MainFirst
  <2>2. CASE t # Main
    <3>1. pc[Main] \notin {"none", "scan", "store"} /\ pc'[Main] = pc[Main]
      BY <1>1, <1>2, <2>2 DEF MainFirst
    <3>2. THREAD_FS_MAP[0].tid = Main /\ THREAD_FS_MAP[0].fs = Host(Main)
      BY <1>1, <3>1 DEF MainFirst
    <3>3. ~SlotUsable(t, 0)
      BY <1>1, <2>2, <3>2 DEF SlotUsable
    <3>4. pc'[t] = "store" => idx'[t] # 0
      BY <1>2, <3>3
    <3> QED
      BY <1>1, <1>2, <3>1, <3>2, <3>4 DEF MainFirst
  <2> QED
    BY <2>1, <2>2
<1> QED
  BY <1>3, <1>4, <1>5 DEF OwnInv

\* A store completes no entry but the thread's own, and spares the main thread's.
LEMMA StoreKeepsOwn ==
    ASSUME OwnInv, TypeInv', NEW t \in Threads, NEW f \in {"tid", "fs"}, RegisterStore(t, f)
    PROVE  OwnInv'
<1> DEFINE i == idx[t]
<1>1. /\ TypeOK /\ TypeOK' /\ OneSlot /\ HostFs /\ MainFirst /\ Main \in Threads /\ 0 \in Indices
  BY TrapDispatcherAssumption, EntryFacts DEF OwnInv, TypeInv
<1>2. /\ pc[t] = "store" /\ pc'[t] \in {"store", "swap"} /\ f \in todo[t]
      /\ pc'[t] = "swap" => todo[t] = {f}
      /\ todo'[t] = todo[t] \ {f}
      /\ \A u \in Threads \ {t} : pc'[u] = pc[u] /\ todo'[u] = todo[u]
      /\ idx' = idx /\ fs' = fs
  BY <1>1 DEF RegisterStore, TypeOK, Goes
<1>3. /\ i \in Indices
      /\ \A j \in Indices \ {i} : THREAD_FS_MAP'[j] = THREAD_FS_MAP[j]
      /\ f = "tid" => THREAD_FS_MAP'[i].tid = t /\ THREAD_FS_MAP'[i].fs = THREAD_FS_MAP[i].fs
      /\ f = "fs" => THREAD_FS_MAP'[i].fs = Host(t) /\ THREAD_FS_MAP'[i].tid = THREAD_FS_MAP[i].tid
  BY <1>1, <1>2 DEF RegisterStore, OwnInv, TypeInv, TypeOK, TableInv, IdxInTable
<1>4. \A u, v \in Threads : Host(u) = Host(v) => u = v
  BY <1>1, EntryFacts
<1> HIDE DEF i
<1>5. \A u \in Threads \ {t}, j \in Indices : Traces(u, j)' => Traces(u, j)
  BY <1>3, <1>4 DEF Traces
<1>6. OneSlot'
  <2>1. SUFFICES ASSUME NEW u \in Threads, NEW j \in Indices, Traces(u, j)'
                 PROVE  pc'[u] \notin {"none", "scan"} /\ idx'[u] = j
    BY DEF OneSlot
  <2>2. CASE u # t
    BY <1>1, <1>2, <1>5, <2>1, <2>2 DEF OneSlot
  <2>3. CASE u = t /\ j = i
    BY <1>2, <2>3 DEF i
  <2>4. CASE u = t /\ j # i
    <3>1. Traces(t, j)
      BY <1>3, <2>1, <2>4 DEF Traces
    <3> QED
      BY <1>1, <1>2, <2>4, <3>1 DEF OneSlot
  <2> QED
    BY <2>2, <2>3, <2>4
<1>7. ASSUME NEW u \in Threads, u # t, InTable(u)' PROVE InTable(u)
  <2>1. PICK j \in Indices : THREAD_FS_MAP'[j] = [tid |-> u, fs |-> Host(u)]
    BY <1>7 DEF InTable
  <2>2. THREAD_FS_MAP'[j].tid = u /\ THREAD_FS_MAP'[j].fs = Host(u)
    BY <2>1
  <2>3. j # i
    BY <1>3, <1>4, <1>7, <2>2
  <2> QED
    BY <1>3, <2>1, <2>3 DEF InTable
<1>8. HostFs'
  <2>1. SUFFICES ASSUME NEW u \in Threads
                 PROVE  /\ pc'[u] \in {"none", "scan", "store", "swap"} => fs'[u] = Host(u)
                        /\ pc'[u] \in RustCode /\ InTable(u)' => fs'[u] = Host(u)
    BY DEF HostFs
  <2>2. CASE u = t
    BY <1>1, <1>2, <2>2 DEF HostFs
  <2>3. CASE u # t
    BY <1>1, <1>2, <1>7, <2>3 DEF HostFs
  <2> QED
    BY <2>2, <2>3
<1>9. MainFirst'
  <2>1. CASE t = Main
    <3>1. /\ i = 0 /\ \A u \in Threads \ {Main} : pc[u] = "none"
          /\ "tid" \notin todo[Main] => THREAD_FS_MAP[0].tid = Main
          /\ "fs" \notin todo[Main] => THREAD_FS_MAP[0].fs = Host(Main)
      BY <1>1, <1>2, <2>1 DEF MainFirst, i
    <3>2. /\ "tid" \notin todo'[Main] => THREAD_FS_MAP'[0].tid = Main
          /\ "fs" \notin todo'[Main] => THREAD_FS_MAP'[0].fs = Host(Main)
      BY <1>2, <1>3, <2>1, <3>1
    <3>3. pc'[Main] = "swap" => "tid" \notin todo'[Main] /\ "fs" \notin todo'[Main]
      BY <1>2, <2>1
    <3>4. pc'[Main] \in {"store", "swap"} /\ idx'[Main] = 0
          /\ \A u \in Threads \ {Main} : pc'[u] = "none"
      BY <1>2, <2>1, <3>1 DEF i
    <3> QED
      BY <3>2, <3>3, <3>4 DEF MainFirst
  <2>2. CASE t # Main
    <3>1. pc[Main] \notin {"none", "scan", "store"} /\ pc'[Main] = pc[Main]
      BY <1>1, <1>2, <2>2 DEF MainFirst
    <3>2. /\ THREAD_FS_MAP[0].tid = Main /\ THREAD_FS_MAP[0].fs = Host(Main)
          /\ \A u \in Threads \ {Main} : pc[u] = "store" => idx[u] # 0
      BY <1>1, <3>1 DEF MainFirst
    <3>3. THREAD_FS_MAP'[0] = THREAD_FS_MAP[0]
      BY <1>1, <1>2, <1>3, <2>2, <3>2 DEF i
    <3>4. \A u \in Threads \ {Main} : pc'[u] = "store" => idx'[u] # 0
      BY <1>2, <2>2, <3>2
    <3> QED
      BY <3>1, <3>2, <3>3, <3>4 DEF MainFirst
  <2> QED
    BY <2>1, <2>2
<1> QED
  BY <1>6, <1>8, <1>9 DEF OwnInv

\* get_thread_fs finds the thread's only slot or none.
LEMMA LookupKeepsOwn ==
    ASSUME OwnInv, TypeInv', NEW t \in Threads, LookupTid(t)
    PROVE  OwnInv'
<1>1. TypeOK /\ OneSlot /\ HostFs /\ MainFirst /\ Main \in Threads
  BY TrapDispatcherAssumption DEF OwnInv, TypeInv
<1>2. /\ pc[t] = "lookup" /\ pc'[t] \in {"read", "minimal", "segv"}
      /\ \A u \in Threads \ {t} : pc'[u] = pc[u]
      /\ UNCHANGED <<fs, todo, THREAD_FS_MAP>>
  BY <1>1 DEF LookupTid, TypeOK, Goes, NotFound
<1>3. idx' = idx
  BY <1>1 DEF LookupTid, TypeOK, OneSlot, Traces
<1>4. pc'[t] = "segv" => ~InTable(t)
  <2>1. pc'[t] = "segv" => \A j \in Indices : THREAD_FS_MAP[j].tid # t
    BY <1>1 DEF LookupTid, TypeOK, Goes
  <2>2. InTable(t) => \E j \in Indices : THREAD_FS_MAP[j].tid = t
    BY <1>1, EntryFacts DEF InTable
  <2> QED
    BY <2>1, <2>2
<1>5. OneSlot'
  BY <1>1, <1>2, <1>3 DEF OneSlot, Traces
<1>6. HostFs'
  BY <1>1, <1>2, <1>4 DEF HostFs, InTable, RustCode
<1>7. MainFirst'
  BY <1>1, <1>2, <1>3 DEF MainFirst
<1> QED
  BY <1>5, <1>6, <1>7 DEF OwnInv

\* What it loads there is the thread's own FS_BASE if the entry is whole.
LEMMA LoadKeepsOwn ==
    ASSUME OwnInv, TypeInv', NEW t \in Threads, LookupFs(t)
    PROVE  OwnInv'
<1>1. TypeOK /\ OneSlot /\ HostFs /\ MainFirst /\ Main \in Threads
  BY TrapDispatcherAssumption DEF OwnInv, TypeInv
<1>2. /\ pc[t] = "read" /\ pc'[t] \in {"dispatch", "segv"} /\ fs'[t] = THREAD_FS_MAP[idx[t]].fs
      /\ \A u \in Threads \ {t} : pc'[u] = pc[u] /\ fs'[u] = fs[u]
      /\ UNCHANGED <<idx, todo, THREAD_FS_MAP>>
  BY <1>1 DEF LookupFs, HandlerFs, TypeOK, Goes, tables
<1>3. InTable(t) => fs'[t] = Host(t)
  <2>1. SUFFICES ASSUME NEW i \in Indices, THREAD_FS_MAP[i] = [tid |-> t, fs |-> Host(t)]
                 PROVE  THREAD_FS_MAP[idx[t]].fs = Host(t)
    BY <1>2 DEF InTable
  <2>2. THREAD_FS_MAP[i].tid = t /\ THREAD_FS_MAP[i].fs = Host(t)
    BY <1>1, <2>1, EntryFacts
  <2>3. idx[t] = i
    BY <1>1, <2>2 DEF OneSlot, Traces
  <2> QED
    BY <2>2, <2>3
<1>4. OneSlot'
  BY <1>1, <1>2 DEF OneSlot, Traces
<1>5. HostFs'
  BY <1>1, <1>2, <1>3 DEF HostFs, InTable, RustCode
<1>6. MainFirst'
  BY <1>1, <1>2 DEF MainFirst
<1> QED
  BY <1>4, <1>5, <1>6 DEF OwnInv

\* A new thread has the FS_BASE the host gave it, and the main thread has its entry.
LEMMA SpawnKeepsOwn ==
    ASSUME OwnInv, TypeInv', NEW t \in Threads, NEW u \in Threads, CreateSpawn(t, u)
    PROVE  OwnInv'
<1>1. TypeOK /\ OneSlot /\ HostFs /\ MainFirst /\ Main \in Threads
  BY TrapDispatcherAssumption DEF OwnInv, TypeInv
<1>2. /\ pc[t] = "spawn" /\ pc[u] = "none" /\ pc'[t] = "return" /\ pc'[u] = "scan"
      /\ \A v \in Threads \ {t, u} : pc'[v] = pc[v]
      /\ UNCHANGED <<fs, idx, todo, THREAD_FS_MAP>>
  BY <1>1 DEF CreateSpawn, TypeOK, tables
<1>3. OneSlot'
  BY <1>1, <1>2 DEF OneSlot, Traces
<1>4. HostFs'
  BY <1>1, <1>2 DEF HostFs, InTable, RustCode
<1>5. MainFirst'
  BY <1>1, <1>2 DEF MainFirst
<1> QED
  BY <1>3, <1>4, <1>5 DEF OwnInv

\* One step keeps it.
LEMMA OwnStep ==
    ASSUME OwnInv, [NestedNext]_vars
    PROVE  OwnInv'
<1>0. TypeInv' /\ pc \in [Threads -> Places] /\ fs \in [Threads -> FsValues \ {NoFs}]
  BY TypeStep, TableStep DEF OwnInv, TypeInv, TypeOK
<1>1. CASE UNCHANGED vars
  BY <1>0, <1>1, OwnUnchanged DEF vars, tables
<1>2. ASSUME NEW t \in Threads, Start(t) PROVE OwnInv'
  <2>1. CASE SwapToGuest(t)
    BY <1>0, <2>1, OwnUnchanged DEF SwapToGuest, Goes, RustCode
  <2> QED
    BY <1>0, <1>2, <2>1, ScanKeepsOwn, StoreKeepsOwn DEF Start
<1>3. ASSUME NEW t \in Threads, Locks(t) PROVE OwnInv'
  BY <1>0, <1>3, OwnUnchanged
  DEF Locks, AllocOuter, AllocInner, CreateClone, CreateTcb, CreateStack, Goes, RustCode
<1>4. ASSUME NEW t \in Threads, Handles(t) PROVE OwnInv'
  <2>1. CASE MinimalReturn(t) \/ Return(t) \/ UnwindFound(t)
    BY <1>0, <2>1, OwnUnchanged
    DEF MinimalReturn, Return, UnwindFound, ReturnsToGuest, Goes, RustCode
  <2>2. CASE Dispatch(t) \/ AllocLeave(t) \/ CreateSpawnFails(t) \/ SegvCount(t) \/ UnwindFails(t)
    BY <1>0, <2>2, OwnUnchanged
    DEF Dispatch, AllocLeave, CreateSpawnFails, SegvCount, UnwindFails, Goes, RustCode
  <2>3. CASE DispatchStops(t) \/ Fatal(t)
    BY <1>0, <2>3, OwnUnchanged DEF DispatchStops, Fatal, Stops
  <2>4. CASE LookupTid(t) \/ LookupFs(t) \/ \E u \in Threads : CreateSpawn(t, u)
    BY <1>0, <2>4, LookupKeepsOwn, LoadKeepsOwn, SpawnKeepsOwn
  <2> QED
    BY <1>4, <2>1, <2>2, <2>3, <2>4 DEF Handles
<1>5. ASSUME NEW t \in Threads, Trap(t) \/ SegvGuest(t) \/ SegvNested(t) PROVE OwnInv'
  BY <1>0, <1>5, OwnUnchanged
  DEF Trap, SegvGuest, SegvNested, Dereferences, EnterHandler, Goes, RustCode
<1> QED
  BY <1>1, <1>2, <1>3, <1>4, <1>5 DEF NestedNext, Next

\* THEOREM: whatever the threads that start do to the table between its search and
\* its load, and even when handlers fault, a thread whose entry is whole runs Rust
\* code with its own thread-local storage, and the main thread's entry stays whole,
\* for any number of threads and slots.
THEOREM OwnTlsInRust == NestedSpec => []OwnHostTls
<1>1. Init => OwnInv
  <2> SUFFICES ASSUME Init PROVE OwnInv
    OBVIOUS
  <2>1. TypeInv
    BY InitTypes
  <2>2. /\ Main \in Threads /\ 0 \in Indices
        /\ \A t \in Threads : t # NoTid /\ Host(t) # NoFs
    BY <2>1, TrapDispatcherAssumption, EntryFacts DEF TypeInv
  <2>3. OneSlot
    BY <2>2 DEF Init, OneSlot, Traces
  <2>4. HostFs
    BY DEF Init, HostFs
  <2>5. MainFirst
    BY <2>2 DEF Init, MainFirst
  <2> QED
    BY <2>1, <2>3, <2>4, <2>5 DEF OwnInv
<1>2. OwnInv /\ [NestedNext]_vars => OwnInv'
  BY OwnStep
<1>3. OwnInv => OwnHostTls
  <2> SUFFICES ASSUME OwnInv PROVE OwnHostTls
    OBVIOUS
  <2>1. TypeOK /\ HostFs /\ MainFirst /\ Main \in Threads
    BY TrapDispatcherAssumption DEF OwnInv, TypeInv
  <2>2. pc[Main] \notin {"scan", "store"} => InTable(Main)
    BY <2>1, EntryFacts DEF MainFirst, InTable
  <2> QED
    BY <2>1, <2>2 DEF OwnHostTls, HostFs
<1> QED
  BY <1>1, <1>2, <1>3, PTL DEF NestedSpec

-----------------------------------------------------------------------------
(* Without faults inside a handler, guest code always has its own FS_BASE. *)

\* The functions have their domains: all the types this argument needs.
Domains ==
    /\ pc \in [Threads -> Places]
    /\ DOMAIN fs = Threads /\ DOMAIN saved = Threads

\* What a thread saves when it enters a handler is the guest's FS_BASE.
SavesGuestFs ==
    \A t \in Threads :
        pc[t] \notin {"none", "scan", "store", "swap", "guest"} => saved[t] = Guest(t)

GuestInv == Domains /\ GuestFs /\ SavesGuestFs

\* One step keeps it.
LEMMA GuestStep ==
    ASSUME GuestInv, [Next]_vars
    PROVE  GuestInv'
<1> USE TrapDispatcherAssumption
       DEF GuestInv, Domains, GuestFs, SavesGuestFs, Goes, locks, Places, RustCode
<1>0. CASE UNCHANGED vars
  BY <1>0 DEF vars
<1>1. ASSUME NEW t \in Threads, RegisterScan(t) PROVE GuestInv'
  BY <1>1 DEF RegisterScan
<1>2. ASSUME NEW t \in Threads, NEW f \in {"tid", "fs"}, RegisterStore(t, f)
      PROVE  GuestInv'
  BY <1>2 DEF RegisterStore
<1>3. ASSUME NEW t \in Threads, SwapToGuest(t) PROVE GuestInv'
  BY <1>3 DEF SwapToGuest
<1>4. ASSUME NEW t \in Threads, LookupTid(t) PROVE GuestInv'
  BY <1>4 DEF LookupTid, NotFound
<1>5. ASSUME NEW t \in Threads, LookupFs(t) PROVE GuestInv'
  BY <1>5 DEF LookupFs, HandlerFs
<1>6. ASSUME NEW t \in Threads, MinimalReturn(t) PROVE GuestInv'
  BY <1>6 DEF MinimalReturn, ReturnsToGuest, FsOnReturn
<1>7. ASSUME NEW t \in Threads, Dispatch(t) PROVE GuestInv'
  BY <1>7 DEF Dispatch
<1>8. ASSUME NEW t \in Threads, DispatchStops(t) PROVE GuestInv'
  BY <1>8 DEF DispatchStops, Stops
<1>9. ASSUME NEW t \in Threads, AllocOuter(t) PROVE GuestInv'
  BY <1>9 DEF AllocOuter
<1>10. ASSUME NEW t \in Threads, AllocInner(t) PROVE GuestInv'
  BY <1>10 DEF AllocInner
<1>11. ASSUME NEW t \in Threads, AllocLeave(t) PROVE GuestInv'
  BY <1>11 DEF AllocLeave, InnerOnLeave
<1>12. ASSUME NEW t \in Threads, CreateClone(t) PROVE GuestInv'
  BY <1>12 DEF CreateClone
<1>13. ASSUME NEW t \in Threads, CreateTcb(t) PROVE GuestInv'
  BY <1>13 DEF CreateTcb
<1>14. ASSUME NEW t \in Threads, CreateStack(t) PROVE GuestInv'
  BY <1>14 DEF CreateStack
<1>15. ASSUME NEW t \in Threads, NEW u \in Threads, CreateSpawn(t, u)
      PROVE  GuestInv'
  BY <1>15 DEF CreateSpawn
<1>16. ASSUME NEW t \in Threads, CreateSpawnFails(t) PROVE GuestInv'
  BY <1>16 DEF CreateSpawnFails
<1>17. ASSUME NEW t \in Threads, Return(t) PROVE GuestInv'
  BY <1>17 DEF Return, ReturnsToGuest, FsOnReturn
<1>18. ASSUME NEW t \in Threads, SegvCount(t) PROVE GuestInv'
  BY <1>18 DEF SegvCount, MayRecover
<1>19. ASSUME NEW t \in Threads, UnwindFound(t) PROVE GuestInv'
  BY <1>19 DEF UnwindFound, ReturnsToGuest, FsOnReturn
<1>20. ASSUME NEW t \in Threads, UnwindFails(t) PROVE GuestInv'
  BY <1>20 DEF UnwindFails
<1>21. ASSUME NEW t \in Threads, Fatal(t) PROVE GuestInv'
  BY <1>21 DEF Fatal, Stops
<1>22. ASSUME NEW t \in Threads, Trap(t) PROVE GuestInv'
  BY <1>22 DEF Trap, EnterHandler
<1>23. ASSUME NEW t \in Threads, SegvGuest(t) PROVE GuestInv'
  BY <1>23 DEF SegvGuest, EnterHandler
<1> QED
  BY <1>0, <1>1, <1>2, <1>3, <1>4, <1>5, <1>6, <1>7, <1>8, <1>9, <1>10, <1>11, <1>12,
     <1>13, <1>14, <1>15, <1>16, <1>17, <1>18, <1>19, <1>20, <1>21, <1>22, <1>23
  DEF Next, Start, Handles, Locks

\* THEOREM: while no handler faults itself, guest code runs with the FS_BASE of its
\* own TCB, for any number of threads, those that lost their slot in THREAD_FS_MAP
\* or never had one included.
THEOREM GuestContext == Spec => []GuestFs
<1>1. Init => GuestInv
  BY TrapDispatcherAssumption
     DEF Init, GuestInv, Domains, GuestFs, SavesGuestFs, Places, RustCode
<1>2. GuestInv /\ [Next]_vars => GuestInv'
  BY GuestStep
<1>3. GuestInv => GuestFs
  BY DEF GuestInv
<1> QED
  BY <1>1, <1>2, <1>3, PTL DEF Spec

-----------------------------------------------------------------------------
(* The bound on the recoveries, with threads that fault together and       *)
(* faults inside the handlers.                                             *)

\* The threads that have taken a number and not yet used it.
Unwinding == {t \in Threads : pc[t] = "unwind"}

\* Every recovery made or under way has a number of its own below the bound.
RecoveryInv ==
    /\ pc \in [Threads -> Places]
    /\ count \in 0 .. MAX_SIGSEGV_RECOVERIES
    /\ recovered \in Nat
    /\ recovered + Cardinality(Unwinding) <= count

\* A step that puts no thread into the unwinder and recovers from nothing.
LEMMA FewerUnwinding ==
    ASSUME RecoveryInv, pc' \in [Threads -> Places], UNCHANGED counters,
           \A t \in Threads : pc'[t] = "unwind" => pc[t] = "unwind"
    PROVE  RecoveryInv'
<1>1. Unwinding' \subseteq Unwinding /\ IsFiniteSet(Unwinding)
  BY TrapDispatcherAssumption, FS_Subset DEF Unwinding
<1>2. /\ Cardinality(Unwinding') <= Cardinality(Unwinding)
      /\ Cardinality(Unwinding') \in Nat /\ Cardinality(Unwinding) \in Nat
  BY <1>1, FS_Subset, FS_CardinalityType
<1> QED
  BY <1>2, TrapDispatcherAssumption DEF RecoveryInv, counters

\* One step keeps the numbers apart.
LEMMA RecoveryStep ==
    ASSUME RecoveryInv, [NestedNext]_vars
    PROVE  RecoveryInv'
<1> USE DEF Goes
<1>0. CASE UNCHANGED vars
  BY <1>0, FewerUnwinding DEF vars, counters, RecoveryInv
<1>1. ASSUME NEW t \in Threads, RegisterScan(t) PROVE RecoveryInv'
  BY <1>1, FewerUnwinding DEF RegisterScan, counters, RecoveryInv, Places, RustCode
<1>2. ASSUME NEW t \in Threads, NEW f \in {"tid", "fs"}, RegisterStore(t, f)
      PROVE  RecoveryInv'
  BY <1>2, FewerUnwinding DEF RegisterStore, counters, RecoveryInv, Places, RustCode
<1>3. ASSUME NEW t \in Threads, SwapToGuest(t) PROVE RecoveryInv'
  BY <1>3, FewerUnwinding DEF SwapToGuest, counters, RecoveryInv, Places, RustCode
<1>4. ASSUME NEW t \in Threads, LookupTid(t) PROVE RecoveryInv'
  BY <1>4, FewerUnwinding
     DEF LookupTid, NotFound, counters, RecoveryInv, Places, RustCode
<1>5. ASSUME NEW t \in Threads, LookupFs(t) PROVE RecoveryInv'
  BY <1>5, FewerUnwinding
     DEF LookupFs, HandlerFs, counters, RecoveryInv, Places, RustCode
<1>6. ASSUME NEW t \in Threads, MinimalReturn(t) PROVE RecoveryInv'
  BY <1>6, FewerUnwinding
     DEF MinimalReturn, ReturnsToGuest, FsOnReturn, counters, RecoveryInv, Places, RustCode
<1>7. ASSUME NEW t \in Threads, Dispatch(t) PROVE RecoveryInv'
  BY <1>7, FewerUnwinding DEF Dispatch, counters, RecoveryInv, Places, RustCode
<1>8. ASSUME NEW t \in Threads, DispatchStops(t) PROVE RecoveryInv'
  BY <1>8, FewerUnwinding
     DEF DispatchStops, Stops, counters, RecoveryInv, Places, RustCode
<1>9. ASSUME NEW t \in Threads, AllocOuter(t) PROVE RecoveryInv'
  BY <1>9, FewerUnwinding DEF AllocOuter, counters, RecoveryInv, Places, RustCode
<1>10. ASSUME NEW t \in Threads, AllocInner(t) PROVE RecoveryInv'
  BY <1>10, FewerUnwinding DEF AllocInner, counters, RecoveryInv, Places, RustCode
<1>11. ASSUME NEW t \in Threads, AllocLeave(t) PROVE RecoveryInv'
  BY <1>11, FewerUnwinding
     DEF AllocLeave, InnerOnLeave, counters, RecoveryInv, Places, RustCode
<1>12. ASSUME NEW t \in Threads, CreateClone(t) PROVE RecoveryInv'
  BY <1>12, FewerUnwinding DEF CreateClone, counters, RecoveryInv, Places, RustCode
<1>13. ASSUME NEW t \in Threads, CreateTcb(t) PROVE RecoveryInv'
  BY <1>13, FewerUnwinding DEF CreateTcb, counters, RecoveryInv, Places, RustCode
<1>14. ASSUME NEW t \in Threads, CreateStack(t) PROVE RecoveryInv'
  BY <1>14, FewerUnwinding DEF CreateStack, counters, RecoveryInv, Places, RustCode
<1>15. ASSUME NEW t \in Threads, NEW u \in Threads, CreateSpawn(t, u)
      PROVE  RecoveryInv'
  BY <1>15, FewerUnwinding DEF CreateSpawn, counters, RecoveryInv, Places, RustCode
<1>16. ASSUME NEW t \in Threads, CreateSpawnFails(t) PROVE RecoveryInv'
  BY <1>16, FewerUnwinding DEF CreateSpawnFails, counters, RecoveryInv, Places, RustCode
<1>17. ASSUME NEW t \in Threads, Return(t) PROVE RecoveryInv'
  BY <1>17, FewerUnwinding
     DEF Return, ReturnsToGuest, FsOnReturn, counters, RecoveryInv, Places, RustCode
<1>18. ASSUME NEW t \in Threads, SegvCount(t) PROVE RecoveryInv'
  <2>1. CASE count < MAX_SIGSEGV_RECOVERIES
    <3>1. Unwinding' = Unwinding \cup {t} /\ t \notin Unwinding
      BY <1>18, <2>1 DEF SegvCount, MayRecover, Unwinding, RecoveryInv
    <3>2. IsFiniteSet(Unwinding)
      BY TrapDispatcherAssumption, FS_Subset DEF Unwinding
    <3>3. Cardinality(Unwinding') = Cardinality(Unwinding) + 1 /\ Cardinality(Unwinding) \in Nat
      BY <3>1, <3>2, FS_AddElement, FS_CardinalityType
    <3>4. /\ pc' \in [Threads -> Places]
          /\ count' = count + 1 /\ recovered' = recovered
      BY <1>18, <2>1 DEF SegvCount, MayRecover, RecoveryInv, Places, RustCode
    <3> QED
      BY <2>1, <3>3, <3>4, TrapDispatcherAssumption DEF RecoveryInv
  <2>2. CASE ~(count < MAX_SIGSEGV_RECOVERIES)
    BY <1>18, <2>2, FewerUnwinding
       DEF SegvCount, MayRecover, counters, RecoveryInv, Places, RustCode
  <2> QED
    BY <2>1, <2>2
<1>19. ASSUME NEW t \in Threads, UnwindFound(t) PROVE RecoveryInv'
  <2>1. Unwinding' = Unwinding \ {t} /\ t \in Unwinding
    BY <1>19 DEF UnwindFound, ReturnsToGuest, Unwinding, RecoveryInv
  <2>2. IsFiniteSet(Unwinding)
    BY TrapDispatcherAssumption, FS_Subset DEF Unwinding
  <2>3. Cardinality(Unwinding') = Cardinality(Unwinding) - 1 /\ Cardinality(Unwinding) \in Nat
    BY <2>1, <2>2, FS_RemoveElement, FS_CardinalityType
  <2>4. /\ pc' \in [Threads -> Places]
        /\ count' = count /\ recovered' = recovered + 1
    BY <1>19 DEF UnwindFound, ReturnsToGuest, RecoveryInv, Places, RustCode
  <2> QED
    BY <2>3, <2>4, TrapDispatcherAssumption DEF RecoveryInv
<1>20. ASSUME NEW t \in Threads, UnwindFails(t) PROVE RecoveryInv'
  BY <1>20, FewerUnwinding DEF UnwindFails, counters, RecoveryInv, Places, RustCode
<1>21. ASSUME NEW t \in Threads, Fatal(t) PROVE RecoveryInv'
  BY <1>21, FewerUnwinding DEF Fatal, Stops, counters, RecoveryInv, Places, RustCode
<1>22. ASSUME NEW t \in Threads, Trap(t) PROVE RecoveryInv'
  BY <1>22, FewerUnwinding
     DEF Trap, EnterHandler, counters, RecoveryInv, Places, RustCode
<1>23. ASSUME NEW t \in Threads, SegvGuest(t) PROVE RecoveryInv'
  BY <1>23, FewerUnwinding
     DEF SegvGuest, EnterHandler, counters, RecoveryInv, Places, RustCode
<1>24. ASSUME NEW t \in Threads, SegvNested(t) PROVE RecoveryInv'
  BY <1>24, FewerUnwinding
     DEF SegvNested, Dereferences, EnterHandler, counters, RecoveryInv, Places, RustCode
<1> QED
  BY <1>0, <1>1, <1>2, <1>3, <1>4, <1>5, <1>6, <1>7, <1>8, <1>9, <1>10, <1>11, <1>12,
     <1>13, <1>14, <1>15, <1>16, <1>17, <1>18, <1>19, <1>20, <1>21, <1>22, <1>23, <1>24
  DEF NestedNext, Next, Start, Handles, Locks

\* THEOREM: SIGSEGV_RECOVERY_COUNT limits the recoveries of the whole process to
\* MAX_SIGSEGV_RECOVERIES, whatever the interleaving of the faulting threads.
THEOREM RecoveryLimit == NestedSpec => []RecoveriesBounded
<1>1. Init => RecoveryInv
  <2> SUFFICES ASSUME Init PROVE RecoveryInv
    OBVIOUS
  <2>1. Unwinding = {}
    BY DEF Init, Unwinding
  <2>2. Cardinality(Unwinding) = 0
    BY <2>1, FS_EmptySet
  <2>3. pc \in [Threads -> Places]
    BY DEF Init, Places, RustCode
  <2> QED
    BY <2>2, <2>3, TrapDispatcherAssumption DEF Init, RecoveryInv
<1>2. RecoveryInv /\ [NestedNext]_vars => RecoveryInv'
  BY RecoveryStep
<1>3. RecoveryInv => RecoveriesBounded
  <2>1. IsFiniteSet(Unwinding)
    BY TrapDispatcherAssumption, FS_Subset DEF Unwinding
  <2>2. Cardinality(Unwinding) \in Nat
    BY <2>1, FS_CardinalityType
  <2> QED
    BY <2>2, TrapDispatcherAssumption DEF RecoveryInv, RecoveriesBounded
<1> QED
  BY <1>1, <1>2, <1>3, PTL DEF NestedSpec

-----------------------------------------------------------------------------
(* The stack of a thread that faults, for a stack of any size and a walk   *)
(* of any depth: FrameWalk.  The invariant is the layout of the stack that *)
(* a recovery has to find again, and to leave behind.                      *)

CallFrame == [code : Nat, slot : Nat, rbp : Nat, framed : BOOLEAN]

StackWords == Bottom .. Top
Words == StackWords \cup {HostFrame, HostFrame + 1}

\* The lowest word of call k that its callees may not touch, and RBP in it.
Base(k) == IF frames[k].framed THEN frames[k].slot - 1 ELSE frames[k].slot
OwnRbp(k) == IF frames[k].framed THEN frames[k].slot - 1 ELSE frames[k].rbp

WalkTypes ==
    /\ mem \in [Words -> Nat]
    /\ rip \in Nat /\ rsp \in Nat /\ rbp \in Nat
    /\ frames \in Seq(CallFrame) /\ Len(frames) > 0
    /\ frame_rbp \in Nat

\* The ends of the chain: the return address of the first function is 0, and the
\* frame of the host has none.
EndsInv ==
    /\ mem[Top] = 0 /\ mem[HostFrame + 1] = 0 /\ mem[HostFrame] \in {0, Unmapped}
    /\ frames[1].slot = Top

\* The calls lie on the stack one below the other, the last above RSP.
OrderInv ==
    /\ \A k \in DOMAIN frames : Bottom <= Base(k)
    /\ \A j, k \in DOMAIN frames : j < k => frames[k].slot < Base(j)
    /\ Bottom <= rsp /\ rsp <= Base(Len(frames))

\* Each has its return address, and the RBP of its caller if it has a frame.
SavedInv ==
    /\ \A k \in DOMAIN frames : k > 1 =>
          /\ mem[frames[k].slot] = frames[k - 1].code
          /\ frames[k].rbp = OwnRbp(k - 1)
    /\ \A k \in DOMAIN frames : frames[k].framed => mem[frames[k].slot - 1] = frames[k].rbp
    /\ rip = Callee.code
    /\ rbp = OwnRbp(Len(frames))

\* addr is the RBP of one of the first n calls, or where their chain ends.
OnChain(addr, n) ==
    \/ addr \in {0, HostFrame}
    \/ \E j \in DOMAIN frames : j <= n /\ frames[j].framed /\ addr = frames[j].slot - 1

ChainInv == \A k \in DOMAIN frames : OnChain(frames[k].rbp, k - 1)

StackInv == EndsInv /\ OrderInv /\ SavedInv /\ ChainInv

\* Once a recovery has gone wrong, nothing is said of the stack.
WalkInv ==
    /\ mode \in {"guest", "walk"} => WalkTypes /\ StackInv
    /\ mode = "walk" => frame_rbp = Unmapped \/ OnChain(frame_rbp, Len(frames))
    /\ NestedAtHost

\* The stack and what lies above it.
LEMMA StackFacts ==
    /\ Bottom \in Nat /\ Top \in Nat /\ Bottom <= Top /\ Bottom > LowLimit /\ LowLimit > 0
    /\ HostFrame = Top + 10 /\ Unmapped = Top + 20
    /\ Words = (Bottom .. Top) \cup {HostFrame, HostFrame + 1}
BY FrameWalkAssumption DEF Bottom, Top, LowLimit, HostFrame, Unmapped, Words, StackWords

\* The fields of the calls.
LEMMA CallTypes ==
    ASSUME WalkTypes
    PROVE  /\ Len(frames) \in Nat /\ Len(frames) > 0 /\ DOMAIN frames = 1 .. Len(frames)
           /\ \A k \in DOMAIN frames :
                 /\ frames[k] \in CallFrame
                 /\ frames[k].code \in Nat /\ frames[k].slot \in Nat /\ frames[k].rbp \in Nat
                 /\ frames[k].framed \in BOOLEAN
                 /\ Base(k) \in Int /\ Base(k) <= frames[k].slot
                 /\ OwnRbp(k) \in Int
                 /\ frames[k].framed => Base(k) = frames[k].slot - 1 /\ OwnRbp(k) = Base(k)
                 /\ ~frames[k].framed => Base(k) = frames[k].slot /\ OwnRbp(k) = frames[k].rbp
<1>1. Len(frames) \in Nat /\ Len(frames) > 0 /\ DOMAIN frames = 1 .. Len(frames)
  BY DEF WalkTypes
<1>2. ASSUME NEW k \in DOMAIN frames
      PROVE  /\ frames[k] \in CallFrame
             /\ frames[k].code \in Nat /\ frames[k].slot \in Nat /\ frames[k].rbp \in Nat
             /\ frames[k].framed \in BOOLEAN
  <2>1. frames[k] \in CallFrame
    BY DEF WalkTypes
  <2> QED
    BY <2>1 DEF CallFrame
<1>3. ASSUME NEW k \in DOMAIN frames
      PROVE  /\ Base(k) \in Int /\ Base(k) <= frames[k].slot
             /\ OwnRbp(k) \in Int
             /\ frames[k].framed => Base(k) = frames[k].slot - 1 /\ OwnRbp(k) = Base(k)
             /\ ~frames[k].framed => Base(k) = frames[k].slot /\ OwnRbp(k) = frames[k].rbp
  <2>1. frames[k].slot \in Nat /\ frames[k].rbp \in Nat /\ frames[k].framed \in BOOLEAN
    BY <1>2
  <2>2. CASE frames[k].framed
    BY <2>1, <2>2 DEF Base, OwnRbp
  <2>3. CASE ~frames[k].framed
    BY <2>1, <2>3 DEF Base, OwnRbp
  <2> QED
    BY <2>2, <2>3
<1> QED
  BY <1>1, <1>2, <1>3

\* Where the words of the first n calls are.
LEMMA SlotsAbove ==
    ASSUME WalkTypes, EndsInv, OrderInv, NEW n \in DOMAIN frames, NEW k \in 1 .. n
    PROVE  /\ k \in DOMAIN frames
           /\ Base(n) <= Base(k) /\ Bottom <= Base(k)
           /\ frames[k].slot \in Words /\ Base(k) \in Words
           /\ frames[k].slot <= Top
<1>1. k \in DOMAIN frames /\ n \in DOMAIN frames /\ 1 \in DOMAIN frames
      /\ k \in Nat /\ n \in Nat /\ k <= n /\ k > 0
  BY CallTypes
<1>2. /\ Base(k) \in Int /\ Base(n) \in Int /\ Base(1) \in Int
      /\ Base(k) <= frames[k].slot /\ Base(n) <= frames[n].slot /\ Base(1) <= frames[1].slot
      /\ frames[k].slot \in Nat /\ frames[n].slot \in Nat
  BY <1>1, CallTypes
<1>3. Bottom <= Base(k) /\ (k < n => frames[n].slot < Base(k))
  BY <1>1 DEF OrderInv
<1>4. frames[k].slot <= Top
  <2>1. 1 < k => frames[k].slot < Base(1)
    BY <1>1 DEF OrderInv
  <2> QED
    BY <1>1, <1>2, <2>1, StackFacts DEF EndsInv
<1>5. Base(n) <= Base(k)
  <2>1. CASE k = n
    BY <1>2, <2>1
  <2>2. CASE k < n
    BY <1>2, <1>3, <2>2
  <2> QED
    BY <1>1, <2>1, <2>2
<1> QED
  BY <1>1, <1>2, <1>3, <1>4, <1>5, StackFacts

\* Whatever happens below the n-th call leaves the first n calls what they saved.
LEMMA LiveKept ==
    ASSUME WalkTypes, StackInv, NEW n \in DOMAIN frames,
           \A a \in Words : a >= Base(n) => mem'[a] = mem[a]
    PROVE  /\ mem'[Top] = 0 /\ mem'[HostFrame + 1] = 0 /\ mem'[HostFrame] \in {0, Unmapped}
           /\ \A k \in 1 .. n : k > 1 => mem'[frames[k].slot] = frames[k - 1].code
           /\ \A k \in 1 .. n : frames[k].framed => mem'[frames[k].slot - 1] = frames[k].rbp
<1>1. EndsInv /\ OrderInv /\ SavedInv
  BY DEF StackInv
<1>2. ASSUME NEW k \in 1 .. n
      PROVE  /\ k \in DOMAIN frames
             /\ Base(n) <= Base(k) /\ Base(k) <= frames[k].slot
             /\ frames[k].slot \in Words /\ Base(k) \in Words
             /\ Base(n) \in Int /\ Base(k) \in Int /\ frames[k].slot \in Nat
             /\ frames[k].framed => Base(k) = frames[k].slot - 1
  <2>1. k \in DOMAIN frames /\ Base(n) <= Base(k) /\ frames[k].slot \in Words /\ Base(k) \in Words
    BY <1>1, SlotsAbove
  <2> QED
    BY <2>1, CallTypes
<1>3. mem'[Top] = 0 /\ mem'[HostFrame + 1] = 0 /\ mem'[HostFrame] \in {0, Unmapped}
  <2>1. 1 \in 1 .. n
    BY CallTypes
  <2>2. frames[1].slot = Top /\ Base(n) <= Base(1) /\ Base(1) <= Top /\ Base(n) \in Int
        /\ Base(1) \in Int
    BY <1>1, <1>2, <2>1 DEF EndsInv
  <2>3. /\ Top \in Words /\ HostFrame \in Words /\ HostFrame + 1 \in Words
        /\ Top >= Base(n) /\ HostFrame >= Base(n) /\ HostFrame + 1 >= Base(n)
    BY <2>2, StackFacts
  <2>4. mem'[Top] = mem[Top] /\ mem'[HostFrame] = mem[HostFrame]
        /\ mem'[HostFrame + 1] = mem[HostFrame + 1]
    BY <2>3
  <2> QED
    BY <1>1, <2>4 DEF EndsInv
<1>4. ASSUME NEW k \in 1 .. n, k > 1
      PROVE  mem'[frames[k].slot] = frames[k - 1].code
  <2>1. frames[k].slot >= Base(n)
    BY <1>2
  <2>2. mem'[frames[k].slot] = mem[frames[k].slot]
    BY <1>2, <2>1
  <2> QED
    BY <1>1, <1>2, <1>4, <2>2 DEF SavedInv
<1>5. ASSUME NEW k \in 1 .. n, frames[k].framed
      PROVE  mem'[frames[k].slot - 1] = frames[k].rbp
  <2>1. frames[k].slot - 1 \in Words /\ frames[k].slot - 1 >= Base(n)
    BY <1>2, <1>5
  <2>2. mem'[frames[k].slot - 1] = mem[frames[k].slot - 1]
    BY <2>1
  <2> QED
    BY <1>1, <1>2, <1>5, <2>2 DEF SavedInv
<1> QED
  BY <1>3, <1>4, <1>5

\* The first n calls are the same.
LEMMA CallsKept ==
    ASSUME WalkTypes, NEW n \in DOMAIN frames, 1 .. n \subseteq DOMAIN frames',
           \A k \in 1 .. n : frames'[k] = frames[k]
    PROVE  /\ \A k \in 1 .. n : Base(k)' = Base(k) /\ OwnRbp(k)' = OwnRbp(k)
           /\ \A k \in 0 .. n : \A addr : OnChain(addr, k) => OnChain(addr, k)'
<1>1. ASSUME NEW k \in 1 .. n PROVE Base(k)' = Base(k) /\ OwnRbp(k)' = OwnRbp(k)
  <2>1. frames'[k] = frames[k]
    OBVIOUS
  <2> QED
    BY <2>1 DEF Base, OwnRbp
<1>2. ASSUME NEW k \in 0 .. n, NEW addr, OnChain(addr, k) PROVE OnChain(addr, k)'
  <2>1. CASE addr \in {0, HostFrame}
    BY <2>1 DEF OnChain, HostFrame, Top, Bottom
  <2>2. CASE \E j \in DOMAIN frames : j <= k /\ frames[j].framed /\ addr = frames[j].slot - 1
    <3>1. PICK j \in DOMAIN frames : j <= k /\ frames[j].framed /\ addr = frames[j].slot - 1
      BY <2>2
    <3>2. j \in 1 .. n
      BY <3>1, CallTypes
    <3>3. j \in DOMAIN frames' /\ frames'[j] = frames[j]
      BY <3>2
    <3> QED
      BY <3>1, <3>3 DEF OnChain
  <2> QED
    BY <1>2, <2>1, <2>2 DEF OnChain
<1> QED
  BY <1>1, <1>2

\* Calls that end: the stack is laid out for their caller.
LEMMA PopKeeps ==
    ASSUME WalkTypes, StackInv, NEW k \in 2 .. Len(frames), Returns(k),
           frames' = SubSeq(frames, 1, k - 1), mem' = Popped(rsp')
    PROVE  /\ StackInv'
           /\ mem' \in [Words -> Nat] /\ frames' \in Seq(CallFrame) /\ Len(frames') > 0
           /\ rip' \in Nat /\ rsp' \in Nat /\ rbp' \in Nat
<1> DEFINE n == k - 1
<1>1. EndsInv /\ OrderInv /\ SavedInv /\ ChainInv
  BY DEF StackInv
<1>2. /\ n \in Nat /\ n > 0 /\ n < k /\ n \in DOMAIN frames /\ k \in DOMAIN frames /\ k - 1 = n
      /\ Len(frames) \in Nat /\ DOMAIN frames = 1 .. Len(frames) /\ n <= Len(frames) /\ 1 \in 1 .. n
      /\ 1 .. n \subseteq DOMAIN frames
  BY CallTypes
<1>3. /\ rip' = frames[n].code /\ rsp' = frames[k].slot + 1 /\ rbp' = frames[k].rbp
      /\ frames[k].rbp = OwnRbp(n) /\ frames[k].slot < Base(n)
  BY <1>1, <1>2 DEF Returns, SavedInv, OrderInv
<1>4. /\ frames[k].slot \in Nat /\ frames[k].rbp \in Nat /\ frames[n].code \in Nat
      /\ Base(n) \in Int /\ Base(k) <= frames[k].slot /\ Base(k) \in Int
      /\ Bottom <= Base(k)
  BY <1>1, <1>2, CallTypes DEF OrderInv
<1>5. rip' \in Nat /\ rsp' \in Nat /\ rbp' \in Nat /\ rsp' <= Base(n) /\ Bottom <= rsp'
  BY <1>3, <1>4, StackFacts
<1>6. /\ frames' \in Seq(CallFrame) /\ Len(frames') = n /\ DOMAIN frames' = 1 .. n
      /\ \A i \in 1 .. n : frames'[i] = frames[i]
  <2>1. frames \in Seq(CallFrame)
    BY DEF WalkTypes
  <2> HIDE DEF n
  <2> QED
    BY <1>2, <2>1
<1> HIDE DEF n
<1>7. mem' \in [Words -> Nat] /\ \A a \in Words : a >= Base(n) => mem'[a] = mem[a]
  <2>1. mem \in [Words -> Nat] /\ DOMAIN mem = Words
    BY DEF WalkTypes
  <2>2. mem' = [a \in Words |-> IF a < rsp' THEN 0 ELSE mem[a]]
    BY <2>1 DEF Popped
  <2>3. \A a \in Words : a \in Int
    BY StackFacts
  <2>4. \A a \in Words : a >= Base(n) => ~(a < rsp')
    BY <1>4, <1>5, <2>3
  <2> QED
    BY <2>1, <2>2, <2>4
<1>8. /\ \A i \in 1 .. n : Base(i)' = Base(i) /\ OwnRbp(i)' = OwnRbp(i)
      /\ \A i \in 0 .. n : \A addr : OnChain(addr, i) => OnChain(addr, i)'
  BY <1>2, <1>6, CallsKept
<1>9. /\ mem'[Top] = 0 /\ mem'[HostFrame + 1] = 0 /\ mem'[HostFrame] \in {0, Unmapped}
      /\ \A i \in 1 .. n : i > 1 => mem'[frames[i].slot] = frames[i - 1].code
      /\ \A i \in 1 .. n : frames[i].framed => mem'[frames[i].slot - 1] = frames[i].rbp
  BY <1>2, <1>7, LiveKept
<1>10. EndsInv'
  BY <1>1, <1>2, <1>6, <1>9 DEF EndsInv
<1>11. OrderInv'
  <2>1. \A i \in 1 .. n : Bottom <= Base(i)'
    BY <1>1, <1>2, <1>8 DEF OrderInv
  <2>2. \A i, j \in 1 .. n : i < j => frames'[j].slot < Base(i)'
    BY <1>1, <1>2, <1>6, <1>8 DEF OrderInv
  <2>3. Base(Len(frames))' = Base(n)
    BY <1>2, <1>6, <1>8 DEF Base
  <2> QED
    BY <1>5, <1>6, <2>1, <2>2, <2>3 DEF OrderInv
<1>12. SavedInv'
  <2>1. ASSUME NEW i \in 1 .. n, i > 1
        PROVE  mem'[frames'[i].slot] = frames'[i - 1].code /\ frames'[i].rbp = OwnRbp(i - 1)'
    <3>1. i - 1 \in 1 .. n /\ i \in DOMAIN frames
      BY <1>2, <2>1
    <3>2. frames[i].rbp = OwnRbp(i - 1)
      BY <1>1, <2>1, <3>1 DEF SavedInv
    <3> QED
      BY <1>6, <1>8, <1>9, <2>1, <3>1, <3>2
  <2>2. \A i \in 1 .. n : frames'[i].framed => mem'[frames'[i].slot - 1] = frames'[i].rbp
    BY <1>6, <1>9
  <2>3. rip' = Callee'.code /\ rbp' = OwnRbp(Len(frames))'
    <3>1. n \in 1 .. n
      BY <1>2
    <3>2. Callee' = frames[n]
      BY <1>6, <3>1 DEF Callee
    <3>3. OwnRbp(Len(frames))' = OwnRbp(n)
      BY <1>6, <3>1 DEF OwnRbp
    <3> QED
      BY <1>3, <3>2, <3>3
  <2> QED
    BY <1>6, <2>1, <2>2, <2>3 DEF SavedInv
<1>13. ChainInv'
  <2>1. ASSUME NEW i \in 1 .. n PROVE OnChain(frames[i].rbp, i - 1)'
    <3>1. PICK b : b = frames[i].rbp
      OBVIOUS
    <3>2. OnChain(b, i - 1) /\ i - 1 \in 0 .. n
      BY <1>1, <1>2, <3>1 DEF ChainInv
    <3>3. OnChain(b, i - 1)' /\ frames'[i].rbp = b
      BY <1>6, <1>8, <3>1, <3>2
    <3> QED
      BY <3>3 DEF OnChain
  <2> QED
    BY <1>6, <2>1 DEF ChainInv
<1> QED
  BY <1>2, <1>5, <1>6, <1>7, <1>10, <1>11, <1>12, <1>13 DEF StackInv

\* A word is pushed: no call notices.
LEMMA Pushed ==
    ASSUME WalkTypes, StackInv, rsp > Bottom, NEW w \in Nat,
           rsp' = rsp - 1, mem' = [mem EXCEPT ![rsp - 1] = w]
    PROVE  /\ mem' \in [Words -> Nat] /\ mem'[rsp - 1] = w
           /\ rsp' \in Nat /\ Bottom <= rsp' /\ rsp' < Base(Len(frames))
           /\ Len(frames) \in DOMAIN frames
           /\ mem'[Top] = 0 /\ mem'[HostFrame + 1] = 0 /\ mem'[HostFrame] \in {0, Unmapped}
           /\ \A i \in DOMAIN frames : i > 1 => mem'[frames[i].slot] = frames[i - 1].code
           /\ \A i \in DOMAIN frames :
                 frames[i].framed => mem'[frames[i].slot - 1] = frames[i].rbp
<1> DEFINE n == Len(frames)
<1>1. EndsInv /\ OrderInv
  BY DEF StackInv
<1>2. n \in DOMAIN frames /\ DOMAIN frames = 1 .. n /\ n \in 1 .. n /\ Base(n) \in Int
  BY CallTypes
<1> HIDE DEF n
<1>3. Bottom <= rsp /\ rsp <= Base(n) /\ rsp \in Nat
  BY <1>1 DEF OrderInv, WalkTypes, n
<1>4. Base(n) <= Top
  <2>1. Base(n) <= frames[n].slot /\ frames[n].slot <= Top /\ frames[n].slot \in Nat
    BY <1>1, <1>2, SlotsAbove, CallTypes
  <2> QED
    BY <1>2, <2>1, StackFacts
<1>5. rsp - 1 \in Words /\ rsp - 1 \in Nat /\ Bottom <= rsp - 1 /\ rsp - 1 < Base(n)
  BY <1>2, <1>3, <1>4, StackFacts
<1>6. mem' \in [Words -> Nat] /\ mem'[rsp - 1] = w /\ \A a \in Words : a # rsp - 1 => mem'[a] = mem[a]
  BY <1>5 DEF WalkTypes
<1>7. \A a \in Words : a >= Base(n) => mem'[a] = mem[a]
  BY <1>2, <1>5, <1>6
<1>8. /\ mem'[Top] = 0 /\ mem'[HostFrame + 1] = 0 /\ mem'[HostFrame] \in {0, Unmapped}
      /\ \A i \in 1 .. n : i > 1 => mem'[frames[i].slot] = frames[i - 1].code
      /\ \A i \in 1 .. n : frames[i].framed => mem'[frames[i].slot - 1] = frames[i].rbp
  BY <1>2, <1>7, LiveKept
<1> QED
  BY <1>2, <1>5, <1>6, <1>8 DEF n

\* The calls stay as they are.
LEMMA LocalKeeps ==
    ASSUME WalkTypes, StackInv, NEW word \in Nat, Local(word)
    PROVE  WalkTypes' /\ StackInv'
<1>1. /\ rsp > Bottom /\ rsp' = rsp - 1 /\ mem' = [mem EXCEPT ![rsp - 1] = word]
      /\ UNCHANGED <<rip, rbp, frames, mode, loop>>
  BY DEF Local
<1>2. /\ mem' \in [Words -> Nat]
      /\ rsp' \in Nat /\ Bottom <= rsp' /\ rsp' < Base(Len(frames))
      /\ Len(frames) \in DOMAIN frames
      /\ mem'[Top] = 0 /\ mem'[HostFrame + 1] = 0 /\ mem'[HostFrame] \in {0, Unmapped}
      /\ \A i \in DOMAIN frames : i > 1 => mem'[frames[i].slot] = frames[i - 1].code
      /\ \A i \in DOMAIN frames :
            frames[i].framed => mem'[frames[i].slot - 1] = frames[i].rbp
  BY <1>1, Pushed
<1>3. EndsInv /\ OrderInv /\ SavedInv /\ ChainInv
  BY DEF StackInv
<1>4. WalkTypes'
  BY <1>1, <1>2 DEF WalkTypes, loop
<1>5. \A i : Base(i)' = Base(i) /\ OwnRbp(i)' = OwnRbp(i)
  BY <1>1 DEF Base, OwnRbp
<1>6. Base(Len(frames)) \in Int /\ Base(Len(frames))' = Base(Len(frames))
  BY <1>1, <1>2, CallTypes DEF Base
<1>7. EndsInv'
  BY <1>1, <1>2, <1>3 DEF EndsInv
<1>8. OrderInv'
  BY <1>1, <1>2, <1>3, <1>5, <1>6 DEF OrderInv
<1>9. SavedInv'
  <2>1. Callee' = Callee /\ OwnRbp(Len(frames))' = OwnRbp(Len(frames))
    BY <1>1 DEF Callee, OwnRbp
  <2> QED
    BY <1>1, <1>2, <1>3, <1>5, <2>1 DEF SavedInv
<1>10. ChainInv'
  BY <1>1, <1>3 DEF ChainInv, OnChain
<1> QED
  BY <1>4, <1>7, <1>8, <1>9, <1>10 DEF StackInv

\* A call is put below the others.
LEMMA CallKeeps ==
    ASSUME WalkTypes, StackInv, NEW module \in Modules, Call(module)
    PROVE  WalkTypes' /\ StackInv'
<1>0. PICK n : n = Len(frames)
  OBVIOUS
<1> DEFINE new == [code |-> rip', slot |-> rsp - 1, rbp |-> rbp, framed |-> FALSE]
<1>1. /\ rsp > Bottom /\ rsp' = rsp - 1 /\ mem' = [mem EXCEPT ![rsp - 1] = rip]
      /\ rip' = Code(module, n + 1) /\ frames' = Append(frames, new)
      /\ UNCHANGED <<rbp, mode, loop>>
  BY <1>0 DEF Call
<1>2. /\ n \in Nat /\ n > 0 /\ n \in DOMAIN frames /\ DOMAIN frames = 1 .. n
      /\ rip \in Nat /\ rbp \in Nat /\ rsp \in Nat
  BY <1>0, CallTypes DEF WalkTypes
<1>3. rip' \in Nat
  BY <1>1, <1>2 DEF Code
<1>4. /\ mem' \in [Words -> Nat] /\ mem'[rsp - 1] = rip
      /\ rsp' \in Nat /\ Bottom <= rsp' /\ rsp' < Base(n)
      /\ mem'[Top] = 0 /\ mem'[HostFrame + 1] = 0 /\ mem'[HostFrame] \in {0, Unmapped}
      /\ \A i \in DOMAIN frames : i > 1 => mem'[frames[i].slot] = frames[i - 1].code
      /\ \A i \in DOMAIN frames :
            frames[i].framed => mem'[frames[i].slot - 1] = frames[i].rbp
  BY <1>0, <1>1, <1>2, Pushed
<1>5. /\ new \in CallFrame /\ new.slot = rsp' /\ new.rbp = rbp /\ new.code = rip'
      /\ new.framed = FALSE
  BY <1>1, <1>2, <1>3, <1>4 DEF CallFrame
<1> HIDE DEF new
<1>6. /\ frames' \in Seq(CallFrame) /\ Len(frames') = n + 1 /\ DOMAIN frames' = 1 .. n + 1
      /\ frames'[n + 1] = new /\ \A i \in 1 .. n : frames'[i] = frames[i]
  BY <1>0, <1>1, <1>2, <1>5 DEF WalkTypes
<1>7. EndsInv /\ OrderInv /\ SavedInv /\ ChainInv
  BY DEF StackInv
<1>8. /\ \A i \in 1 .. n : Base(i)' = Base(i) /\ OwnRbp(i)' = OwnRbp(i)
      /\ \A i \in 0 .. n : \A addr : OnChain(addr, i) => OnChain(addr, i)'
  <2>1. 1 .. n \subseteq DOMAIN frames'
    BY <1>2, <1>6
  <2> QED
    BY <1>2, <1>6, <2>1, CallsKept
<1>9. /\ Base(n + 1)' = rsp' /\ OwnRbp(n + 1)' = rbp
      /\ Base(Len(frames))' = rsp' /\ OwnRbp(Len(frames))' = rbp /\ Callee' = new
  BY <1>5, <1>6 DEF Base, OwnRbp, Callee
<1>10. WalkTypes'
  BY <1>1, <1>2, <1>3, <1>4, <1>6 DEF WalkTypes, loop
<1>11. EndsInv'
  BY <1>2, <1>4, <1>6, <1>7 DEF EndsInv
<1>12. \A i \in 1 .. n : Base(n) <= Base(i) /\ Base(i) \in Int
  BY <1>2, <1>7, SlotsAbove, CallTypes
<1>13. OrderInv'
  <2>1. \A i \in 1 .. n + 1 : i \in 1 .. n \/ i = n + 1
    BY <1>2
  <2>2. ASSUME NEW i \in 1 .. n + 1 PROVE Bottom <= Base(i)'
    <3>1. CASE i \in 1 .. n
      BY <1>2, <1>7, <1>8, <3>1 DEF OrderInv
    <3>2. CASE i = n + 1
      BY <1>4, <1>9, <3>2
    <3> QED
      BY <2>1, <3>1, <3>2
  <2>3. ASSUME NEW i \in 1 .. n + 1, NEW j \in 1 .. n + 1, i < j
        PROVE  frames'[j].slot < Base(i)'
    <3>1. i \in 1 .. n
      BY <1>2, <2>3
    <3>2. CASE j \in 1 .. n
      BY <1>2, <1>6, <1>7, <1>8, <2>3, <3>1, <3>2 DEF OrderInv
    <3>3. CASE j = n + 1
      BY <1>2, <1>4, <1>5, <1>6, <1>8, <1>12, <3>1, <3>3
    <3> QED
      BY <2>1, <3>2, <3>3
  <2> QED
    BY <1>4, <1>6, <1>9, <2>2, <2>3 DEF OrderInv
<1>14. SavedInv'
  <2>1. \A i \in 1 .. n + 1 : i \in 1 .. n \/ i = n + 1
    BY <1>2
  <2>2. ASSUME NEW i \in 1 .. n + 1, i > 1
        PROVE  mem'[frames'[i].slot] = frames'[i - 1].code /\ frames'[i].rbp = OwnRbp(i - 1)'
    <3>1. i - 1 \in 1 .. n
      BY <1>2, <2>2
    <3>2. CASE i \in 1 .. n
      <4>1. frames[i].rbp = OwnRbp(i - 1) /\ mem'[frames[i].slot] = frames[i - 1].code
        BY <1>2, <1>4, <1>7, <2>2, <3>2 DEF SavedInv
      <4> QED
        BY <1>6, <1>8, <3>1, <3>2, <4>1
    <3>3. CASE i = n + 1
      <4>1. i - 1 = n /\ n \in 1 .. n
        BY <1>2, <3>3
      <4>2. rip = frames[n].code /\ rbp = OwnRbp(n)
        BY <1>0, <1>7 DEF SavedInv, Callee
      <4> QED
        BY <1>1, <1>4, <1>5, <1>6, <1>8, <3>3, <4>1, <4>2
    <3> QED
      BY <2>1, <3>2, <3>3
  <2>3. ASSUME NEW i \in 1 .. n + 1, frames'[i].framed
        PROVE  mem'[frames'[i].slot - 1] = frames'[i].rbp
    <3>1. i \in 1 .. n
      BY <1>5, <1>6, <2>1, <2>3
    <3> QED
      BY <1>2, <1>4, <1>6, <2>3, <3>1
  <2> QED
    BY <1>1, <1>5, <1>6, <1>9, <2>2, <2>3 DEF SavedInv
<1>15. OnChain(rbp, n)
  <2>1. rbp = OwnRbp(n)
    BY <1>0, <1>7 DEF SavedInv
  <2>2. CASE frames[n].framed
    BY <1>2, <2>1, <2>2, CallTypes DEF OnChain
  <2>3. CASE ~frames[n].framed
    <3>1. OnChain(frames[n].rbp, n - 1) /\ rbp = frames[n].rbp
      BY <1>2, <1>7, <2>1, <2>3, CallTypes DEF ChainInv
    <3>2. \A j \in DOMAIN frames : j <= n - 1 => j <= n
      BY <1>2
    <3> QED
      BY <3>1, <3>2 DEF OnChain
  <2> QED
    BY <2>2, <2>3
<1>16. ChainInv'
  <2>1. ASSUME NEW i \in 1 .. n + 1 PROVE OnChain(frames[i].rbp, i - 1)'
    <3>1. PICK b : b = frames'[i].rbp
      OBVIOUS
    <3>2. OnChain(b, i - 1) /\ i - 1 \in 0 .. n
      <4>1. CASE i \in 1 .. n
        BY <1>2, <1>6, <1>7, <3>1, <4>1 DEF ChainInv
      <4>2. CASE i = n + 1
        BY <1>2, <1>5, <1>6, <1>15, <3>1, <4>2
      <4> QED
        BY <1>2, <4>1, <4>2
    <3>3. OnChain(b, i - 1)'
      BY <1>8, <3>2
    <3> QED
      BY <3>1, <3>3 DEF OnChain
  <2> QED
    BY <1>6, <2>1 DEF ChainInv
<1> QED
  BY <1>10, <1>11, <1>13, <1>14, <1>16 DEF StackInv

\* The last call saves RBP below its return address.
LEMMA PrologueKeeps ==
    ASSUME WalkTypes, StackInv, Prologue
    PROVE  WalkTypes' /\ StackInv'
<1>0. PICK n : n = Len(frames)
  OBVIOUS
<1>1. /\ ~frames[n].framed /\ rsp = frames[n].slot /\ rsp > Bottom
      /\ rsp' = rsp - 1 /\ mem' = [mem EXCEPT ![rsp - 1] = rbp] /\ rbp' = rsp - 1
      /\ frames' = [frames EXCEPT ![n].framed = TRUE]
      /\ UNCHANGED <<rip, mode, loop>>
  BY <1>0 DEF Prologue, Callee
<1>2. /\ n \in Nat /\ n > 0 /\ n \in DOMAIN frames /\ DOMAIN frames = 1 .. n
      /\ rip \in Nat /\ rbp \in Nat /\ rsp \in Nat
  BY <1>0, CallTypes DEF WalkTypes
<1>3. EndsInv /\ OrderInv /\ SavedInv /\ ChainInv
  BY DEF StackInv
<1>4. /\ mem' \in [Words -> Nat] /\ mem'[rsp - 1] = rbp
      /\ rsp' \in Nat /\ Bottom <= rsp' /\ rsp' < Base(n)
      /\ mem'[Top] = 0 /\ mem'[HostFrame + 1] = 0 /\ mem'[HostFrame] \in {0, Unmapped}
      /\ \A i \in DOMAIN frames : i > 1 => mem'[frames[i].slot] = frames[i - 1].code
      /\ \A i \in DOMAIN frames :
            frames[i].framed => mem'[frames[i].slot - 1] = frames[i].rbp
  BY <1>0, <1>1, <1>2, Pushed
<1>5. /\ frames[n] \in CallFrame /\ frames[n].slot \in Nat
      /\ rbp = frames[n].rbp /\ rip = frames[n].code /\ Base(n) = frames[n].slot
  BY <1>0, <1>1, <1>2, <1>3, CallTypes DEF SavedInv, Callee
<1>6. /\ DOMAIN frames' = 1 .. n /\ Len(frames') = n /\ frames' \in Seq(CallFrame)
      /\ \A i \in 1 .. n : i # n => frames'[i] = frames[i]
      /\ frames'[n] = [frames[n] EXCEPT !.framed = TRUE]
  <2>1. [frames[n] EXCEPT !.framed = TRUE] \in CallFrame
    BY <1>5 DEF CallFrame
  <2>2. frames \in Seq(CallFrame)
    BY DEF WalkTypes
  <2> DEFINE c == [frames[n] EXCEPT !.framed = TRUE]
  <2>3. frames' = [frames EXCEPT ![n] = c] /\ c \in CallFrame
    BY <1>1, <2>1
  <2> HIDE DEF c
  <2>4. /\ frames' \in [1 .. n -> CallFrame] /\ frames'[n] = c
        /\ \A i \in 1 .. n : i # n => frames'[i] = frames[i]
    BY <1>2, <2>2, <2>3
  <2>5. DOMAIN frames' = 1 .. n /\ Len(frames') = n /\ frames' \in Seq(CallFrame)
    BY <1>2, <2>4
  <2> QED
    BY <2>4, <2>5 DEF c
<1>7. /\ frames'[n].slot = rsp /\ frames'[n].rbp = rbp /\ frames'[n].code = rip
      /\ frames'[n].framed = TRUE
  BY <1>1, <1>5, <1>6 DEF CallFrame
<1>8. /\ Base(n)' = rsp' /\ OwnRbp(n)' = rsp'
      /\ Base(Len(frames))' = rsp' /\ OwnRbp(Len(frames))' = rsp' /\ Callee' = frames'[n]
  BY <1>1, <1>6, <1>7 DEF Base, OwnRbp, Callee
<1>9. ASSUME NEW i \in 1 .. n, i # n
      PROVE  Base(i)' = Base(i) /\ OwnRbp(i)' = OwnRbp(i)
  BY <1>6, <1>9 DEF Base, OwnRbp
<1>10. \A i \in 1 .. n : /\ frames'[i].slot = frames[i].slot /\ frames'[i].rbp = frames[i].rbp
                          /\ frames'[i].code = frames[i].code
  BY <1>1, <1>5, <1>6, <1>7
<1>11. WalkTypes'
  BY <1>1, <1>2, <1>4, <1>6 DEF WalkTypes, loop
<1>12. EndsInv'
  BY <1>2, <1>3, <1>4, <1>10 DEF EndsInv
<1>13. OrderInv'
  <2>1. ASSUME NEW i \in 1 .. n PROVE Bottom <= Base(i)'
    <3>1. CASE i = n
      BY <1>4, <1>8, <3>1
    <3>2. CASE i # n
      BY <1>2, <1>3, <1>9, <3>2 DEF OrderInv
    <3> QED
      BY <3>1, <3>2
  <2>2. ASSUME NEW i \in 1 .. n, NEW j \in 1 .. n, i < j PROVE frames'[j].slot < Base(i)'
    <3>1. i # n
      BY <1>2, <2>2
    <3> QED
      BY <1>2, <1>3, <1>9, <1>10, <2>2, <3>1 DEF OrderInv
  <2> QED
    BY <1>4, <1>6, <1>8, <2>1, <2>2 DEF OrderInv
<1>14. SavedInv'
  <2>1. ASSUME NEW i \in 1 .. n, i > 1
        PROVE  mem'[frames'[i].slot] = frames'[i - 1].code /\ frames'[i].rbp = OwnRbp(i - 1)'
    <3>1. i - 1 \in 1 .. n /\ i - 1 # n
      BY <1>2, <2>1
    <3>2. frames[i].rbp = OwnRbp(i - 1) /\ mem'[frames[i].slot] = frames[i - 1].code
      BY <1>2, <1>3, <1>4, <2>1 DEF SavedInv
    <3> QED
      BY <1>9, <1>10, <3>1, <3>2
  <2>2. ASSUME NEW i \in 1 .. n, frames'[i].framed
        PROVE  mem'[frames'[i].slot - 1] = frames'[i].rbp
    <3>1. CASE i = n
      BY <1>4, <1>7, <3>1
    <3>2. CASE i # n
      BY <1>2, <1>4, <1>6, <2>2, <3>2
    <3> QED
      BY <3>1, <3>2
  <2> QED
    BY <1>1, <1>6, <1>7, <1>8, <2>1, <2>2 DEF SavedInv
<1>15. ChainInv'
  <2>1. ASSUME NEW i \in 1 .. n PROVE OnChain(frames[i].rbp, i - 1)'
    <3>1. OnChain(frames[i].rbp, i - 1)
      BY <1>2, <1>3 DEF ChainInv
    <3>2. CASE frames[i].rbp \in {0, HostFrame}
      BY <1>10, <3>2 DEF OnChain
    <3>3. CASE \E j \in DOMAIN frames :
                  j <= i - 1 /\ frames[j].framed /\ frames[i].rbp = frames[j].slot - 1
      <4>1. PICK j \in 1 .. n : j <= i - 1 /\ frames[j].framed /\ frames[i].rbp = frames[j].slot - 1
        BY <1>2, <3>3
      <4>2. j # n
        BY <1>2, <4>1
      <4>3. frames'[j] = frames[j]
        BY <1>6, <4>2
      <4> QED
        BY <1>6, <1>10, <4>1, <4>3 DEF OnChain
    <3> QED
      BY <3>1, <3>2, <3>3 DEF OnChain
  <2> QED
    BY <1>6, <2>1 DEF ChainInv
<1> QED
  BY <1>11, <1>12, <1>13, <1>14, <1>15 DEF StackInv

\* ret: the last call ends.
LEMMA RetKeeps ==
    ASSUME WalkTypes, StackInv, Ret
    PROVE  WalkTypes' /\ StackInv'
<1>0. PICK n : n = Len(frames)
  OBVIOUS
<1>1. /\ n > 1 /\ frames' = SubSeq(frames, 1, n - 1) /\ mem' = Popped(rsp')
      /\ IF frames[n].framed
         THEN rsp' = rbp + 2 /\ rip' = mem[rbp + 1] /\ rbp' = mem[rbp]
         ELSE rsp' = frames[n].slot + 1 /\ rip' = mem[frames[n].slot] /\ UNCHANGED rbp
      /\ UNCHANGED <<mode, loop>>
  BY <1>0 DEF Ret, Callee
<1>2. /\ n \in 2 .. Len(frames) /\ n \in DOMAIN frames
      /\ frames[n].slot \in Nat /\ frames[n].framed \in BOOLEAN
      /\ frames[n].framed => OwnRbp(n) = frames[n].slot - 1
      /\ ~frames[n].framed => OwnRbp(n) = frames[n].rbp
  BY <1>0, <1>1, CallTypes
<1>3. /\ mem[frames[n].slot] = frames[n - 1].code
      /\ frames[n].framed => mem[frames[n].slot - 1] = frames[n].rbp
      /\ rbp = OwnRbp(n)
  BY <1>0, <1>1, <1>2 DEF StackInv, SavedInv
<1>4. Returns(n)
  <2>1. CASE frames[n].framed
    <3>1. rbp + 1 = frames[n].slot /\ rbp + 2 = frames[n].slot + 1 /\ rbp = frames[n].slot - 1
      BY <1>2, <1>3, <2>1
    <3> QED
      BY <1>1, <1>3, <2>1, <3>1 DEF Returns
  <2>2. CASE ~frames[n].framed
    BY <1>1, <1>2, <1>3, <2>2 DEF Returns
  <2> QED
    BY <2>1, <2>2
<1>5. /\ StackInv'
      /\ mem' \in [Words -> Nat] /\ frames' \in Seq(CallFrame) /\ Len(frames') > 0
      /\ rip' \in Nat /\ rsp' \in Nat /\ rbp' \in Nat
  BY <1>1, <1>2, <1>4, PopKeeps
<1> QED
  BY <1>1, <1>5 DEF WalkTypes, loop

\* A frame with a return address into guest code is that of a call which has a
\* caller: the chain's ends have none.
LEMMA FrameOfACall ==
    ASSUME WalkInv, mode = "walk", ~LoopEnds, Readable, GuestCode(mem[frame_rbp + 1])
    PROVE  \E k \in 2 .. Len(frames) : frames[k].framed /\ frame_rbp = frames[k].slot - 1
<1>1. /\ WalkTypes /\ EndsInv
      /\ frame_rbp = Unmapped \/ OnChain(frame_rbp, Len(frames))
  BY DEF WalkInv, StackInv
<1>2. ~GuestCode(0)
  BY DEF GuestCode
<1>3. frame_rbp # Unmapped
  BY <1>1, StackFacts DEF Readable, WalkTypes
<1>4. frame_rbp # HostFrame
  BY <1>1, <1>2 DEF EndsInv
<1>5. frame_rbp # 0
  BY StackFacts DEF LoopEnds
<1>6. PICK k \in DOMAIN frames : frames[k].framed /\ frame_rbp = frames[k].slot - 1
  BY <1>1, <1>3, <1>4, <1>5 DEF OnChain
<1>7. k # 1
  <2>1. SUFFICES ASSUME k = 1 PROVE FALSE
    OBVIOUS
  <2>2. frame_rbp + 1 = Top
    BY <1>1, <1>6, <2>1, StackFacts DEF EndsInv
  <2> QED
    BY <1>1, <1>2, <2>2 DEF EndsInv
<1> QED
  BY <1>1, <1>6, <1>7, CallTypes

\* The calls above a given one are those with their return address above its own.
LEMMA ActiveAbove ==
    ASSUME WalkTypes, OrderInv, NEW k \in DOMAIN frames
    PROVE  StillActive(frames[k].slot + 1) = SubSeq(frames, 1, k - 1)
<1> DEFINE P(n) == \A i \in DOMAIN frames : i <= n <=> frames[i].slot >= frames[k].slot + 1
<1>1. /\ Len(frames) \in Nat /\ DOMAIN frames = 1 .. Len(frames) /\ k \in Nat /\ k > 0
      /\ \A i \in DOMAIN frames : /\ frames[i].slot \in Nat /\ Base(i) \in Int
                                  /\ Base(i) <= frames[i].slot
  BY CallTypes
<1>2. ASSUME NEW i \in DOMAIN frames
      PROVE  /\ i < k => frames[i].slot > frames[k].slot
             /\ k < i => frames[k].slot > frames[i].slot
  <2>1. /\ i < k => frames[k].slot < Base(i)
        /\ k < i => frames[i].slot < Base(k)
    BY DEF OrderInv
  <2>2. /\ frames[i].slot \in Nat /\ Base(i) \in Int /\ Base(i) <= frames[i].slot
        /\ frames[k].slot \in Nat /\ Base(k) \in Int /\ Base(k) <= frames[k].slot
    BY <1>1
  <2> QED
    BY <2>1, <2>2
<1>3. P(k - 1) /\ k - 1 \in 0 .. Len(frames)
  <2>1. ASSUME NEW i \in DOMAIN frames
        PROVE  i <= k - 1 <=> frames[i].slot >= frames[k].slot + 1
    <3>1. i \in Nat /\ frames[i].slot \in Nat /\ frames[k].slot \in Nat
      BY <1>1
    <3> QED
      BY <1>1, <1>2, <3>1
  <2> QED
    BY <1>1, <2>1
<1>4. ASSUME NEW n \in 0 .. Len(frames), P(n) PROVE n = k - 1
  <2>1. ~(k <= n)
    <3>1. k <= n <=> frames[k].slot >= frames[k].slot + 1
      BY <1>4
    <3> QED
      BY <1>1, <3>1
  <2>2. ASSUME k - 1 > 0 PROVE k - 1 <= n
    <3>1. k - 1 \in DOMAIN frames /\ k - 1 < k
      BY <1>1, <2>2
    <3>2. frames[k - 1].slot > frames[k].slot /\ frames[k - 1].slot \in Nat /\ frames[k].slot \in Nat
      BY <1>1, <1>2, <3>1
    <3>3. k - 1 <= n <=> frames[k - 1].slot >= frames[k].slot + 1
      BY <1>4, <3>1
    <3> QED
      BY <3>2, <3>3
  <2> QED
    BY <1>1, <2>1, <2>2
<1>5. (CHOOSE n \in 0 .. Len(frames) : P(n)) = k - 1
  BY <1>3, <1>4
<1> QED
  BY <1>5 DEF StillActive

\* The recovery is a return to one of the callers.
LEMMA UnwindReturns ==
    ASSUME WalkInv, Unwind
    PROVE  \E k \in 2 .. Len(frames) : Returns(k) /\ frames' = SubSeq(frames, 1, k - 1)
<1>1. /\ mode = "walk" /\ ~LoopEnds /\ Readable /\ GuestCode(mem[frame_rbp + 1])
      /\ rip' = mem[frame_rbp + 1] /\ rbp' = mem[frame_rbp] /\ rsp' = frame_rbp + 2
      /\ frames' = StillActive(rsp')
  BY DEF Unwind, NewRsp
<1>2. WalkTypes /\ OrderInv /\ SavedInv
  BY <1>1 DEF WalkInv, StackInv
<1>3. PICK k \in 2 .. Len(frames) : frames[k].framed /\ frame_rbp = frames[k].slot - 1
  BY <1>1, FrameOfACall
<1>4. k \in DOMAIN frames /\ k > 1 /\ frames[k].slot \in Nat
  BY <1>2, CallTypes
<1>5. frame_rbp + 1 = frames[k].slot /\ frame_rbp + 2 = frames[k].slot + 1
  BY <1>3, <1>4
<1>6. mem[frames[k].slot] = frames[k - 1].code /\ mem[frames[k].slot - 1] = frames[k].rbp
  BY <1>2, <1>3, <1>4 DEF SavedInv
<1>7. Returns(k)
  BY <1>1, <1>3, <1>5, <1>6 DEF Returns
<1>8. frames' = SubSeq(frames, 1, k - 1)
  BY <1>1, <1>2, <1>4, <1>5, ActiveAbove
<1> QED
  BY <1>7, <1>8

\* At first there is one call, without a frame.
LEMMA WalkInitHolds ==
    ASSUME WalkInit
    PROVE  WalkInv
<1> DEFINE c == [code |-> rip, slot |-> Top, rbp |-> rbp, framed |-> FALSE]
<1>1. PICK reg \in {0, Unmapped} :
          mem = [a \in Words |-> IF a = HostFrame THEN reg ELSE 0]
  BY DEF WalkInit, Words, StackWords
<1>2. /\ rip = 1001 /\ rsp = Top /\ rbp \in {0, HostFrame} /\ frames = <<c>>
      /\ mode = "guest" /\ frame_rbp = 0
  BY DEF WalkInit, Code
<1>3. /\ Top \in Nat /\ Bottom \in Nat /\ HostFrame \in Nat /\ Unmapped \in Nat /\ Bottom <= Top
      /\ Top \in Words /\ HostFrame \in Words /\ HostFrame + 1 \in Words
      /\ Top # HostFrame /\ HostFrame + 1 # HostFrame
  BY StackFacts
<1>4. c \in CallFrame /\ c.slot = Top /\ c.rbp = rbp /\ c.code = rip /\ c.framed = FALSE
  BY <1>2, <1>3 DEF CallFrame
<1> HIDE DEF c
<1>5. /\ frames \in Seq(CallFrame) /\ Len(frames) = 1 /\ DOMAIN frames = {1} /\ frames[1] = c
  BY <1>2, <1>4
<1>6. mem \in [Words -> Nat] /\ mem[Top] = 0 /\ mem[HostFrame + 1] = 0 /\ mem[HostFrame] = reg
  BY <1>1, <1>3
<1>7. Base(1) = Top /\ OwnRbp(1) = rbp
  BY <1>4, <1>5 DEF Base, OwnRbp
<1>8. WalkTypes
  BY <1>2, <1>3, <1>5, <1>6 DEF WalkTypes
<1>9. EndsInv
  BY <1>4, <1>5, <1>6 DEF EndsInv
<1>10. OrderInv
  BY <1>2, <1>3, <1>5, <1>7 DEF OrderInv
<1>11. SavedInv
  BY <1>4, <1>5, <1>7 DEF SavedInv, Callee
<1>12. ChainInv
  BY <1>2, <1>4, <1>5 DEF ChainInv, OnChain
<1> QED
  BY <1>2, <1>8, <1>9, <1>10, <1>11, <1>12 DEF WalkInv, StackInv, NestedAtHost

\* RBP is on the chain of the calls.
LEMMA RbpOnChain ==
    ASSUME WalkTypes, StackInv
    PROVE  OnChain(rbp, Len(frames))
<1>0. PICK n : n = Len(frames)
  OBVIOUS
<1>1. n \in Nat /\ n \in DOMAIN frames /\ rbp = OwnRbp(n) /\ OnChain(frames[n].rbp, n - 1)
      /\ \A j \in DOMAIN frames : j \in Nat
  BY <1>0, CallTypes DEF StackInv, SavedInv, ChainInv
<1>2. CASE frames[n].framed
  BY <1>0, <1>1, <1>2, CallTypes DEF OnChain
<1>3. CASE ~frames[n].framed
  <2>1. rbp = frames[n].rbp
    BY <1>1, <1>3, CallTypes
  <2>2. \A j \in DOMAIN frames : j <= n - 1 => j <= n
    BY <1>1
  <2> QED
    BY <1>0, <1>1, <2>1, <2>2 DEF OnChain
<1> QED
  BY <1>2, <1>3

\* The next frame of the walk is on the chain too, or what the host has saved.
LEMMA NextOnChain ==
    ASSUME WalkInv, NextFrame
    PROVE  mem[frame_rbp] = Unmapped \/ OnChain(mem[frame_rbp], Len(frames))
<1>1. /\ mode = "walk" /\ ~LoopEnds /\ Readable
      /\ WalkTypes /\ EndsInv /\ SavedInv /\ ChainInv
      /\ frame_rbp = Unmapped \/ OnChain(frame_rbp, Len(frames))
  BY DEF WalkInv, StackInv, NextFrame
<1>2. frame_rbp # 0 /\ frame_rbp # Unmapped
  BY <1>1, StackFacts DEF LoopEnds, Readable, WalkTypes
<1>3. CASE frame_rbp = HostFrame
  BY <1>1, <1>3 DEF EndsInv, OnChain
<1>4. CASE frame_rbp # HostFrame
  <2>1. PICK j \in DOMAIN frames : frames[j].framed /\ frame_rbp = frames[j].slot - 1
    BY <1>1, <1>2, <1>4 DEF OnChain
  <2>2. mem[frame_rbp] = frames[j].rbp /\ OnChain(frames[j].rbp, j - 1)
    BY <1>1, <2>1 DEF SavedInv, ChainInv
  <2>3. \A i \in DOMAIN frames : i <= j - 1 => i <= Len(frames)
    BY <1>1, CallTypes
  <2> QED
    BY <2>2, <2>3 DEF OnChain
<1> QED
  BY <1>3, <1>4

\* Every frame on the chain can be read: it is on the stack, or the host's.
LEMMA ChainReadable ==
    ASSUME WalkTypes, StackInv, OnChain(frame_rbp, Len(frames)), ~LoopEnds
    PROVE  Readable
<1>1. DOMAIN mem = Words
  BY DEF WalkTypes
<1>2. CASE frame_rbp \in {0, HostFrame}
  BY <1>1, <1>2, StackFacts DEF Readable, LoopEnds
<1>3. CASE \E j \in DOMAIN frames : frames[j].framed /\ frame_rbp = frames[j].slot - 1
  <2>1. PICK j \in DOMAIN frames : frames[j].framed /\ frame_rbp = frames[j].slot - 1
    BY <1>3
  <2>2. j \in 1 .. j
    BY CallTypes
  <2>3. frames[j].slot \in Words /\ Base(j) \in Words
    BY <2>2, SlotsAbove DEF StackInv
  <2>4. frames[j].slot \in Nat /\ Base(j) = frames[j].slot - 1
    BY <2>1, CallTypes
  <2> QED
    BY <1>1, <2>1, <2>3, <2>4 DEF Readable
<1> QED
  BY <1>2, <1>3 DEF OnChain

LEMMA WalkStep ==
    ASSUME WalkInv, [WalkNext]_walkVars
    PROVE  WalkInv'
<1> USE DEF NestedAtHost
<1>0. mode \in {"guest", "walk"} => WalkTypes /\ StackInv
  BY DEF WalkInv
<1>1. ASSUME mode' = "guest", WalkTypes', StackInv' PROVE WalkInv'
  BY <1>1 DEF WalkInv
<1>2. ASSUME NEW module \in Modules, Call(module) PROVE WalkInv'
  <2>1. mode = "guest" /\ mode' = "guest"
    BY <1>2 DEF Call
  <2> QED
    BY <1>0, <1>1, <1>2, <2>1, CallKeeps
<1>3. ASSUME NEW word \in {0, Code("eboot", 1)}, Local(word) PROVE WalkInv'
  <2>1. mode = "guest" /\ mode' = "guest"
    BY <1>3 DEF Local
  <2>2. word \in Nat
    BY DEF Code
  <2> QED
    BY <1>0, <1>1, <1>3, <2>1, <2>2, LocalKeeps
<1>4. CASE Prologue
  <2>1. mode = "guest" /\ mode' = "guest"
    BY <1>4 DEF Prologue
  <2> QED
    BY <1>0, <1>1, <1>4, <2>1, PrologueKeeps
<1>5. CASE Ret
  <2>1. mode = "guest" /\ mode' = "guest"
    BY <1>5 DEF Ret
  <2> QED
    BY <1>0, <1>1, <1>5, <2>1, RetKeeps
<1>6. ASSUME mode \in {"guest", "walk"}, UNCHANGED <<mem, registers, frames>>, frame_rbp' \in Nat
      PROVE  WalkTypes' /\ StackInv'
  <2>1. UNCHANGED <<mem, rip, rsp, rbp, frames>>
    BY <1>6 DEF registers
  <2>2. WalkTypes'
    BY <1>0, <1>6, <2>1 DEF WalkTypes
  <2>3. EndsInv' /\ OrderInv'
    BY <1>0, <1>6, <2>1 DEF StackInv, EndsInv, OrderInv, Base
  <2>4. SavedInv' /\ ChainInv'
    BY <1>0, <1>6, <2>1 DEF StackInv, SavedInv, ChainInv, OwnRbp, OnChain, Callee
  <2> QED
    BY <2>2, <2>3, <2>4 DEF StackInv
<1>7. CASE Fault
  <2>1. /\ mode = "guest" /\ mode' = "walk" /\ frame_rbp' = rbp
        /\ UNCHANGED <<mem, registers, frames>>
    BY <1>7 DEF Fault
  <2>2. OnChain(rbp, Len(frames)) /\ rbp \in Nat
    BY <1>0, <2>1, RbpOnChain DEF WalkTypes
  <2>3. OnChain(frame_rbp, Len(frames))'
    BY <2>1, <2>2 DEF OnChain
  <2> QED
    BY <1>6, <2>1, <2>2, <2>3 DEF WalkInv
<1>8. CASE NextFrame
  <2>1. /\ mode = "walk" /\ mode' = "walk" /\ frame_rbp' = mem[frame_rbp] /\ Readable
        /\ UNCHANGED <<mem, registers, frames>>
    BY <1>8 DEF NextFrame
  <2>2. mem[frame_rbp] = Unmapped \/ OnChain(mem[frame_rbp], Len(frames))
    BY <1>8, NextOnChain
  <2>3. (frame_rbp = Unmapped \/ OnChain(frame_rbp, Len(frames)))'
    BY <2>1, <2>2 DEF OnChain
  <2>4. frame_rbp' \in Nat
    BY <1>0, <2>1 DEF WalkTypes, Readable
  <2> QED
    BY <1>6, <2>1, <2>3, <2>4 DEF WalkInv
<1>9. CASE Unwind
  <2>1. /\ mode = "walk" /\ mode' = "guest" /\ mem' = Popped(rsp') /\ frame_rbp' = 0
    BY <1>9 DEF Unwind
  <2>2. PICK k \in 2 .. Len(frames) : Returns(k) /\ frames' = SubSeq(frames, 1, k - 1)
    BY <1>9, UnwindReturns
  <2>3. /\ StackInv'
        /\ mem' \in [Words -> Nat] /\ frames' \in Seq(CallFrame) /\ Len(frames') > 0
        /\ rip' \in Nat /\ rsp' \in Nat /\ rbp' \in Nat
    BY <1>0, <2>1, <2>2, PopKeeps
  <2> QED
    BY <1>1, <2>1, <2>3 DEF WalkTypes
<1>10. CASE Fallback
  BY <1>10 DEF Fallback, WalkInv
<1>11. CASE Dies
  <2>1. mode = "walk" /\ UNCHANGED <<frame_rbp>> /\ (mode' = "fatal" \/ mode' = "nested")
    BY <1>11 DEF Dies, loop
  <2>2. mode' = "nested" => frame_rbp = Unmapped
    <3>1. mode' = "nested" => ~LoopEnds /\ ~Readable
      BY <1>11 DEF Dies
    <3> QED
      BY <1>0, <2>1, <3>1, ChainReadable DEF WalkInv
  <2> QED
    BY <2>1, <2>2 DEF WalkInv
<1>12. CASE UNCHANGED walkVars
  <2>1. UNCHANGED <<mem, registers, frames, frame_rbp, mode>>
    BY <1>12 DEF walkVars, loop
  <2>2. mode \in {"guest", "walk"} => WalkTypes' /\ StackInv'
    BY <1>0, <1>6, <2>1 DEF WalkTypes
  <2>3. OnChain(frame_rbp, Len(frames)) => OnChain(frame_rbp, Len(frames))'
    BY <2>1 DEF OnChain
  <2> QED
    BY <2>1, <2>2, <2>3 DEF WalkInv
<1> QED
  BY <1>2, <1>3, <1>4, <1>5, <1>7, <1>8, <1>9, <1>10, <1>11, <1>12 DEF WalkNext

\* For a stack of any size and a walk of any depth, "unwinding the stack frame and
\* returning 0 to the caller" (dispatcher.rs:289) does just that when it finds a
\* frame: sigsegv_handler sets RIP, RSP and RBP to those of one and the same caller,
\* as long as no recovery has had to take the return address at RSP.
THEOREM RecoveryResumesACaller ==
    WalkSpec => ResumesACaller
<1>1. WalkInit => WalkInv
  BY WalkInitHolds
<1>2. WalkInv /\ [WalkNext]_walkVars => WalkInv'
  BY WalkStep
<1>3. WalkInv /\ [WalkNext]_walkVars =>
          [Unwind => \E k \in 2 .. Len(frames) : Returns(k)]_walkVars
  BY UnwindReturns
<1> QED
  BY <1>1, <1>2, <1>3, PTL DEF WalkSpec, ResumesACaller

\* The handler's own reads fault only where the host's register is taken for a
\* frame: along the calls of the guest, each frame it comes to can be read.
THEOREM GuestFramesReadable ==
    WalkSpec => []NestedAtHost
<1>1. WalkInit => WalkInv
  BY WalkInitHolds
<1>2. WalkInv /\ [WalkNext]_walkVars => WalkInv'
  BY WalkStep
<1>3. WalkInv => NestedAtHost
  BY DEF WalkInv
<1> QED
  BY <1>1, <1>2, <1>3, PTL DEF WalkSpec

=============================================================================
