--------------------------- MODULE Kernel_proofs -----------------------------
(***************************************************************************)
(* Proofs about the kernel objects main constructs, which share nothing:   *)
(* the event queue for any number of threads and events, the filesystem    *)
(* for any files, mounts and reads, and the thread manager for any number  *)
(* of creating threads.                                                    *)
(***************************************************************************)
EXTENDS EventQueue, FileSystem, ThreadManager, TLAPS

(* The event queue. *)

\* What a wait takes is a prefix of the queue and what it leaves is the rest.
LEMMA DrainFacts ==
    ASSUME events \in Seq(Event), NEW max \in Nat
    PROVE  /\ Count(max) \in 0 .. Len(events)
           /\ Numbers(Count(max)) \in Seq(Nat)
           /\ Len(Numbers(Count(max))) = Count(max)
           /\ \A i \in 1 .. Count(max) : Numbers(Count(max))[i] = events[i].id
           /\ Rest(Count(max)) \in Seq(Event)
           /\ Len(Rest(Count(max))) = Len(events) - Count(max)
           /\ \A i \in 1 .. Len(Rest(Count(max))) : Rest(Count(max))[i] = events[Count(max) + i]
<1> DEFINE c == Count(max)
<1>1. c \in 0 .. Len(events)
  BY DEF Count, Smaller
<1> HIDE DEF c
<1>2. /\ Numbers(c) \in Seq(Nat)
      /\ Len(Numbers(c)) = c
      /\ \A i \in 1 .. c : Numbers(c)[i] = events[i].id
  <2>1. ASSUME NEW i \in 1 .. c PROVE events[i].id \in Nat
    <3>1. events[i] \in Event
      BY <1>1
    <3> QED
      BY <3>1 DEF Event
  <2> QED
    BY <1>1, <2>1 DEF Numbers
<1>3. /\ Rest(c) \in Seq(Event)
      /\ Len(Rest(c)) = Len(events) - c
      /\ \A i \in 1 .. Len(Rest(c)) : Rest(c)[i] = events[c + i]
  BY <1>1 DEF Rest
<1> QED
  BY <1>1, <1>2, <1>3 DEF c

\* What \o does to the numbers delivered before and to those taken now.
LEMMA ConcatFacts ==
    ASSUME NEW s \in Seq(Nat), NEW u \in Seq(Nat)
    PROVE  /\ Len(s \o u) = Len(s) + Len(u)
           /\ \A i \in 1 .. Len(s) : (s \o u)[i] = s[i]
           /\ \A i \in 1 .. Len(u) : (s \o u)[Len(s) + i] = u[i]
<1>1. Len(s \o u) = Len(s) + Len(u)
  OBVIOUS
<1>2. ASSUME NEW i \in 1 .. Len(s) PROVE (s \o u)[i] = s[i]
  OBVIOUS
<1>3. ASSUME NEW i \in 1 .. Len(u) PROVE (s \o u)[Len(s) + i] = u[i]
  OBVIOUS
<1> QED
  BY <1>1, <1>2, <1>3

\* What is pending while a thread sleeps was triggered after it had gone to sleep: it
\* looks at the queue and registers as asleep under one lock.
AfterSleep ==
    \A t \in Threads : pc[t] = "sleep" =>
        /\ args[t].began <= now
        /\ \A i \in 1 .. Len(events) : args[t].began <= events[i].at

\* Each of the three is needed for the next.
Inv == TypeOK /\ ExactlyOnceInOrder /\ AfterSleep

\* The end of a wait keeps the order: the prefix it takes carries on the numbers
\* of what was delivered before; and what it leaves behind for others was pending.
LEMMA DrainKeepsInv ==
    ASSUME Inv, NEW t \in Threads, NEW max \in Nat, Drain(t, max), UNCHANGED <<now, triggered>>
    PROVE  Inv'
<1>1. PICK c \in 0 .. Len(events), taken \in Seq(Nat), rest \in Seq(Event) :
          /\ c = Count(max) /\ taken = Numbers(c) /\ rest = Rest(c)
          /\ Len(taken) = c
          /\ \A i \in 1 .. c : taken[i] = events[i].id
          /\ Len(rest) = Len(events) - c
          /\ \A i \in 1 .. Len(rest) : rest[i] = events[c + i]
  BY DrainFacts, ZenonT(30) DEF Inv, TypeOK
<1>2. /\ delivered' = delivered \o taken
      /\ events' = rest
      /\ pc' = [pc EXCEPT ![t] = "guest"]
      /\ args' = [args EXCEPT ![t] = NoArgs]
      /\ now' = now /\ triggered' = triggered
  BY <1>1 DEF Drain
<1>3. /\ Len(taken) = c
      /\ \A i \in 1 .. c : taken[i] = events[i].id
      /\ Len(rest) = Len(events) - c
      /\ \A i \in 1 .. Len(rest) : rest[i] = events[c + i]
  BY <1>1
<1>4. /\ events \in Seq(Event) /\ Len(events) \in Nat
      /\ delivered \in Seq(Nat) /\ Len(delivered) \in Nat
      /\ triggered \in Nat
  BY DEF Inv, TypeOK
<1>5. TypeOK'
  <2>1. args' \in [Threads -> [max : Nat, timeout : Nat, began : Nat]]
    BY <1>2 DEF Inv, TypeOK, NoArgs
  <2> QED
    BY <1>2, <2>1 DEF Inv, TypeOK
<1>6. /\ Len(delivered') = Len(delivered) + c
      /\ \A i \in 1 .. Len(delivered) : delivered'[i] = delivered[i]
      /\ \A i \in 1 .. c : delivered'[Len(delivered) + i] = taken[i]
  <2>1. /\ Len(delivered \o taken) = Len(delivered) + Len(taken)
        /\ \A i \in 1 .. Len(delivered) : (delivered \o taken)[i] = delivered[i]
        /\ \A i \in 1 .. Len(taken) :
              (delivered \o taken)[Len(delivered) + i] = taken[i]
    BY <1>4, ConcatFacts
  <2>2. delivered' = delivered \o taken
    BY <1>2
  <2>3. Len(taken) = c
    BY <1>3
  <2> QED
    BY <2>1, <2>2, <2>3
<1>7. ASSUME NEW i \in 1 .. Len(delivered') PROVE delivered'[i] = i
  <2>1. CASE i \in 1 .. Len(delivered)
    BY <1>6, <2>1 DEF Inv, ExactlyOnceInOrder
  <2>2. CASE i \notin 1 .. Len(delivered)
    <3>1. PICK j \in 1 .. c : i = Len(delivered) + j
      <4>1. i - Len(delivered) \in 1 .. c
        BY <1>4, <1>6, <2>2
      <4>2. i = Len(delivered) + (i - Len(delivered))
        BY <1>4, <1>6
      <4> QED
        BY <4>1, <4>2
    <3>2. j \in 1 .. Len(events)
      BY <1>4
    <3>3. events[j].id = Len(delivered) + j
      BY <3>2 DEF Inv, ExactlyOnceInOrder
    <3> QED
      BY <1>3, <1>6, <3>1, <3>3
  <2> QED
    BY <2>1, <2>2
<1>8. ASSUME NEW i \in 1 .. Len(events')
      PROVE  c + i \in 1 .. Len(events) /\ events'[i] = events[c + i]
  BY <1>2, <1>3, <1>4
<1>9. ASSUME NEW i \in 1 .. Len(events') PROVE events'[i].id = Len(delivered') + i
  <2>1. c + i \in 1 .. Len(events) /\ events'[i] = events[c + i]
    BY <1>8
  <2>2. events[c + i].id = Len(delivered) + (c + i)
    BY <2>1 DEF Inv, ExactlyOnceInOrder
  <2> QED
    BY <1>4, <1>6, <2>1, <2>2
<1>10. Len(delivered') + Len(events') = triggered'
  <2>1. Len(delivered) + Len(events) = triggered
    BY DEF Inv, ExactlyOnceInOrder
  <2>2. Len(events') = Len(events) - c
    BY <1>2, <1>3
  <2> QED
    BY <1>2, <1>4, <1>6, <2>1, <2>2
<1>11. AfterSleep'
  <2>1. SUFFICES ASSUME NEW u \in Threads, pc'[u] = "sleep"
                 PROVE  /\ args'[u].began <= now'
                        /\ \A i \in 1 .. Len(events') : args'[u].began <= events'[i].at
    BY DEF AfterSleep
  <2>2. pc[u] = "sleep" /\ args'[u] = args[u]
    BY <1>2, <2>1 DEF Inv, TypeOK
  <2> QED
    BY <1>2, <1>8, <2>2 DEF Inv, AfterSleep
<1> QED
  BY <1>5, <1>7, <1>9, <1>10, <1>11 DEF Inv, ExactlyOnceInOrder

\* An event that is triggered is the last in the queue, and the youngest.
LEMMA TriggerKeepsInv ==
    ASSUME Inv, trigger_event
    PROVE  Inv'
<1> DEFINE e == [id |-> triggered + 1, at |-> now]
<1>1. /\ events' = Append(events, e)
      /\ triggered' = triggered + 1
      /\ UNCHANGED <<pc, args, now, delivered>>
  BY DEF trigger_event
<1>2. e \in Event /\ e.id = triggered + 1 /\ e.at = now
  BY DEF Inv, TypeOK, Event
<1> HIDE DEF e
<1>3. TypeOK'
  BY <1>1, <1>2 DEF Inv, TypeOK
<1>4. /\ Len(events) \in Nat /\ Len(events') = Len(events) + 1
      /\ \A i \in 1 .. Len(events) : events'[i] = events[i]
      /\ events'[Len(events) + 1] = e
  BY <1>1, <1>2 DEF Inv, TypeOK
<1>5. /\ Len(delivered) + Len(events) = triggered /\ Len(delivered) \in Nat
      /\ \A i \in 1 .. Len(events) : events[i].id = Len(delivered) + i
  BY DEF Inv, TypeOK, ExactlyOnceInOrder
<1>6. \A i \in 1 .. Len(events') : i \in 1 .. Len(events) \/ i = Len(events) + 1
  BY <1>4
<1>7. ASSUME NEW i \in 1 .. Len(events') PROVE events'[i].id = Len(delivered) + i
  <2>1. CASE i \in 1 .. Len(events)
    BY <1>4, <1>5, <2>1
  <2>2. CASE i = Len(events) + 1
    <3>1. events'[i].id = triggered + 1
      BY <1>2, <1>4, <2>2
    <3> QED
      BY <1>4, <1>5, <2>2, <3>1
  <2> QED
    BY <1>6, <2>1, <2>2
<1>8. ExactlyOnceInOrder'
  <2>1. Len(delivered) + Len(events') = triggered + 1
    BY <1>4, <1>5
  <2> QED
    BY <1>1, <1>7, <2>1 DEF Inv, ExactlyOnceInOrder
<1>9. AfterSleep'
  <2>1. SUFFICES ASSUME NEW u \in Threads, pc[u] = "sleep"
                 PROVE  /\ args[u].began <= now
                        /\ \A i \in 1 .. Len(events') : args[u].began <= events'[i].at
    BY <1>1 DEF AfterSleep
  <2> QED
    BY <1>2, <1>4, <1>6, <2>1 DEF Inv, AfterSleep
<1> QED
  BY <1>3, <1>8, <1>9 DEF Inv

\* A thread goes to sleep over an empty queue only.
LEMMA SleepKeepsInv ==
    ASSUME Inv, NEW t \in Threads, NEW max \in MaxEvents, NEW timeout \in Timeouts,
           WaitSleeps(t, max, timeout)
    PROVE  Inv'
<1> DEFINE a == [max |-> max, timeout |-> timeout, began |-> now]
<1>1. /\ events = <<>> /\ pc' = [pc EXCEPT ![t] = "sleep"] /\ args' = [args EXCEPT ![t] = a]
      /\ UNCHANGED <<events, now, triggered, delivered>>
  BY DEF WaitSleeps
<1>2. a \in [max : Nat, timeout : Nat, began : Nat] /\ a.began = now
  BY EventQueueAssumption DEF Inv, TypeOK
<1> HIDE DEF a
<1>3. TypeOK'
  BY <1>1, <1>2 DEF Inv, TypeOK
<1>4. ExactlyOnceInOrder'
  BY <1>1 DEF Inv, ExactlyOnceInOrder
<1>5. ASSUME NEW u \in Threads, pc'[u] = "sleep" PROVE args'[u].began <= now
  <2>1. CASE u = t
    BY <1>1, <1>2, <2>1 DEF Inv, TypeOK
  <2>2. CASE u # t
    BY <1>1, <1>5, <2>2 DEF Inv, TypeOK, AfterSleep
  <2> QED
    BY <2>1, <2>2
<1>6. AfterSleep'
  BY <1>1, <1>5 DEF AfterSleep
<1> QED
  BY <1>3, <1>4, <1>6 DEF Inv

LEMMA InvHolds == Spec => []Inv
<1>1. Init => Inv
  <2>1. SUFFICES ASSUME Init PROVE Inv
    OBVIOUS
  <2>2. TypeOK
    BY <2>1 DEF Init, TypeOK, NoArgs
  <2> QED
    BY <2>1, <2>2 DEF Init, Inv, ExactlyOnceInOrder, AfterSleep
<1>2. Inv /\ [Next]_vars => Inv'
  <2> SUFFICES ASSUME Inv, [Next]_vars PROVE Inv'
    OBVIOUS
  <2>1. CASE trigger_event
    BY <2>1, TriggerKeepsInv
  <2>2. ASSUME NEW t \in Threads, NEW max \in MaxEvents, NEW timed \in BOOLEAN,
               Wait(t, max, timed)
        PROVE  Inv'
    <3>1. max \in Nat
      BY EventQueueAssumption
    <3>2. Drain(t, max) /\ UNCHANGED <<now, triggered>>
      BY <2>2 DEF Wait
    <3> QED
      BY <3>1, <3>2, DrainKeepsInv
  <2>3. ASSUME NEW t \in Threads, NEW max \in MaxEvents, NEW timeout \in Timeouts,
               WaitSleeps(t, max, timeout)
        PROVE  Inv'
    BY <2>3, SleepKeepsInv
  <2>4. ASSUME NEW t \in Threads, WaitWakes(t)
        PROVE  Inv'
    <3>1. args[t].max \in Nat
      BY DEF Inv, TypeOK
    <3>2. Drain(t, args[t].max) /\ UNCHANGED <<now, triggered>>
      BY <2>4 DEF WaitWakes
    <3> QED
      BY <3>1, <3>2, DrainKeepsInv
  <2>5. CASE Tick
    <3>1. now \in Nat /\ now' = now + 1 /\ UNCHANGED <<events, pc, args, triggered, delivered>>
      BY <2>5 DEF Tick, Inv, TypeOK
    <3>2. TypeOK' /\ ExactlyOnceInOrder'
      BY <3>1 DEF Inv, TypeOK, ExactlyOnceInOrder
    <3>3. AfterSleep'
      <4>1. \A u \in Threads : args[u].began \in Nat
        BY DEF Inv, TypeOK
      <4> QED
        BY <3>1, <4>1 DEF Inv, AfterSleep
    <3> QED
      BY <3>2, <3>3 DEF Inv
  <2>6. CASE UNCHANGED vars
    BY <2>6 DEF vars, Inv, TypeOK, ExactlyOnceInOrder, AfterSleep
  <2> QED
    BY <2>1, <2>2, <2>3, <2>4, <2>5, <2>6 DEF Next
<1> QED
  BY <1>1, <1>2, PTL DEF Spec

\* Every event triggered is returned by exactly one wait or is pending, and the
\* waits return them in order, for any threads, any max_events and however long
\* the queue lives: EventQueue::wait drains under the lock it counts under.
THEOREM Delivery == Spec => []ExactlyOnceInOrder
<1>1. Inv => ExactlyOnceInOrder
  BY DEF Inv
<1> QED
  BY <1>1, InvHolds, PTL

\* No event is pending for more than 16 ms while a thread sleeps in wait, whatever the
\* timeouts, and although the sleep is not cut short by a trigger.
THEOREM PickedUp == Spec => []PickedUpInTime
<1>1. Inv => PickedUpInTime
  <2>1. SUFFICES ASSUME Inv, NEW t \in Threads, pc[t] = "sleep", NEW i \in 1 .. Len(events)
                 PROVE  Due(t) <= events[i].at + SleepCap
    BY DEF PickedUpInTime
  <2>2. /\ args[t].began \in Nat /\ args[t].timeout \in Nat /\ events[i].at \in Nat
        /\ SleepCap \in Nat /\ args[t].began <= events[i].at
    <3>1. events[i] \in Event /\ args[t] \in [max : Nat, timeout : Nat, began : Nat]
      BY <2>1 DEF Inv, TypeOK
    <3> QED
      BY <2>1, <3>1, EventQueueAssumption DEF Inv, AfterSleep, Event
  <2>3. SleepTime(args[t].timeout) \in Nat /\ SleepTime(args[t].timeout) <= SleepCap
    BY <2>2 DEF SleepTime, Smaller
  <2> QED
    BY <2>2, <2>3 DEF Due
<1> QED
  BY <1>1, InvHolds, PTL

-----------------------------------------------------------------------------
(* The filesystem. *)

HostPaths == DOMAIN Length \cup Paths

OpenFile == [host_path : HostPaths, file : Nat \cup {NoFile}, position : Nat]
Handle == [fd : Nat, host_path : HostPaths, taken : Nat, closed : BOOLEAN]

FsTypeOK ==
    /\ next_fd \in Nat
    /\ open_files \in [DOMAIN open_files -> OpenFile]
    /\ handles \in Seq(Handle)

\* Descriptors are numbered upwards, so the next one is new and no two opens were given
\* the same.
FdsFresh ==
    /\ \A fd \in DOMAIN open_files : fd \in Nat /\ fd < next_fd
    /\ \A i \in DOMAIN handles : handles[i].fd < next_fd
    /\ \A i, j \in DOMAIN handles : handles[i].fd = handles[j].fd => i = j

\* The host's offset in an open file has not passed its end.
OffsetsInside ==
    \A fd \in DOMAIN open_files :
        open_files[fd].file # NoFile =>
            /\ open_files[fd].host_path \in DOMAIN Length
            /\ open_files[fd].file <= Length[open_files[fd].host_path]

FsInv == FsTypeOK /\ FdsFresh /\ OffsetsInside /\ DescriptorsKept

\* Opening a file takes a descriptor no open was given before.
LEMMA OpenedKeeps ==
    ASSUME FsInv, NEW host_path \in HostPaths, NEW file \in {0, NoFile},
           file = 0 => host_path \in DOMAIN Length,
           Opened(host_path, file)
    PROVE  FsInv'
<1> DEFINE f == [host_path |-> host_path, file |-> file, position |-> 0]
           h == [fd |-> next_fd, host_path |-> host_path, taken |-> 0, closed |-> FALSE]
<1>1. /\ next_fd \in Nat /\ next_fd' = next_fd + 1
      /\ open_files' = [fd \in DOMAIN open_files \cup {next_fd} |->
                           IF fd = next_fd THEN f ELSE open_files[fd]]
      /\ handles' = Append(handles, h)
  BY DEF Opened, NextFd, FsInv, FsTypeOK
<1>2. f \in OpenFile /\ h \in Handle
  BY <1>1 DEF OpenFile, Handle, NoFile
<1>3. handles \in Seq(Handle) /\ open_files \in [DOMAIN open_files -> OpenFile]
  BY DEF FsInv, FsTypeOK
<1>4. /\ handles' \in Seq(Handle)
      /\ DOMAIN handles' = 1 .. Len(handles) + 1
      /\ DOMAIN handles = 1 .. Len(handles) /\ Len(handles) \in Nat
      /\ \A i \in DOMAIN handles : handles'[i] = handles[i]
      /\ handles'[Len(handles) + 1] = h
  BY <1>1, <1>2, <1>3
<1>5. /\ DOMAIN open_files' = DOMAIN open_files \cup {next_fd}
      /\ open_files'[next_fd] = f
      /\ \A fd \in DOMAIN open_files : fd # next_fd /\ open_files'[fd] = open_files[fd]
  <2>1. next_fd \notin DOMAIN open_files
    BY DEF FsInv, FdsFresh
  <2> QED
    BY <1>1, <2>1
<1>6. FsTypeOK'
  <2>1. open_files' \in [DOMAIN open_files' -> OpenFile]
    BY <1>1, <1>2, <1>3
  <2> QED
    BY <2>1, <1>1, <1>4 DEF FsTypeOK
<1>7. \A i \in DOMAIN handles : handles[i] \in Handle /\ handles[i].fd \in Nat /\ handles[i].fd < next_fd
  <2>1. \A i \in DOMAIN handles : handles[i] \in Handle
    BY <1>3
  <2> QED
    BY <2>1 DEF Handle, FsInv, FdsFresh
<1>8. h.fd = next_fd /\ h.closed = FALSE /\ h.taken = 0 /\ h.host_path = host_path
  OBVIOUS
<1> HIDE DEF f, h
<1>9. FdsFresh'
  <2>1. \A fd \in DOMAIN open_files' : fd \in Nat /\ fd < next_fd'
    BY <1>1, <1>5 DEF FsInv, FdsFresh
  <2>2. \A i \in DOMAIN handles' : handles'[i].fd < next_fd'
    BY <1>1, <1>4, <1>7, <1>8
  <2>3. \A i, j \in DOMAIN handles' : handles'[i].fd = handles'[j].fd => i = j
    BY <1>4, <1>7, <1>8, <1>1 DEF FsInv, FdsFresh
  <2> QED
    BY <2>1, <2>2, <2>3 DEF FdsFresh
<1>10. OffsetsInside'
  <2>1. ASSUME file # NoFile
        PROVE  host_path \in DOMAIN Length /\ 0 <= Length[host_path] /\ file = 0
    BY <2>1, FileSystemAssumption
  <2> QED
    BY <2>1, <1>5 DEF FsInv, OffsetsInside, f
<1>11. DescriptorsKept'
  <2>1. ASSUME NEW i \in DOMAIN handles
        PROVE  handles'[i] = handles[i] /\ handles[i].fd # next_fd
    BY <1>1, <1>4, <1>7
  <2> QED
    BY <2>1, <1>4, <1>5, <1>8 DEF FsInv, DescriptorsKept, f
<1> QED
  BY <1>6, <1>9, <1>10, <1>11 DEF FsInv

\* Mounting, writing and calls that fail leave the descriptors alone.
LEMMA FsUnchanged ==
    ASSUME FsInv, UNCHANGED <<next_fd, open_files, handles>>
    PROVE  FsInv'
BY DEF FsInv, FsTypeOK, FdsFresh, OffsetsInside, DescriptorsKept

\* open gives a new descriptor, or fails.
LEMMA OpenKeeps ==
    ASSUME FsInv, NEW path \in Paths, open(path)
    PROVE  FsInv'
<1>1. CASE resolve_path(path) \in DOMAIN Length /\ Opened(resolve_path(path), 0)
  BY <1>1, OpenedKeeps DEF HostPaths
<1>2. CASE Opened(path, NoFile)
  BY <1>2, OpenedKeeps DEF HostPaths, NoFile
<1>3. CASE UNCHANGED <<next_fd, open_files, handles>>
  BY <1>3, FsUnchanged
<1> QED
  BY <1>1, <1>2, <1>3 DEF open

\* close ends the one open that has the descriptor.
LEMMA CloseKeeps ==
    ASSUME FsInv, NEW fd \in Nat, close(fd)
    PROVE  FsInv'
<1>1. CASE fd \notin DOMAIN open_files
  BY <1>1, FsUnchanged DEF close
<1>2. CASE fd \in DOMAIN open_files
  <2>1. /\ open_files' = [g \in DOMAIN open_files \ {fd} |-> open_files[g]]
        /\ handles' = [i \in DOMAIN handles |->
                          IF handles[i].fd = fd THEN [handles[i] EXCEPT !.closed = TRUE]
                                                ELSE handles[i]]
        /\ next_fd' = next_fd
    BY <1>2 DEF close
  <2>2. handles \in Seq(Handle) /\ open_files \in [DOMAIN open_files -> OpenFile]
    BY DEF FsInv, FsTypeOK
  <2>3. \A i \in DOMAIN handles : handles[i] \in Handle
    BY <2>2
  <2>4. ASSUME NEW i \in DOMAIN handles
        PROVE  /\ handles'[i] \in Handle
               /\ handles'[i].fd = handles[i].fd
               /\ handles'[i].host_path = handles[i].host_path
               /\ handles'[i].taken = handles[i].taken
               /\ handles'[i].closed = (handles[i].closed \/ handles[i].fd = fd)
    BY <2>1, <2>3 DEF Handle
  <2>5. DOMAIN handles' = DOMAIN handles /\ handles' \in Seq(Handle)
    <3>1. DOMAIN handles = 1 .. Len(handles) /\ Len(handles) \in Nat
      BY <2>2
    <3>2. DOMAIN handles' = DOMAIN handles /\ handles' \in [1 .. Len(handles) -> Handle]
      BY <2>1, <2>4, <3>1
    <3> QED
      BY <3>1, <3>2
  <2>6. /\ DOMAIN open_files' = DOMAIN open_files \ {fd}
        /\ \A g \in DOMAIN open_files' : open_files'[g] = open_files[g]
    BY <2>1
  <2>7. FsTypeOK'
    BY <2>1, <2>2, <2>5 DEF FsTypeOK, FsInv
  <2>8. FdsFresh'
    BY <2>1, <2>4, <2>5, <2>6 DEF FsInv, FdsFresh
  <2>9. OffsetsInside'
    BY <2>6 DEF FsInv, OffsetsInside
  <2>10. DescriptorsKept'
    <3>1. ASSUME NEW i \in DOMAIN handles, handles[i].closed \/ handles[i].fd = fd
          PROVE  handles'[i].closed /\ handles'[i].fd \notin DOMAIN open_files'
      BY <3>1, <2>4, <2>6 DEF FsInv, DescriptorsKept
    <3>2. ASSUME NEW i \in DOMAIN handles, ~handles[i].closed, handles[i].fd # fd
          PROVE  /\ ~handles'[i].closed
                 /\ handles'[i].fd \in DOMAIN open_files'
                 /\ open_files'[handles'[i].fd].host_path = handles'[i].host_path
                 /\ open_files'[handles'[i].fd].position = handles'[i].taken
                 /\ open_files'[handles'[i].fd].file \in {NoFile, handles'[i].taken}
      <4>1. handles[i].fd \in DOMAIN open_files' /\ open_files'[handles[i].fd] = open_files[handles[i].fd]
        BY <3>2, <2>6 DEF FsInv, DescriptorsKept
      <4> QED
        BY <3>2, <4>1, <2>4 DEF FsInv, DescriptorsKept
    <3> QED
      BY <3>1, <3>2, <2>5 DEF DescriptorsKept
  <2> QED
    BY <2>7, <2>8, <2>9, <2>10 DEF FsInv
<1> QED
  BY <1>1, <1>2

\* The record of an open file after a read.
LEMMA AdvancedFacts ==
    ASSUME NEW f \in OpenFile, f.file \in Nat, NEW n \in Nat
    PROVE  /\ Advanced(f, n) \in OpenFile
           /\ Advanced(f, n).host_path = f.host_path
           /\ Advanced(f, n).file = f.file + n
           /\ Advanced(f, n).position = f.position + n
BY DEF Advanced, OpenFile

\* read moves the offset of the file, the position and the history of the one open that
\* has the descriptor by the same number of bytes.
LEMMA ReadKeeps ==
    ASSUME FsInv, NEW fd \in Nat, NEW len \in Sizes, read(fd, len)
    PROVE  FsInv'
<1>1. CASE UNCHANGED <<open_files, handles>>
  BY <1>1, FsUnchanged DEF read
<1>2. CASE ~UNCHANGED <<open_files, handles>>
  <2> DEFINE n == Taken(len, open_files[fd])
  <2>1. /\ fd \in DOMAIN open_files /\ open_files[fd].file # NoFile
        /\ open_files' = [open_files EXCEPT ![fd] = Advanced(@, n)]
        /\ handles' = [i \in DOMAIN handles |->
                          IF handles[i].fd = fd /\ ~handles[i].closed
                          THEN [handles[i] EXCEPT !.taken = @ + n]
                          ELSE handles[i]]
        /\ next_fd' = next_fd
    BY <1>2 DEF read
  <2>2. handles \in Seq(Handle) /\ open_files \in [DOMAIN open_files -> OpenFile]
    BY DEF FsInv, FsTypeOK
  <2>3. /\ open_files[fd] \in OpenFile
        /\ open_files[fd].file \in Nat /\ open_files[fd].position \in Nat
        /\ open_files[fd].host_path \in DOMAIN Length
        /\ Length[open_files[fd].host_path] \in Nat
        /\ open_files[fd].file <= Length[open_files[fd].host_path]
    BY <2>1, <2>2, FileSystemAssumption DEF OpenFile, FsInv, OffsetsInside
  <2>4. n \in Nat /\ open_files[fd].file + n <= Length[open_files[fd].host_path]
    BY <2>3, FileSystemAssumption DEF Taken, Remaining
  <2> HIDE DEF n
  <2>5. /\ DOMAIN open_files' = DOMAIN open_files
        /\ \A g \in DOMAIN open_files : g # fd => open_files'[g] = open_files[g]
        /\ open_files'[fd] \in OpenFile
        /\ open_files'[fd].host_path = open_files[fd].host_path
        /\ open_files'[fd].file = open_files[fd].file + n
        /\ open_files'[fd].position = open_files[fd].position + n
    <3>1. /\ DOMAIN open_files' = DOMAIN open_files
          /\ \A g \in DOMAIN open_files : g # fd => open_files'[g] = open_files[g]
          /\ open_files'[fd] = Advanced(open_files[fd], n)
      BY <2>1, <2>2
    <3> QED
      BY <3>1, <2>3, <2>4, AdvancedFacts
  <2>6. \A i \in DOMAIN handles : handles[i] \in Handle
    BY <2>2
  <2>7. ASSUME NEW i \in DOMAIN handles
        PROVE  /\ handles'[i] \in Handle
               /\ handles'[i].fd = handles[i].fd
               /\ handles'[i].host_path = handles[i].host_path
               /\ handles'[i].closed = handles[i].closed
               /\ handles'[i].taken = IF handles[i].fd = fd /\ ~handles[i].closed
                                      THEN handles[i].taken + n ELSE handles[i].taken
    BY <2>1, <2>4, <2>6 DEF Handle
  <2>8. DOMAIN handles' = DOMAIN handles /\ handles' \in Seq(Handle)
    <3>1. DOMAIN handles = 1 .. Len(handles) /\ Len(handles) \in Nat
      BY <2>2
    <3>2. DOMAIN handles' = DOMAIN handles /\ handles' \in [1 .. Len(handles) -> Handle]
      BY <2>1, <2>7, <3>1
    <3> QED
      BY <3>1, <3>2
  <2>9. FsTypeOK'
    <3>1. open_files' \in [DOMAIN open_files' -> OpenFile]
      BY <2>1, <2>2, <2>5
    <3> QED
      BY <2>1, <2>8, <3>1 DEF FsTypeOK, FsInv
  <2>10. FdsFresh'
    BY <2>1, <2>5, <2>7, <2>8 DEF FsInv, FdsFresh
  <2>11. OffsetsInside'
    BY <2>3, <2>4, <2>5 DEF FsInv, OffsetsInside
  <2>12. DescriptorsKept'
    <3>1. ASSUME NEW i \in DOMAIN handles, ~handles[i].closed
          PROVE  /\ handles[i].fd \in DOMAIN open_files
                 /\ open_files[handles[i].fd].host_path = handles[i].host_path
                 /\ open_files[handles[i].fd].position = handles[i].taken
                 /\ open_files[handles[i].fd].file \in {NoFile, handles[i].taken}
      BY <3>1 DEF FsInv, DescriptorsKept
    <3>2. ASSUME NEW i \in DOMAIN handles, handles[i].closed
          PROVE  handles[i].fd \notin DOMAIN open_files
      BY <3>2 DEF FsInv, DescriptorsKept
    <3>3. ASSUME NEW i \in DOMAIN handles, ~handles[i].closed, handles[i].fd = fd
          PROVE  /\ open_files'[fd].host_path = handles'[i].host_path
                 /\ open_files'[fd].position = handles'[i].taken
                 /\ open_files'[fd].file = handles'[i].taken
      BY <3>1, <3>3, <2>1, <2>5, <2>7
    <3> QED
      BY <3>1, <3>2, <3>3, <2>5, <2>7, <2>8 DEF DescriptorsKept
  <2> QED
    BY <2>9, <2>10, <2>11, <2>12 DEF FsInv
<1> QED
  BY <1>1, <1>2

\* A descriptor stays that of the file it was opened on, at the byte its reads have come
\* to, until it is closed, and is never given out again: open counts next_fd upwards.
THEOREM DescriptorsAlwaysKept == FsSpec => []DescriptorsKept
<1>1. FsInit => FsInv
  BY DEF FsInit, FsInv, FsTypeOK, FdsFresh, OffsetsInside, DescriptorsKept
<1>2. FsInv /\ [FsNext]_fsVars => FsInv'
  <2> SUFFICES ASSUME FsInv, [FsNext]_fsVars PROVE FsInv'
    OBVIOUS
  <2>1. ASSUME NEW m \in Mounts, mount(m) PROVE FsInv'
    BY <2>1, FsUnchanged DEF mount
  <2>2. ASSUME NEW path \in Paths, open(path) PROVE FsInv'
    BY <2>2, OpenKeeps
  <2>3. ASSUME NEW fd \in 0 .. next_fd, close(fd) PROVE FsInv'
    BY <2>3, CloseKeeps DEF FsInv, FsTypeOK
  <2>4. ASSUME NEW fd \in 0 .. next_fd, NEW len \in Sizes, read(fd, len) PROVE FsInv'
    BY <2>4, ReadKeeps DEF FsInv, FsTypeOK
  <2>5. ASSUME NEW fd \in 0 .. next_fd, NEW len \in Sizes, write(fd, len) PROVE FsInv'
    BY <2>5, FsUnchanged DEF write
  <2>6. CASE UNCHANGED fsVars
    BY <2>6, FsUnchanged DEF fsVars
  <2> QED
    BY <2>1, <2>2, <2>3, <2>4, <2>5, <2>6 DEF FsNext
<1>3. FsInv => DescriptorsKept
  BY DEF FsInv
<1> QED
  BY <1>1, <1>2, <1>3, PTL DEF FsSpec

-----------------------------------------------------------------------------
(* The thread manager. *)

TmTypeOK ==
    /\ next_id \in Nat \ {0}
    /\ threads \in Seq(Nat \ {0})
    /\ creating \in [Creators -> Nat]
    /\ thread_out \in [Creators -> Seq(Nat \ {0})]

\* The numbers taken so far lie below the next one; one that a creator still holds has
\* not been stored, and no other creator holds it.
IdsFresh ==
    /\ \A i \in DOMAIN threads : threads[i] < next_id
    /\ \A c \in Creators : creating[c] < next_id
    /\ \A c \in Creators : creating[c] # 0 =>
          /\ \A i \in DOMAIN threads : threads[i] # creating[c]
          /\ \A d \in Creators : creating[d] = creating[c] => d = c

\* Every number was stored once and given out once, and a creator's k-th handle is at
\* least k.
IdsStoredOnce ==
    /\ \A i, j \in DOMAIN threads : threads[i] = threads[j] => i = j
    /\ \A c, d \in Creators : \A i \in DOMAIN thread_out[c], j \in DOMAIN thread_out[d] :
          thread_out[c][i] = thread_out[d][j] => c = d /\ i = j
    /\ \A c \in Creators : \A i \in DOMAIN thread_out[c] :
          /\ i <= thread_out[c][i]
          /\ \E j \in DOMAIN threads : threads[j] = thread_out[c][i]
    /\ \A j \in DOMAIN threads : \E c \in Creators : \E i \in DOMAIN thread_out[c] :
          threads[j] = thread_out[c][i]
    /\ \A c \in Creators : creating[c] # 0 => Len(thread_out[c]) < creating[c]

TmInv == TmTypeOK /\ IdsFresh /\ IdsStoredOnce

\* The number create_thread takes under the first mutex is held by no one.
LEMMA TakeIdKeeps ==
    ASSUME TmInv, NEW c \in Creators, TakeId(c)
    PROVE  TmInv'
<1>1. /\ creating' = [creating EXCEPT ![c] = next_id]
      /\ next_id' = next_id + 1
      /\ threads' = threads /\ thread_out' = thread_out
      /\ next_id \in Nat \ {0} /\ creating \in [Creators -> Nat]
  BY DEF TakeId, NewId, TmInv, TmTypeOK
<1>2. /\ creating'[c] = next_id
      /\ \A d \in Creators : d # c => creating'[d] = creating[d]
      /\ \A d \in Creators : creating[d] \in Nat /\ creating'[d] \in Nat
  BY <1>1
<1>3. TmTypeOK'
  BY <1>1 DEF TmInv, TmTypeOK
<1>4. \A i \in DOMAIN threads : threads[i] \in Nat \ {0} /\ threads[i] < next_id
  BY DEF TmInv, TmTypeOK, IdsFresh
<1>5. IdsFresh'
  <2>1. \A d \in Creators : creating[d] < next_id
    BY DEF TmInv, IdsFresh
  <2>2. ASSUME NEW d \in Creators, creating'[d] # 0
        PROVE  \A i \in DOMAIN threads : threads[i] # creating'[d]
    BY <1>1, <1>2, <1>4, <2>2 DEF TmInv, IdsFresh
  <2>3. ASSUME NEW d \in Creators, NEW e \in Creators, creating'[d] # 0, creating'[e] = creating'[d]
        PROVE  e = d
    BY <1>1, <1>2, <2>1, <2>3 DEF TmInv, IdsFresh
  <2> QED
    BY <1>1, <1>2, <1>4, <2>1, <2>2, <2>3 DEF IdsFresh
<1>6. Len(thread_out[c]) < next_id
  <2>1. thread_out[c] \in Seq(Nat \ {0})
    BY DEF TmInv, TmTypeOK
  <2>2. CASE Len(thread_out[c]) = 0
    BY <1>1, <2>2
  <2>3. CASE Len(thread_out[c]) # 0
    <3> DEFINE k == Len(thread_out[c])
    <3>1. k \in DOMAIN thread_out[c] /\ k \in Nat
      BY <2>1, <2>3
    <3>2. k <= thread_out[c][k] /\ \E j \in DOMAIN threads : threads[j] = thread_out[c][k]
      BY <3>1 DEF TmInv, IdsStoredOnce
    <3> QED
      BY <1>1, <1>4, <3>1, <3>2
  <2> QED
    BY <2>2, <2>3
<1>7. IdsStoredOnce'
  BY <1>1, <1>2, <1>6 DEF TmInv, IdsStoredOnce
<1> QED
  BY <1>3, <1>5, <1>7 DEF TmInv

\* Storing the thread and giving its creator the handle move one number from the creator
\* to both lists.
LEMMA PushKeeps ==
    ASSUME TmInv, NEW c \in Creators, Push(c)
    PROVE  TmInv'
<1> DEFINE n == creating[c]
           out == thread_out[c]
<1>1. /\ n # 0
      /\ threads' = Append(threads, n)
      /\ thread_out' = [thread_out EXCEPT ![c] = Append(out, n)]
      /\ creating' = [creating EXCEPT ![c] = 0]
      /\ next_id' = next_id
  BY DEF Push
<1>2. /\ threads \in Seq(Nat \ {0}) /\ thread_out \in [Creators -> Seq(Nat \ {0})]
      /\ creating \in [Creators -> Nat] /\ next_id \in Nat \ {0}
      /\ out \in Seq(Nat \ {0}) /\ n \in Nat \ {0}
  BY <1>1 DEF TmInv, TmTypeOK
<1>3. /\ n < next_id
      /\ \A i \in DOMAIN threads : threads[i] # n
      /\ \A d \in Creators : creating[d] = n => d = c
      /\ Len(out) < n
  BY <1>1 DEF TmInv, IdsFresh, IdsStoredOnce
<1> HIDE DEF n, out
<1>4. /\ threads' \in Seq(Nat \ {0})
      /\ Len(threads) \in Nat
      /\ DOMAIN threads = 1 .. Len(threads)
      /\ DOMAIN threads' = 1 .. Len(threads) + 1
      /\ \A i \in DOMAIN threads : threads'[i] = threads[i]
      /\ threads'[Len(threads) + 1] = n
  BY <1>1, <1>2
<1>5. /\ Append(out, n) \in Seq(Nat \ {0})
      /\ Len(out) \in Nat
      /\ DOMAIN out = 1 .. Len(out)
      /\ DOMAIN Append(out, n) = 1 .. Len(out) + 1
      /\ \A i \in DOMAIN out : Append(out, n)[i] = out[i]
      /\ Append(out, n)[Len(out) + 1] = n
  BY <1>2
<1>6. /\ thread_out'[c] = Append(out, n)
      /\ \A d \in Creators : d # c => thread_out'[d] = thread_out[d]
      /\ creating'[c] = 0
      /\ \A d \in Creators : d # c => creating'[d] = creating[d]
  BY <1>1, <1>2
<1>7. TmTypeOK'
  BY <1>1, <1>2, <1>4, <1>5 DEF TmTypeOK
<1>8. IdsFresh'
  <2>1. \A i \in DOMAIN threads' : threads'[i] < next_id'
    BY <1>1, <1>3, <1>4 DEF TmInv, IdsFresh
  <2>2. \A d \in Creators : creating'[d] < next_id'
    BY <1>1, <1>2, <1>6 DEF TmInv, IdsFresh
  <2>3. ASSUME NEW d \in Creators, creating'[d] # 0
        PROVE  /\ \A i \in DOMAIN threads' : threads'[i] # creating'[d]
               /\ \A e \in Creators : creating'[e] = creating'[d] => e = d
    <3>1. d # c /\ creating'[d] = creating[d] /\ creating[d] # n
      BY <1>3, <1>6, <2>3
    <3>2. \A i \in DOMAIN threads' : threads'[i] # creating'[d]
      BY <1>4, <2>3, <3>1 DEF TmInv, IdsFresh
    <3>3. \A e \in Creators : creating'[e] = creating'[d] => e = d
      BY <1>6, <2>3, <3>1 DEF TmInv, IdsFresh
    <3> QED
      BY <3>2, <3>3
  <2> QED
    BY <2>1, <2>2, <2>3 DEF IdsFresh
<1>9. \A i, j \in DOMAIN threads' : threads'[i] = threads'[j] => i = j
  BY <1>3, <1>4 DEF TmInv, IdsStoredOnce
<1>10. \A d \in Creators : \A i \in DOMAIN thread_out[d] : thread_out[d][i] # n
  BY <1>3 DEF TmInv, IdsStoredOnce
\* A handle given out is an old one, or the new one at the end of the creator's list.
<1>11. ASSUME NEW d \in Creators, NEW i \in DOMAIN thread_out'[d]
       PROVE  \/ i \in DOMAIN thread_out[d] /\ thread_out'[d][i] = thread_out[d][i]
              \/ d = c /\ i = Len(out) + 1 /\ thread_out'[d][i] = n
  <2>1. thread_out[c] = out
    BY DEF out
  <2>2. CASE d = c
    BY <1>5, <1>6, <2>1, <2>2
  <2>3. CASE d # c
    BY <1>6, <1>11, <2>3
  <2> QED
    BY <2>2, <2>3
<1>12. ASSUME NEW d \in Creators, NEW i \in DOMAIN thread_out[d]
       PROVE  i \in DOMAIN thread_out'[d] /\ thread_out'[d][i] = thread_out[d][i]
  <2>1. CASE d = c
    <3>1. i \in DOMAIN out
      BY <2>1 DEF out
    <3>2. i \in DOMAIN Append(out, n) /\ Append(out, n)[i] = out[i]
      BY <3>1, <1>5
    <3> QED
      BY <2>1, <3>2, <1>6 DEF out
  <2>2. CASE d # c
    BY <2>2, <1>6
  <2> QED
    BY <2>1, <2>2
<1>13. ASSUME NEW d \in Creators, NEW e \in Creators, NEW i \in DOMAIN thread_out'[d],
              NEW j \in DOMAIN thread_out'[e], thread_out'[d][i] = thread_out'[e][j]
       PROVE  d = e /\ i = j
  <2>1. \/ i \in DOMAIN thread_out[d] /\ thread_out'[d][i] = thread_out[d][i]
        \/ d = c /\ i = Len(out) + 1 /\ thread_out'[d][i] = n
    BY <1>11
  <2>2. \/ j \in DOMAIN thread_out[e] /\ thread_out'[e][j] = thread_out[e][j]
        \/ e = c /\ j = Len(out) + 1 /\ thread_out'[e][j] = n
    BY <1>11
  <2> QED
    BY <2>1, <2>2, <1>10, <1>13 DEF TmInv, IdsStoredOnce
<1>14. ASSUME NEW d \in Creators, NEW i \in DOMAIN thread_out'[d]
       PROVE  /\ i <= thread_out'[d][i]
              /\ \E j \in DOMAIN threads' : threads'[j] = thread_out'[d][i]
  <2>1. CASE i \in DOMAIN thread_out[d] /\ thread_out'[d][i] = thread_out[d][i]
    <3>1. i <= thread_out[d][i] /\ \E j \in DOMAIN threads : threads[j] = thread_out[d][i]
      BY <2>1 DEF TmInv, IdsStoredOnce
    <3> QED
      BY <2>1, <3>1, <1>4
  <2>2. CASE i = Len(out) + 1 /\ thread_out'[d][i] = n
    <3>1. Len(threads) + 1 \in DOMAIN threads'
      BY <1>4
    <3>2. i <= n
      BY <2>2, <1>2, <1>3, <1>5
    <3>3. threads'[Len(threads) + 1] = thread_out'[d][i]
      BY <2>2, <1>4
    <3> QED
      BY <2>2, <3>1, <3>2, <3>3
  <2> QED
    BY <2>1, <2>2, <1>11
<1>15. ASSUME NEW j \in DOMAIN threads'
       PROVE  \E d \in Creators : \E i \in DOMAIN thread_out'[d] : threads'[j] = thread_out'[d][i]
  <2>1. CASE j \in DOMAIN threads
    <3>1. PICK d \in Creators : \E i \in DOMAIN thread_out[d] : threads[j] = thread_out[d][i]
      BY <2>1 DEF TmInv, IdsStoredOnce
    <3> QED
      BY <2>1, <3>1, <1>4, <1>12
  <2>2. CASE j = Len(threads) + 1
    <3>1. Len(out) + 1 \in DOMAIN thread_out'[c] /\ thread_out'[c][Len(out) + 1] = n
      BY <1>5, <1>6
    <3> QED
      BY <2>2, <3>1, <1>4
  <2> QED
    BY <2>1, <2>2, <1>4
<1>16. \A d \in Creators : creating'[d] # 0 => Len(thread_out'[d]) < creating'[d]
  BY <1>6 DEF TmInv, IdsStoredOnce
<1>17. IdsStoredOnce'
  BY <1>9, <1>13, <1>14, <1>15, <1>16 DEF IdsStoredOnce
<1> QED
  BY <1>7, <1>8, <1>17 DEF TmInv

\* What the invariant says of the handles given out.
LEMMA TmInvUnique == TmInv => HandlesUnique
<1> SUFFICES ASSUME TmInv, NEW n \in 1 .. MaxCreated
             PROVE  LET Stored == {i \in DOMAIN threads : threads[i] = n}
                        Given == {ci \in Creators \X (1 .. MaxCreated) :
                                    ci[2] \in DOMAIN thread_out[ci[1]] /\ thread_out[ci[1]][ci[2]] = n}
                    IN  /\ \A i, j \in Stored : i = j
                        /\ \A a, b \in Given : a = b
                        /\ Stored = {} <=> Given = {}
  BY DEF HandlesUnique
<1> DEFINE Stored == {i \in DOMAIN threads : threads[i] = n}
           Given == {ci \in Creators \X (1 .. MaxCreated) :
                       ci[2] \in DOMAIN thread_out[ci[1]] /\ thread_out[ci[1]][ci[2]] = n}
<1>1. \A i, j \in Stored : i = j
  BY DEF TmInv, IdsStoredOnce
<1>2. ASSUME NEW a \in Given, NEW b \in Given
      PROVE  a = b
  <2>1. /\ a \in Creators \X (1 .. MaxCreated) /\ b \in Creators \X (1 .. MaxCreated)
        /\ a[2] \in DOMAIN thread_out[a[1]] /\ b[2] \in DOMAIN thread_out[b[1]]
        /\ thread_out[a[1]][a[2]] = n /\ thread_out[b[1]][b[2]] = n
    OBVIOUS
  <2>2. a[1] = b[1] /\ a[2] = b[2]
    BY <2>1 DEF TmInv, IdsStoredOnce
  <2> QED
    BY <2>1, <2>2
<1>3. ASSUME NEW i \in Stored
      PROVE  Given # {}
  <2>1. PICK c \in Creators : \E k \in DOMAIN thread_out[c] : thread_out[c][k] = n
    BY DEF TmInv, IdsStoredOnce
  <2>2. PICK k \in DOMAIN thread_out[c] : thread_out[c][k] = n
    BY <2>1
  <2>3. k \in 1 .. MaxCreated
    <3>1. thread_out[c] \in Seq(Nat \ {0})
      BY DEF TmInv, TmTypeOK
    <3>2. k \in Nat \ {0}
      BY <3>1
    <3>3. k <= n
      BY <2>2 DEF TmInv, IdsStoredOnce
    <3> QED
      BY <3>2, <3>3, ThreadManagerAssumption
  <2>4. <<c, k>> \in Given
    BY <2>2, <2>3
  <2> QED
    BY <2>4
<1>4. ASSUME NEW a \in Given
      PROVE  Stored # {}
  <2>1. a[1] \in Creators /\ a[2] \in DOMAIN thread_out[a[1]] /\ thread_out[a[1]][a[2]] = n
    OBVIOUS
  <2>2. \E j \in DOMAIN threads : threads[j] = n
    BY <2>1 DEF TmInv, IdsStoredOnce
  <2> QED
    BY <2>2
<1> QED
  BY <1>1, <1>2, <1>3, <1>4

\* However the two halves of create_thread interleave, every handle given out is that of
\* one thread of the list, which no other call was given: a number is taken under a mutex
\* and counted upwards, never derived from the list.
THEOREM HandlesAlwaysUnique == TmSpec => []HandlesUnique
<1>1. TmInit => TmInv
  BY DEF TmInit, TmInv, TmTypeOK, IdsFresh, IdsStoredOnce
<1>2. TmInv /\ [TmNext]_tmVars => TmInv'
  <2> SUFFICES ASSUME TmInv, [TmNext]_tmVars PROVE TmInv'
    OBVIOUS
  <2>1. CASE UNCHANGED tmVars
    BY <2>1 DEF tmVars, TmInv, TmTypeOK, IdsFresh, IdsStoredOnce
  <2> QED
    BY <2>1, TakeIdKeeps, PushKeeps DEF TmNext, thread_count
<1> QED
  BY <1>1, <1>2, TmInvUnique, PTL DEF TmSpec

=============================================================================
