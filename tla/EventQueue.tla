------------------------------ MODULE EventQueue ------------------------------
(***************************************************************************)
(* An event queue of crates/core/src/kernel/equeue.rs: events are          *)
(* triggered and waited for by any thread.  The mutex around the queue is  *)
(* held for each step below; a wait that finds the queue empty lets it go  *)
(* while it sleeps.  Events are numbered as they are triggered, and time   *)
(* passes in ticks of a clock that every thread sees.                      *)
(* add_event registers nothing in this code and has no action.             *)
(***************************************************************************)
EXTENDS Integers, Sequences

CONSTANTS
    Threads,
    MaxEvents,     \* the values of max_events there are
    Timeouts,      \* the timeouts there are, in ticks
    SleepCap,      \* what 16 ms are in ticks
    TriggerLimit,  \* bound: the events triggered
    ClockLimit     \* bound: the ticks

ASSUME EventQueueAssumption ==
    /\ MaxEvents \subseteq Nat
    /\ Timeouts \subseteq Nat
    /\ SleepCap \in Nat
    /\ TriggerLimit \in Nat
    /\ ClockLimit \in Nat

VARIABLES
    events,      \* the pending ones: [id, at], numbered and stamped with the time
    pc,          \* where each thread is
    args,        \* of a wait that sleeps: max_events, timeout and when it began
    now,         \* the time
    triggered,   \* history: how many there have been
    delivered    \* history: those the waits have returned, in order

vars == <<events, pc, args, now, triggered, delivered>>

Smaller(a, b) == IF a < b THEN a ELSE b

NoArgs == [max |-> 0, timeout |-> 0, began |-> 0]

trigger_event ==
    /\ triggered < TriggerLimit
    /\ triggered' = triggered + 1
    /\ events' = Append(events, [id |-> triggered + 1, at |-> now])
    /\ UNCHANGED <<pc, args, now, delivered>>

\* Mutant: the whole queue is cleared, not the part returned.
Rest_Cleared(count) == <<>>

Rest(count) == SubSeq(events, count + 1, Len(events))

Count(max) == Smaller(Len(events), max)

\* The numbers of the events that a wait returns.
Numbers(count) == [i \in 1 .. count |-> events[i].id]

\* The end of a wait: drain(..count) under the lock.
Drain(t, max) ==
    LET count == Count(max)
    IN  /\ delivered' = delivered \o Numbers(count)
        /\ events' = Rest(count)
        /\ pc' = [pc EXCEPT ![t] = "guest"]
        /\ args' = [args EXCEPT ![t] = NoArgs]

\* A wait that does not sleep: there are events, or no timeout was given.
Wait(t, max, timed) ==
    /\ pc[t] = "guest"
    /\ events # <<>> \/ ~timed
    /\ Drain(t, max)
    /\ UNCHANGED <<now, triggered>>

\* Mutant: the sleep lasts as long as the guest asked.
SleepTime_Uncapped(timeout) == timeout

SleepTime(timeout) == Smaller(timeout, SleepCap)

\* The queue is empty: the lock is dropped for the sleep.  One that the clock could
\* not end is not begun.
WaitSleeps(t, max, timeout) ==
    /\ pc[t] = "guest"
    /\ events = <<>>
    /\ now + SleepTime(timeout) <= ClockLimit
    /\ pc' = [pc EXCEPT ![t] = "sleep"]
    /\ args' = [args EXCEPT ![t] = [max |-> max, timeout |-> timeout, began |-> now]]
    /\ UNCHANGED <<events, now, triggered, delivered>>

\* When the sleep of thread t may end.
Due(t) == args[t].began + SleepTime(args[t].timeout)

\* The sleep is over, whatever has happened meanwhile; the host may be late.
WaitWakes(t) ==
    /\ pc[t] = "sleep"
    /\ now >= Due(t)
    /\ Drain(t, args[t].max)
    /\ UNCHANGED <<now, triggered>>

Tick ==
    /\ now < ClockLimit
    /\ now' = now + 1
    /\ UNCHANGED <<events, pc, args, triggered, delivered>>

Init ==
    /\ events = <<>>
    /\ pc = [t \in Threads |-> "guest"]
    /\ args = [t \in Threads |-> NoArgs]
    /\ now = 0
    /\ triggered = 0
    /\ delivered = <<>>

Next ==
    \/ trigger_event
    \/ Tick
    \/ \E t \in Threads :
        \/ \E max \in MaxEvents, timed \in BOOLEAN : Wait(t, max, timed)
        \/ \E max \in MaxEvents, timeout \in Timeouts : WaitSleeps(t, max, timeout)
        \/ WaitWakes(t)

Spec == Init /\ [][Next]_vars

-----------------------------------------------------------------------------
(* Properties.                                                             *)

Event == [id : Nat, at : Nat]

\* The type of the state of the queue and of its waiters.
TypeOK ==
    /\ events \in Seq(Event)
    /\ pc \in [Threads -> {"guest", "sleep"}]
    /\ args \in [Threads -> [max : Nat, timeout : Nat, began : Nat]]
    /\ now \in Nat
    /\ triggered \in Nat
    /\ delivered \in Seq(Nat)

\* However many threads wait at once, sleep over triggers and take few events at
\* a time, every event triggered is returned by one wait or still pending, and
\* they are returned in the order they were triggered.
ExactlyOnceInOrder ==
    /\ Len(delivered) + Len(events) = triggered
    /\ \A i \in 1 .. Len(delivered) : delivered[i] = i
    /\ \A i \in 1 .. Len(events) : events[i].id = Len(delivered) + i

\* A trigger wakes nobody, so an event that comes during a sleep is left pending.
\* By the time the sleep may end, it has been so for 16 ms at most: for any
\* timeout, and whatever other threads wait, trigger and leave behind meanwhile, no
\* thread sleeps longer over an event that it could take (equeue.rs:88-93).
PickedUpInTime ==
    \A t \in Threads : pc[t] = "sleep" =>
        \A i \in 1 .. Len(events) : Due(t) <= events[i].at + SleepCap

-----------------------------------------------------------------------------
(* What the code does not keep: README.md, "Divergences", says how.        *)

\* "Sleep for the timeout duration" (equeue.rs:91): a wait with room for an event
\* that slept and returns none has waited for all of its timeout.
EmptyOnlyAtTimeout ==
    [][\A t \in Threads :
          /\ pc[t] = "sleep" /\ pc'[t] = "guest"
          /\ args[t].max > 0 /\ delivered' = delivered
          => now >= args[t].began + args[t].timeout]_vars

=============================================================================
