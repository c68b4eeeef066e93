------------------------------- MODULE CxaGuard -------------------------------
(***************************************************************************)
(* The guards of function-local statics: __cxa_guard_acquire and           *)
(* __cxa_guard_release of crates/core/src/hle/exports.rs, called by guest  *)
(* threads around an initializer.  The two accesses of the guard in        *)
(* __cxa_guard_acquire are plain loads and stores of guest memory, with    *)
(* nothing between threads.  A guard that is a null pointer is left out.   *)
(***************************************************************************)
EXTENDS Integers, FiniteSets

CONSTANTS Threads, Guards, NoGuard   \* NoGuard is none of Guards

VARIABLES
    guard,   \* *guard_ptr
    pc,      \* where each thread is
    at,      \* the guard its last call was for
    begun,   \* history: who has been told to run the initializer
    done     \* history: the guards whose initializer has finished

vars == <<guard, pc, at, begun, done>>

NeedsInit(val) == val = 0

\* __cxa_guard_acquire reads the guard, and returns 0 unless it is 0.
Load(t, g) ==
    /\ pc[t] = "guest"
    /\ at' = [at EXCEPT ![t] = g]
    /\ pc' = [pc EXCEPT ![t] = IF NeedsInit(guard[g]) THEN "store" ELSE "use"]
    /\ UNCHANGED <<guard, begun, done>>

\* It sets the guard and returns 1.
Store(t) ==
    /\ pc[t] = "store"
    /\ guard' = [guard EXCEPT ![at[t]] = 1]
    /\ pc' = [pc EXCEPT ![t] = "init"]
    /\ begun' = [begun EXCEPT ![at[t]] = @ \cup {t}]
    /\ UNCHANGED <<at, done>>

\* The initializer has run; __cxa_guard_release sets the guard once more.
Release(t) ==
    /\ pc[t] = "init"
    /\ guard' = [guard EXCEPT ![at[t]] = 1]
    /\ pc' = [pc EXCEPT ![t] = "use"]
    /\ done' = done \cup {at[t]}
    /\ UNCHANGED <<at, begun>>

\* The guest has used the variable and goes on.
Use(t) ==
    /\ pc[t] = "use"
    /\ pc' = [pc EXCEPT ![t] = "guest"]
    /\ UNCHANGED <<guard, at, begun, done>>

Init ==
    /\ guard = [g \in Guards |-> 0]
    /\ pc = [t \in Threads |-> "guest"]
    /\ at = [t \in Threads |-> NoGuard]
    /\ begun = [g \in Guards |-> {}]
    /\ done = {}

Next == \E t \in Threads :
    \/ \E g \in Guards : Load(t, g)
    \/ Store(t) \/ Release(t) \/ Use(t)

Spec == Init /\ [][Next]_vars

-----------------------------------------------------------------------------
(* What the code does not keep: README.md, "Divergences", says how.        *)

\* One thread only is told to initialize a variable ("If *guard == 0, we set it to
\* 1 and return 1").
InitializedOnce == \A g \in Guards : Cardinality(begun[g]) <= 1

\* A thread told that the variable is initialized finds it so ("If *guard != 0,
\* return 0 (already initialized)").
UsedInitialized == \A t \in Threads : pc[t] = "use" => at[t] \in done

=============================================================================
