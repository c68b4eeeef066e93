-------------------------------- MODULE MCTrap --------------------------------
(***************************************************************************)
(* The handlers of all threads, and the stack of one that faults and is    *)
(* recovered.  What UnwindFound and UnwindFails leave to chance in         *)
(* TrapDispatcher is what the walk of FrameWalk finds; the stack of a      *)
(* thread is no other thread's business, so a behaviour follows either the *)
(* threads or a stack.                                                     *)
(***************************************************************************)
EXTENDS TrapDispatcher, FrameWalk

VARIABLE side    \* "threads" or "stack"

\* Of the initial stacks, one is enough when the threads are followed.
MCInit ==
    /\ Init /\ WalkInit /\ side \in {"threads", "stack"}
    /\ side = "threads" => \A a \in DOMAIN mem : mem[a] = 0
    /\ side = "threads" => rbp = 0

MCNext ==
    \/ side = "threads" /\ Next /\ UNCHANGED <<side, walkVars>>
    \/ side = "stack" /\ WalkNext /\ UNCHANGED <<side, vars>>

MCSpec == MCInit /\ [][MCNext]_<<side, vars, walkVars>> /\ Fairness

=============================================================================
