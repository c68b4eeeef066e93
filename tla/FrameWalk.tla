------------------------------ MODULE FrameWalk ------------------------------
(***************************************************************************)
(* The recovery of sigsegv_handler (crates/core/src/hle/dispatcher.rs) on  *)
(* the stack of one guest thread: the thread calls, returns and faults,    *)
(* and the handler looks for a frame to go on in, first along the chain of *)
(* saved RBPs, one frame at a time, then at RSP.                           *)
(*                                                                         *)
(* Stack and addresses count words, so a frame is two of them: the saved   *)
(* RBP and, above it, the return address.  A return address is in the code *)
(* of eboot.bin, which the handler accepts, or in that of a module further *)
(* up.  A local variable is 0 or looks like one.                           *)
(* The thread itself is external: guest code that keeps to the calling     *)
(* convention, sets up frames and keeps RBP for its caller.                *)
(***************************************************************************)
EXTENDS Integers, Sequences

CONSTANTS
    Depth,        \* how many frames the handler looks at: 16
    StackSize,    \* words of the stack
    MaxRecovered  \* bound: the recoveries

ASSUME FrameWalkAssumption ==
    /\ Depth \in Nat
    /\ StackSize \in Nat
    /\ MaxRecovered \in Nat

VARIABLES
    mem,        \* address -> word
    rip, rsp, rbp,
    frames,     \* history: the active calls, the outermost first
    mode,       \* "guest", "walk" in the handler, "fallback" after a recovery at RSP,
                \* "fatal", or "nested" when the handler itself faults
    depth,      \* the index of the handler's loop
    frame_rbp,  \* the frame it has come to
    recoveries  \* how many there were

registers == <<rip, rsp, rbp>>
loop == <<depth, frame_rbp>>
walkVars == <<mem, registers, frames, mode, loop, recoveries>>

\* 0x1000: what is below is taken for no frame.
LowLimit == 5
Bottom == 10
Top == Bottom + StackSize

\* Where jump_to_guest leaves RBP: the stack of the host, with a register saved
\* by it where a frame has the RBP of its caller.
HostFrame == Top + 10
Unmapped == Top + 20

\* The code a function goes on at after a call, by its place in the chain.
Modules == {"eboot", "far"}
Code(module, k) == IF module = "eboot" THEN 1000 + k ELSE 2000 + k

GuestCode(addr) == addr >= 1000 /\ addr < 2000

Callee == frames[Len(frames)]

\* What is below RSP is dead.
Popped(sp) == [a \in DOMAIN mem |-> IF a < sp THEN 0 ELSE mem[a]]

-----------------------------------------------------------------------------
(* The thread. *)

\* A call, to code that has not set up its frame yet.
Call(module) ==
    /\ mode = "guest" /\ rsp > Bottom
    /\ rsp' = rsp - 1
    /\ mem' = [mem EXCEPT ![rsp - 1] = rip]
    /\ rip' = Code(module, Len(frames) + 1)
    /\ frames' = Append(frames, [code |-> rip', slot |-> rsp - 1, rbp |-> rbp, framed |-> FALSE])
    /\ UNCHANGED <<rbp, mode, loop, recoveries>>

\* push rbp; mov rbp, rsp
Prologue ==
    /\ mode = "guest" /\ ~Callee.framed /\ rsp = Callee.slot /\ rsp > Bottom
    /\ rsp' = rsp - 1
    /\ mem' = [mem EXCEPT ![rsp - 1] = rbp]
    /\ rbp' = rsp - 1
    /\ frames' = [frames EXCEPT ![Len(frames)].framed = TRUE]
    /\ UNCHANGED <<rip, mode, loop, recoveries>>

\* A local variable.
Local(word) ==
    /\ mode = "guest" /\ rsp > Bottom
    /\ rsp' = rsp - 1
    /\ mem' = [mem EXCEPT ![rsp - 1] = word]
    /\ UNCHANGED <<rip, rbp, frames, mode, loop, recoveries>>

\* leave; ret, or the like without a frame
Ret ==
    /\ mode = "guest" /\ Len(frames) > 1
    /\ IF Callee.framed
       THEN rsp' = rbp + 2 /\ rip' = mem[rbp + 1] /\ rbp' = mem[rbp]
       ELSE rsp' = Callee.slot + 1 /\ rip' = mem[Callee.slot] /\ UNCHANGED rbp
    /\ frames' = SubSeq(frames, 1, Len(frames) - 1)
    /\ mem' = Popped(rsp')
    /\ UNCHANGED <<mode, loop, recoveries>>

-----------------------------------------------------------------------------
(* sigsegv_handler. *)

\* Mutant: only the saved RBP is skipped.
NewRsp_OnReturn(f) == f + 1

\* Past the saved RBP and the return address.
NewRsp(f) == f + 2

\* The calls that are still active once RSP is there.
StillActive(sp) ==
    SubSeq(frames, 1, CHOOSE n \in 0 .. Len(frames) :
                          \A k \in DOMAIN frames : k <= n <=> frames[k].slot >= sp)

\* The handler is entered, and begins with the frame of the function that faulted.
Fault ==
    /\ mode = "guest" /\ recoveries < MaxRecovered
    /\ mode' = "walk"
    /\ depth' = 0
    /\ frame_rbp' = rbp
    /\ recoveries' = recoveries + 1
    /\ UNCHANGED <<mem, registers, frames>>

\* Is the loop over?  There are two ways out of it other than a return address.
LoopEnds == depth = Depth \/ frame_rbp < LowLimit

Readable == {frame_rbp, frame_rbp + 1} \subseteq DOMAIN mem

\* This frame's caller is not in eboot.bin.
NextFrame ==
    /\ mode = "walk" /\ ~LoopEnds /\ Readable /\ ~GuestCode(mem[frame_rbp + 1])
    /\ depth' = depth + 1
    /\ frame_rbp' = mem[frame_rbp]
    /\ UNCHANGED <<mem, registers, frames, mode, recoveries>>

\* The caller goes on.
Unwind ==
    /\ mode = "walk" /\ ~LoopEnds /\ Readable /\ GuestCode(mem[frame_rbp + 1])
    /\ rip' = mem[frame_rbp + 1]
    /\ rbp' = mem[frame_rbp]
    /\ rsp' = NewRsp(frame_rbp)
    /\ frames' = StillActive(rsp')
    /\ mem' = Popped(rsp')
    /\ mode' = "guest"
    /\ depth' = 0 /\ frame_rbp' = 0
    /\ UNCHANGED recoveries

\* No frame will do, but there is a return address at RSP.
Fallback ==
    /\ mode = "walk" /\ LoopEnds /\ GuestCode(mem[rsp])
    /\ rip' = mem[rsp]
    /\ rsp' = NewRsp(frame_rbp)
    /\ frames' = StillActive(rsp + 1)
    /\ mode' = "fallback"
    /\ UNCHANGED <<mem, rbp, loop, recoveries>>

\* There is none, or the frame cannot be read.
Dies ==
    /\ mode = "walk"
    /\ \/ LoopEnds /\ ~GuestCode(mem[rsp]) /\ mode' = "fatal"
       \/ ~LoopEnds /\ ~Readable /\ mode' = "nested"
    /\ UNCHANGED <<mem, registers, frames, loop, recoveries>>

\* jump_to_guest for main, with one of the host's registers where the chain ends,
\* and jump_to_guest_thread for the others.
WalkInit ==
    /\ \E saved \in {0, Unmapped} :
          mem = [a \in Bottom .. Top \cup {HostFrame, HostFrame + 1} |->
                    IF a = HostFrame THEN saved ELSE 0]
    /\ rip = Code("eboot", 1)
    /\ rsp = Top
    /\ rbp \in {0, HostFrame}
    /\ frames = <<[code |-> rip, slot |-> Top, rbp |-> rbp, framed |-> FALSE]>>
    /\ mode = "guest"
    /\ depth = 0
    /\ frame_rbp = 0
    /\ recoveries = 0

WalkNext ==
    \/ \E module \in Modules : Call(module)
    \/ \E word \in {0, Code("eboot", 1)} : Local(word)
    \/ Prologue \/ Ret
    \/ Fault \/ NextFrame \/ Unwind \/ Fallback \/ Dies

WalkSpec == WalkInit /\ [][WalkNext]_walkVars

-----------------------------------------------------------------------------
(* Properties. *)

\* Call k returns: its caller goes on in its own code, with its own frame and the
\* stack as it was before the call.
Returns(k) ==
    /\ rip' = frames[k - 1].code
    /\ rsp' = frames[k].slot + 1
    /\ rbp' = frames[k].rbp

\* "unwinding the stack frame and returning 0 to the caller" (dispatcher.rs:289):
\* whatever was called and recovered from before, with functions that have no
\* frame yet and callers in other modules among the active ones, a recovery along
\* the chain goes on in one of the callers as if the calls below it had returned.
ResumesACaller ==
    [][Unwind => \E k \in 2 .. Len(frames) : Returns(k)]_walkVars

\* The handler's reads of the frames fault only behind the frame of the host.
NestedAtHost == mode = "nested" => frame_rbp = Unmapped

-----------------------------------------------------------------------------
(* What the code does not keep: README.md, "Divergences", says how.        *)

\* "simulating a `ret` (popping return address from stack, setting RAX=0)"
\* (dispatcher.rs:255), when the return address is the one at RSP.
FallbackPops ==
    [][Fallback => \E k \in 2 .. Len(frames) : Returns(k)]_walkVars

\* A fault ends the function that made it, and not its caller too.
ToTheCaller ==
    [][Unwind /\ Len(frames) > 1 /\ GuestCode(mem[Callee.slot])
          => Returns(Len(frames))]_walkVars

\* The walk reads only the stack.
WalkStaysInside == mode # "nested"

=============================================================================
