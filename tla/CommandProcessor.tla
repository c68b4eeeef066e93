--------------------------- MODULE CommandProcessor ---------------------------
(***************************************************************************)
(* The GPU front end: guest threads submit command buffers                 *)
(* (sceGnmSubmitCommandBuffers, sceGnmSubmitDone in                        *)
(* crates/core/src/hle/exports.rs) and run process_command_buffer of       *)
(* crates/gpu/src/liverpool/command_processor.rs on them, under the mutex  *)
(* GPU_CONTEXT of crates/gpu/src/lib.rs, taken anew for every buffer and   *)
(* held by sceGnmSubmitDone while a frame is presented.                    *)
(*                                                                         *)
(* A word of a buffer is its bits 30..31, 16..29 and 8..15, the ones the   *)
(* header parser reads.  The low byte only counts in a register offset and *)
(* is taken to be 255 there, the first to overflow: TopWord is 0xFFFFFFFF. *)
(* Draws, fences and the four kinds of registers change no state in this   *)
(* code and so none here.                                                  *)
(***************************************************************************)
EXTENDS Renderer, Sequences, FiniteSets

CONSTANTS
    Threads,
    NoThread,
    Submissions,     \* the lists of buffers each thread may submit
    MAX_BUFFERS,     \* a submission has fewer buffers than this (100)
    MAX_DWORDS,      \* a buffer that is processed has fewer words (0x1000000)
    MaxCalls,        \* bound: submissions of a thread
    MaxFrames,       \* bound: calls of submit_done, by all threads
    OverflowChecks   \* is the build one whose additions panic on overflow?

MaxCount == 16383    \* count has 14 bits
Word == [type : 0 .. 3, count : 0 .. MaxCount, op : 0 .. 255]
TopWord == [type |-> 3, count |-> MaxCount, op |-> 255]
ZeroWord == [type |-> 0, count |-> 0, op |-> 0]

ASSUME CommandProcessorAssumption ==
    /\ NoThread \notin Threads
    /\ \A t \in Threads : Submissions[t] \subseteq Seq(Seq(Word))
    /\ MAX_BUFFERS \in Nat \ {0}
    /\ MAX_DWORDS \in Nat \ {0}
    /\ MaxCalls \in Nat /\ MaxFrames \in Nat
    /\ OverflowChecks \in BOOLEAN

VARIABLES
    GPU_CONTEXT,      \* who holds the mutex
    regs,             \* the registers the processor decodes
    submit_count,     \* buffers processed
    frames_submitted,
    pc,               \* where each thread is
    todo,             \* the buffers left of its submission, the current one first
    offset,           \* its position in the current one
    calls,            \* submissions it has made, counted for the bound
    start,            \* history: the registers when its current buffer began
    stopped           \* has the process aborted?

vars == <<GPU_CONTEXT, regs, submit_count, frames_submitted, pc, todo, offset,
          calls, start, stopped, rendererVars>>

-----------------------------------------------------------------------------
(* Packets.  The offset of a packet is its header's, from 0.               *)

Pm4Type(h) == CASE h.type = 0 -> "Type0"
                [] h.type = 3 -> "Type3"
                [] OTHER -> "Type2"

NumInstances == 47
IndexBase == 38
IndexType == 42
IndexBufferSize == 19
SetRegs == {104, 105, 118, 121}    \* config, context, sh, uconfig

\* The decoded registers, the opcode that sets each and the words it takes.
Registers == {"num_instances", "index_base", "index_type", "index_size"}
SetBy == [num_instances |-> NumInstances, index_base |-> IndexBase,
          index_type |-> IndexType, index_size |-> IndexBufferSize]
Takes == [r \in Registers |-> IF r = "index_base" THEN 2 ELSE 1]

Smaller(a, b) == IF a < b THEN a ELSE b

\* Mutant: count is taken for the number of words, it is one less.
PacketEnd_CountIsLength(dcb, off) ==
    IF Pm4Type(dcb[off + 1]) = "Type3"
    THEN Smaller(off + 1 + dcb[off + 1].count, Len(dcb))
    ELSE off + 1

\* Mutant: a Type 2 packet is not stepped over.
PacketEnd_Stays(dcb, off) ==
    IF Pm4Type(dcb[off + 1]) = "Type3"
    THEN Smaller(off + 1 + dcb[off + 1].count + 1, Len(dcb))
    ELSE off

\* The offset after the packet at off, cut at the end of the buffer.
PacketEnd(dcb, off) ==
    IF Pm4Type(dcb[off + 1]) = "Type3"
    THEN Smaller(off + 1 + dcb[off + 1].count + 1, Len(dcb))
    ELSE off + 1

Body(dcb, off) == SubSeq(dcb, off + 2, PacketEnd(dcb, off))

\* What a packet leaves in the registers; a body that was cut too short sets none.
process_type3_packet(op, body, old) ==
    [r \in Registers |->
        IF op = SetBy[r] /\ Len(body) >= Takes[r] THEN SubSeq(body, 1, Takes[r]) ELSE old[r]]

\* reg_offset + i of the last of the registers written does not fit a u32: it is
\* 256 * (255 - op) below the greatest, or more than any body is long.
RegOffsetOverflows(op, body) ==
    /\ op \in SetRegs /\ Len(body) >= 2
    /\ body[1].type = 3 /\ body[1].count = MaxCount
    /\ Len(body) - 2 > 256 * (255 - body[1].op)

\* The packet sceGnmInsertWaitFlipDone writes for the guest: a NOP of 7 words.
WaitFlipDone == <<[type |-> 3, count |-> 5, op |-> 16]>> \o [i \in 1 .. 6 |-> ZeroWord]

-----------------------------------------------------------------------------
(* Calls.                                                                  *)

Goes(t, l, m) == ~stopped /\ pc[t] = l /\ pc' = [pc EXCEPT ![t] = m]

\* Mutant: the buffer is processed without the mutex.
GpuFree_Always(t) == TRUE

GpuFree(t) == GPU_CONTEXT = NoThread

CountAccepted(s) == Len(s) > 0 /\ Len(s) < MAX_BUFFERS
SizeAccepted(dcb) == Len(dcb) > 0 /\ Len(dcb) < MAX_DWORDS

\* sceGnmSubmitCommandBuffers is called; a count out of range submits nothing.
Submit(t, s) ==
    /\ Goes(t, "guest", "submit")
    /\ calls[t] < MaxCalls
    /\ calls' = [calls EXCEPT ![t] = @ + 1]
    /\ todo' = [todo EXCEPT ![t] = IF CountAccepted(s) THEN s ELSE <<>>]
    /\ UNCHANGED <<GPU_CONTEXT, regs, submit_count, frames_submitted, offset, start, stopped,
                   rendererVars>>

SkipBuffer(t) ==
    /\ Goes(t, "submit", "submit")
    /\ todo[t] # <<>> /\ ~SizeAccepted(Head(todo[t]))
    /\ todo' = [todo EXCEPT ![t] = Tail(@)]
    /\ UNCHANGED <<GPU_CONTEXT, regs, submit_count, frames_submitted, offset, calls, start,
                   stopped, rendererVars>>

\* with_gpu: the mutex is taken for this buffer.
BeginBuffer(t) ==
    /\ Goes(t, "submit", "packets")
    /\ todo[t] # <<>> /\ SizeAccepted(Head(todo[t]))
    /\ GpuFree(t)
    /\ GPU_CONTEXT' = t
    /\ offset' = [offset EXCEPT ![t] = 0]
    /\ start' = [start EXCEPT ![t] = regs]
    /\ UNCHANGED <<regs, submit_count, frames_submitted, todo, calls, stopped, rendererVars>>

\* One turn of the loop of process_command_buffer.
Packet(t) ==
    LET dcb == Head(todo[t])
        header == dcb[offset[t] + 1]
        body == Body(dcb, offset[t])
    IN  /\ Goes(t, "packets", "packets")
        /\ offset[t] < Len(dcb)
        /\ offset' = [offset EXCEPT ![t] = PacketEnd(dcb, offset[t])]
        /\ IF Pm4Type(header) = "Type3"
           THEN /\ stopped' = (OverflowChecks /\ RegOffsetOverflows(header.op, body))
                /\ regs' = process_type3_packet(header.op, body, regs)
           ELSE UNCHANGED <<regs, stopped>>
        /\ UNCHANGED <<GPU_CONTEXT, submit_count, frames_submitted, todo, calls, start,
                       rendererVars>>

EndBuffer(t) ==
    /\ Goes(t, "packets", "submit")
    /\ offset[t] >= Len(Head(todo[t]))
    /\ submit_count' = submit_count + 1
    /\ todo' = [todo EXCEPT ![t] = Tail(@)]
    /\ GPU_CONTEXT' = NoThread
    /\ UNCHANGED <<regs, frames_submitted, offset, calls, start, stopped, rendererVars>>

\* The pause after the last buffer, and the return to the guest.
Pace(t) ==
    /\ Goes(t, "submit", "guest")
    /\ todo[t] = <<>>
    /\ UNCHANGED <<GPU_CONTEXT, regs, submit_count, frames_submitted, todo, offset, calls,
                   start, stopped, rendererVars>>

\* sceGnmSubmitDone, and sceSystemServiceGetStatus, which presents a frame too: the
\* mutex is taken for the whole of it.
submit_done(t) ==
    /\ Goes(t, "guest", IF renderer THEN "wait" ELSE "done")
    /\ frames_submitted < MaxFrames
    /\ GpuFree(t)
    /\ GPU_CONTEXT' = t
    /\ frames_submitted' = frames_submitted + 1
    /\ UNCHANGED <<regs, submit_count, todo, offset, calls, start, stopped, rendererVars>>

\* One step of present_blank_frame.
present_blank_frame(t) ==
    /\ \/ Goes(t, "wait", "acquire") /\ wait_for_fences
       \/ Goes(t, "acquire", "queue") /\ acquire_next_image
       \/ Goes(t, "acquire", "done") /\ AcquireFails
       \/ Goes(t, "queue", "present") /\ queue_submit
       \/ Goes(t, "present", "done") /\ queue_present
    /\ UNCHANGED <<GPU_CONTEXT, regs, submit_count, frames_submitted, todo, offset, calls,
                   start, stopped>>

\* The device or the surface is lost: the call panics and the process aborts.
PresentPanics(t) ==
    /\ ~stopped /\ pc[t] \in {"wait", "acquire", "queue"}
    /\ stopped' = TRUE
    /\ UNCHANGED <<GPU_CONTEXT, regs, submit_count, frames_submitted, pc, todo, offset, calls,
                   start, rendererVars>>

EndSubmitDone(t) ==
    /\ Goes(t, "done", "guest")
    /\ GPU_CONTEXT' = NoThread
    /\ UNCHANGED <<regs, submit_count, frames_submitted, todo, offset, calls, start, stopped,
                   rendererVars>>

\* The device, the display and the window, whatever the threads do.
Outside(step) ==
    /\ ~stopped /\ step
    /\ UNCHANGED <<GPU_CONTEXT, regs, submit_count, frames_submitted, pc, todo, offset, calls,
                   start, stopped>>

-----------------------------------------------------------------------------

ZeroRegs == [r \in Registers |-> [i \in 1 .. Takes[r] |-> ZeroWord]]

Init ==
    /\ GPU_CONTEXT = NoThread
    /\ regs = ZeroRegs
    /\ submit_count = 0
    /\ frames_submitted = 0
    /\ pc = [t \in Threads |-> "guest"]
    /\ todo = [t \in Threads |-> <<>>]
    /\ offset = [t \in Threads |-> 0]
    /\ calls = [t \in Threads |-> 0]
    /\ start = [t \in Threads |-> ZeroRegs]
    /\ stopped = FALSE
    /\ RendererInit

Runs(t) == \/ SkipBuffer(t) \/ Packet(t) \/ EndBuffer(t) \/ Pace(t)
           \/ present_blank_frame(t) \/ EndSubmitDone(t)

Next ==
    \/ \E t \in Threads :
        \/ \E s \in Submissions[t] : Submit(t, s)
        \/ BeginBuffer(t)
        \/ submit_done(t)
        \/ Runs(t)
        \/ PresentPanics(t)
    \/ Outside(Execute)
    \/ Outside(Show)
    \/ Outside(Resize)

Spec == Init /\ [][Next]_vars

\* A thread in a call is scheduled again.  A waiter gets the mutex if it becomes
\* free over and over: it is free for the 16 ms every submission ends with.  The
\* device works off what was submitted and the display what was presented.
Fairness ==
    /\ \A t \in Threads : WF_vars(Runs(t)) /\ SF_vars(BeginBuffer(t))
    /\ WF_vars(Outside(Execute)) /\ WF_vars(Outside(Show))

FairSpec == Spec /\ Fairness

-----------------------------------------------------------------------------
(* What the packets of a buffer are, said without the loop.                *)

\* The words a packet has by its header.
PacketWords(h) == IF Pm4Type(h) = "Type2" THEN 1 ELSE h.count + 2

\* The offsets at which packets begin, the least set that has 0 and, with an offset,
\* the one at which its packet ends.
PacketStarts(dcb) ==
    LET Positions == 0 .. Len(dcb) - 1
        HasStarts(S) ==
            /\ 0 \in S
            /\ \A q \in S : LET end == q + PacketWords(dcb[q + 1])
                            IN  end \in Positions => end \in S
    IN  {p \in Positions : \A S \in SUBSET Positions : HasStarts(S) => p \in S}

\* The packets of dcb that set r, all their words present.
SettersOf(dcb, r) ==
    {p \in PacketStarts(dcb) :
        /\ dcb[p + 1].type = 3
        /\ dcb[p + 1].op = SetBy[r]
        /\ Smaller(dcb[p + 1].count + 1, Len(dcb) - p - 1) >= Takes[r]}

\* What the last of them, if any, leaves in r.
FinalValue(dcb, r, old) ==
    IF SettersOf(dcb, r) = {}
    THEN old
    ELSE LET last == CHOOSE p \in SettersOf(dcb, r) : \A q \in SettersOf(dcb, r) : q <= p
         IN  SubSeq(dcb, last + 2, last + 1 + Takes[r])

-----------------------------------------------------------------------------
(* Properties.                                                             *)

\* The type of the state; a decoded register always has the words it takes.
TypeOK ==
    /\ GPU_CONTEXT \in Threads \cup {NoThread}
    /\ \A r \in Registers : regs[r] \in Seq(Word) /\ Len(regs[r]) = Takes[r]
    /\ submit_count \in Nat /\ frames_submitted \in Nat
    /\ pc \in [Threads -> {"guest", "submit", "packets", "wait", "acquire", "queue",
                       "present", "done"}]
    /\ \A t \in Threads : todo[t] \in Seq(Seq(Word))
    /\ offset \in [Threads -> Nat]
    /\ calls \in [Threads -> 0 .. MaxCalls]
    /\ stopped \in BOOLEAN
    /\ RendererType

\* The state has its type, and the loop of process_command_buffer takes a word for
\* a header only where a packet begins, and stops at the end of the buffer exactly:
\* no word of a body is executed and no slice reaches past the end.
Framed ==
    /\ TypeOK
    /\ \A t \in Threads : pc[t] = "packets" =>
          offset[t] \in PacketStarts(Head(todo[t])) \cup {Len(Head(todo[t]))}

\* When a buffer has been processed each register has the value of the last
\* complete packet of the buffer that sets it, or the one it had when the buffer
\* began: a buffer runs as a whole, whatever other threads submit meanwhile.
BufferTakesEffect ==
    \A t \in Threads : (pc[t] = "packets" /\ offset[t] = Len(Head(todo[t]))) =>
        \A r \in Registers : regs[r] = FinalValue(Head(todo[t]), r, start[t][r])

\* A call of sceGnmSubmitCommandBuffers returns, or the process has aborted.
SubmissionsReturn ==
    \A t \in Threads : pc[t] \in {"submit", "packets"} ~> (pc[t] = "guest" \/ stopped)

\* So does a call of sceGnmSubmitDone, with the GPU's mutex: when all images are
\* waiting to be shown, and for every frame that is dropped once the window has
\* been resized.
PresentsReturn ==
    \A t \in Threads : pc[t] \in {"wait", "acquire", "queue", "present", "done"}
                           ~> (pc[t] = "guest" \/ stopped)

\* acquire_next_image is called only when nothing is left to signal or wait for
\* image_available_semaphore, whoever presented the frames before and whether or
\* not they were dropped.
AcquireSemaphoreFree ==
    \A t \in Threads : pc[t] = "acquire" => ~image_available /\ submitted = 0

-----------------------------------------------------------------------------
(* What the code does not keep: README.md, "Divergences", says how.        *)

\* render_finished_semaphore is signaled again only when the display has waited for
\* the signal before: the fence does not say so.
RenderFinishedFree == rendered <= 1

=============================================================================
