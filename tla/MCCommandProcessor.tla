------------------------- MODULE MCCommandProcessor -------------------------
(***************************************************************************)
(* Command buffers for the GPU front end, and two threads that submit them.*)
(***************************************************************************)
EXTENDS CommandProcessor

CONSTANTS Writer, Other

Packet3(op, count) == [type |-> 3, count |-> count, op |-> op]
Nop == [type |-> 2, count |-> 1, op |-> 0]

-----------------------------------------------------------------------------
(* Writer submits any buffer of up to MaxWords words, so bodies that are   *)
(* cut short, bodies that look like packets, opcodes the parser does not   *)
(* know (0) and every kind of header but Type 0; or the write of two       *)
(* registers, the second past the last there is.                           *)

MaxWords == 3
Words == {Nop, Packet3(NumInstances, 0), Packet3(IndexBase, 1), Packet3(IndexType, 1),
          Packet3(IndexBufferSize, 0), Packet3(0, 1), TopWord}
Buffers == UNION {[1 .. n -> Words] : n \in 0 .. MaxWords}

OneBuffer == {<<dcb>> : dcb \in Buffers \cup {<<Packet3(105, 2), TopWord, Nop, Nop>>}}

-----------------------------------------------------------------------------
(* Other submits lists of buffers that set the same registers.             *)

SetsInstances(w) == <<Packet3(NumInstances, 0), w>>
SetsBoth == <<Packet3(IndexBase, 1), TopWord, Nop, Nop, Packet3(NumInstances, 0), TopWord>>

SharedLists == {<<SetsInstances(Nop), WaitFlipDone \o SetsInstances(TopWord)>>,
                <<SetsBoth, <<>>, SetsInstances(ZeroWord)>>,
                <<SetsBoth, SetsBoth, SetsBoth, SetsBoth>>}

-----------------------------------------------------------------------------
(* Either all the buffers and no renderer, or frames and few buffers.      *)

VARIABLE side

Few == {<<<<Nop>>>>, <<SetsBoth, <<>>, SetsInstances(ZeroWord)>>}

MCInit == Init /\ side = IF renderer THEN "frames" ELSE "buffers"

MCNext ==
    /\ Next
    /\ side' = side
    /\ side = "buffers" => frames_submitted' <= 2
    /\ side = "frames" =>
          \A t \in Threads : pc[t] = "guest" /\ pc'[t] = "submit" => todo'[t] \in Few

MCSpec == MCInit /\ [][MCNext]_<<side, vars>> /\ Fairness

MCThreads == {Writer, Other}
MCSubmissions == [t \in MCThreads |-> IF t = Writer THEN OneBuffer ELSE SharedLists]

=============================================================================
