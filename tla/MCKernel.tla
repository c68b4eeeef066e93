------------------------------- MODULE MCKernel -------------------------------
(***************************************************************************)
(* The kernel objects main constructs: an event queue, the filesystem and  *)
(* the thread manager.  They share nothing, so a behaviour follows one.    *)
(***************************************************************************)
EXTENDS EventQueue, FileSystem, ThreadManager

VARIABLE side    \* "queue", "files" or "threads"

-----------------------------------------------------------------------------
(* A mount below another, a file that is there by either, one without the  *)
(* separator and one that is not there, and a device.                      *)

App == <<"/app0">>
Dlc == <<"/app0", "/", "dlc">>

MCMounts == {[prefix |-> App, host |-> <<"game">>], [prefix |-> Dlc, host |-> <<"extra">>]}
MCPaths == {Dlc \o <<"/", "x">>, App \o <<"x">>, App \o <<"/", "y">>, <<"/dev", "/", "x">>}
MCLength == [p \in {<<"game", "dlc", "/", "x">>, <<"extra", "x">>, <<"game", "x">>} |-> 3]

MCInit ==
    /\ side \in {"queue", "files", "threads"}
    /\ Init /\ FsInit /\ TmInit

MCNext ==
    /\ UNCHANGED side
    /\ \/ side = "queue" /\ Next /\ UNCHANGED <<fsVars, tmVars>>
       \/ side = "files" /\ FsNext /\ UNCHANGED <<vars, tmVars>>
       \/ side = "threads" /\ TmNext /\ UNCHANGED <<vars, fsVars>>

MCSpec == MCInit /\ [][MCNext]_<<side, vars, fsVars, tmVars>>

=============================================================================
