------------------------------- MODULE MCCFiles -------------------------------
(***************************************************************************)
(* The files of the streams: one of three bytes and an empty one below     *)
(* /app0/, which main mounts, a name without a file and a path elsewhere.  *)
(***************************************************************************)
EXTENDS CFiles

MCLength == [file \in {"data", "empty"} |-> IF file = "data" THEN 3 ELSE 0]

MCOffsets == {-2, 3}

MCPaths ==
    [prefix : {"/app0/"}, file : {"data", "empty", "missing"}]
        \cup {[prefix |-> "/hostapp/", file |-> "data"]}

=============================================================================
