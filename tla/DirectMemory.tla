---------------------------- MODULE DirectMemory ----------------------------
(***************************************************************************)
(* What the direct-memory calls promise a guest, without saying how the    *)
(* pool is kept: a region that is handed out lies in the pool and touches  *)
(* no region somebody holds, and a free that succeeds gives back exactly   *)
(* the bytes it names: whole regions, and none in part.                    *)
(***************************************************************************)
EXTENDS Integers

CONSTANT TotalSize

VARIABLE live   \* the regions handed out and not yet freed

Apart(r, s) == r.addr + r.size <= s.addr \/ s.addr + s.size <= r.addr

Init == live = {}

Allocate(r) ==
    /\ r.addr + r.size <= TotalSize
    /\ \A s \in live : Apart(r, s)
    /\ live' = live \cup {r}

\* The regions of S make up the range r.
Tile(S, r) ==
    /\ \A s \in S : r.addr <= s.addr /\ s.addr + s.size <= r.addr + r.size
    /\ \A x \in r.addr .. r.addr + r.size - 1 :
          \E s \in S : s.addr <= x /\ x < s.addr + s.size

Release(r) ==
    \E S \in SUBSET live :
        /\ Tile(S, r)
        /\ live' = live \ S

Region == [addr : 0 .. TotalSize - 1, size : 1 .. TotalSize]

Next == \E r \in Region : Allocate(r) \/ Release(r)

Spec == Init /\ [][Next]_live

=============================================================================
