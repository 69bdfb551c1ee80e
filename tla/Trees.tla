-------------------------------- MODULE Trees -------------------------------
(***************************************************************************)
(* Rows that name a parent among themselves, and the walk that looks for a *)
(* loop before one is given another.                                       *)
(***************************************************************************)
EXTENDS Integers

CONSTANTS
  NoParent,   \* the parent of a root
  MaxHops     \* how far up the walk goes before it gives up

ASSUME MaxHopsAssumption == MaxHops \in Nat

\* What the walk from a row has met after so many hops.
Met(parent, row, hops) ==
  LET met[n \in 0..hops] ==
        IF n = 0 THEN {row}
        ELSE LET before == met[n - 1]
             IN  before \cup ({parent[r] : r \in before} \ {NoParent})
  IN  met[hops]

\* assert_no_cycle refuses to hang a row under one that hangs under it.
WouldLoop(parent, row, under) == row \in Met(parent, under, MaxHops)

\* No row hangs under itself.
IsForest(parent, rows) ==
  \A r \in rows : parent[r] # NoParent => r \notin Met(parent, parent[r], MaxHops)
=============================================================================
