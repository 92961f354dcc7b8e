--------------------------- MODULE MCSnapshotTracker ---------------------------
(***************************************************************************)
(* Instances of SnapshotTracker for TLC.                                   *)
(***************************************************************************)
EXTENDS SnapshotTracker

CONSTANTS c1, c2, c3, p1, p2, k1, k2

\* c1 and c2 share a process and its limiter.
TwoAndOne == [c \in Caller |-> IF c = c3 THEN p2 ELSE p1]

=============================================================================
