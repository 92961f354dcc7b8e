------------------------- MODULE MCSandboxLifecycle -------------------------
(***************************************************************************)
(* Instances of SandboxLifecycle for TLC: at most two processes, two       *)
(* workers and two janitors.                                               *)
(***************************************************************************)
EXTENDS SandboxLifecycle, TLC

CONSTANTS s1, s2, s3, w1, w2, j1, j2, p1, p2

\* w1 and j1 share a process; j2, and w2 where it exists, are in another one.
TwoProcesses == [t \in Thread |-> IF t \in {w1, j1} THEN p1 ELSE p2]

\* Both workers share a process; the janitor j2 is in another one.
SharedLimiter == [t \in Thread |-> IF t \in {w1, w2, j1} THEN p1 ELSE p2]

OwnSids == Permutations(Sid \ Foreign)

=============================================================================
