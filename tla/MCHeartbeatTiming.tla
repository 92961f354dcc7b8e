------------------------- MODULE MCHeartbeatTiming -------------------------
(***************************************************************************)
(* An instance of HeartbeatTiming for TLC: both heartbeats at and above    *)
(* the smallest stale_timeout, where the interval is clamped.              *)
(***************************************************************************)
EXTENDS HeartbeatTiming

SomeTimeouts == 10 .. 13 \cup {16, 20}
SmallLags    == 0 .. 3
SmallBudgets == 0 .. 3

=============================================================================
