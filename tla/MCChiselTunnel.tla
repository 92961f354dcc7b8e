---------------------------- MODULE MCChiselTunnel ----------------------------
(***************************************************************************)
(* Instances of ChiselTunnel for TLC.                                      *)
(***************************************************************************)
EXTENDS ChiselTunnel

CONSTANTS c1, c2

=============================================================================
