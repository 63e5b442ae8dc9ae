---------------------------- MODULE MCTunnelRelay ----------------------------
(***************************************************************************)
(* Instances of TunnelRelay for TLC.                                       *)
(***************************************************************************)
EXTENDS TunnelRelay, TLC

Symmetry == Permutations(Bridges)
=============================================================================
