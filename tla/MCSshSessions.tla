---------------------------- MODULE MCSshSessions ----------------------------
(***************************************************************************)
(* Instances of SshSessions for TLC: two sessions that compete for the     *)
(* same first port, over two successive streams of the agent.              *)
(***************************************************************************)
EXTENDS SshSessions, TLC

TwoPorts == 1..2
=============================================================================
