-------------------------- MODULE MCAgentRegistry --------------------------
(***************************************************************************)
(* Instances of AgentRegistry for TLC: the streams all belong to one agent,*)
(* so that a reconnect overlaps the stream it replaces.                    *)
(***************************************************************************)
EXTENDS AgentRegistry, TLC

CONSTANT a1

OfOneAgent == [s \in Streams |-> a1]

Symmetry == Permutations(Streams) \cup Permutations(Callers)
=============================================================================
