----------------------------- MODULE MCLiveness -----------------------------
(***************************************************************************)
(* Instances for TLC of what must come to an end: the handler of a stream  *)
(* and the calls that wait on its queue (AgentRegistry), a job on a stream *)
(* that holds (JobLifecycle), a bridge and its tunnel (TunnelRelay).  They *)
(* share no step, so a behaviour is one of a part that is chosen at its    *)
(* start: the states are the sum of theirs, not the product.               *)
(***************************************************************************)
EXTENDS MCJobLifecycle, TunnelRelay

CONSTANTS a1, Agents, Callers, Depth, NoStream

AgentOf == [s \in Streams |-> a1]

VARIABLES
  process, revoked, revoking, row, entries, generation, pc, gen, queue, closed, gone, sender,
  receiver, evicted, call, session, sent

Registry == INSTANCE AgentRegistry

VARIABLE part

registryVars ==
  <<process, revoked, revoking, row, entries, generation, pc, gen, queue, closed, gone, sender,
    receiver, evicted, call, session, sent>>
livenessVars == <<part, vars, relayVars, registryVars>>

LivenessInit ==
  /\ part \in {"registry", "jobs", "relay"}
  /\ Registry!Init /\ Init /\ RelayInit
  \* One initial state of the jobs where they do not move.
  /\ part = "jobs" \/ (\A j \in Jobs : KeyOf[j] = k1)

LivenessNext ==
  /\ UNCHANGED part
  /\ \/ part = "registry" /\ Registry!Next /\ UNCHANGED <<vars, relayVars>>
     \/ part = "jobs" /\ Next /\ UNCHANGED <<relayVars, registryVars>>
     \/ part = "relay" /\ RelayNext /\ UNCHANGED <<vars, registryVars>>

\* Where a part does not move nothing of it is under way that fairness could ask for.
LivenessSpec ==
  /\ LivenessInit /\ [][LivenessNext]_livenessVars
  /\ Registry!Fairness /\ Fairness /\ RelayFairness

\* A Dispatch that waits on a full queue comes to an end (AgentRegistry).
DispatchReturns == Registry!DispatchReturns

\* A stream whose peer went away gives its agent's identity back (AgentRegistry).
DeadPeerReleases == Registry!DeadPeerReleases
=============================================================================
