----------------------------- MODULE AgentLease -----------------------------
(***************************************************************************)
(* What the agent stream registry promises its users, with the goroutines, *)
(* queues and generations of the implementation left out: an agent         *)
(* identity is held by at most one stream, and it passes to another stream *)
(* only after it has become free.  This is the registry's duplicate stream *)
(* policy, "reject new", as a specification.                               *)
(***************************************************************************)
CONSTANTS Agents, Streams, NoStream

VARIABLE holder   \* holder[a]: the stream that holds agent identity a

LeaseInit == holder = [a \in Agents |-> NoStream]

\* A stream that holds nothing is accepted for an identity nobody holds.
Grant(a, s) ==
  /\ holder[a] = NoStream
  /\ \A b \in Agents : holder[b] # s
  /\ holder' = [holder EXCEPT ![a] = s]

\* Identities become free: one by the end of its stream or by a revocation,
\* several at once by an expiry sweep or a restart.
Free(freed) ==
  holder' = [a \in Agents |-> IF a \in freed THEN NoStream ELSE holder[a]]

LeaseNext ==
  \/ \E a \in Agents, s \in Streams : Grant(a, s)
  \/ \E freed \in SUBSET Agents : Free(freed)

LeaseSpec == LeaseInit /\ [][LeaseNext]_holder
=============================================================================
