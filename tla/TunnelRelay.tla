----------------------------- MODULE TunnelRelay -----------------------------
(***************************************************************************)
(* The rendezvous of SSH byte streams (tunnel/relay.go): BridgeSsh of a    *)
(* client registers, has the agent told and serves; OpenTunnel of the      *)
(* agent attaches to the registration and splices the two streams.         *)
(*                                                                         *)
(* One session: the entries of Relay.pending for different session ids     *)
(* have nothing to do with each other.  A registration is named by the     *)
(* call that made it, whose token is unique; so is the tunnel the agent    *)
(* opens for it.                                                           *)
(***************************************************************************)
EXTENDS Naturals, FiniteSets

CONSTANTS
  Bridges,  \* BridgeSsh calls for the session
  None

ASSUME RelayAssumption == None \notin Bridges

VARIABLES
  pending,     \* Relay.pending of the session: a registration, or None
  clientCh,    \* the client in the channel of each registration, or None
  done,        \* registrations whose done channel is closed
  bridge,      \* where each BridgeSsh call is
  at,          \* the registration a call has found in Serve, or None
  clientGone,  \* calls whose stream's context has ended
  tunnel,      \* where the OpenTunnel call for each registration is
  client,      \* the call whose stream the tunnel took from the channel, or None
  agentGone,   \* tunnels whose stream's context has ended
  held         \* pumps that flow control holds in Send, by tunnel and the end they send to

rendezvous == <<pending, clientCh, done>>
clients    == <<bridge, at, clientGone>>
splices    == <<client, agentGone, held>>
agents     == <<tunnel, splices>>
relayVars == <<rendezvous, clients, agents>>

-----------------------------------------------------------------------------
\* The client's end of a splice gives an error once its call is over.
ClientOver(b) == b \in clientGone \/ bridge[b] = "returned"
AgentOver(r) == r \in agentGone

\* The two pumps of a splice.
ToAgent(r) == [of |-> r, to |-> "agent"]
ToClient(r) == [of |-> r, to |-> "client"]
PumpsOf(r) == {ToAgent(r), ToClient(r)}
\* Those that send to a stream that has not ended.
ToLive(r) == {p \in PumpsOf(r) : ~IF p.to = "agent" THEN AgentOver(r) ELSE ClientOver(client[r])}

RelayInit ==
  /\ pending = None
  /\ clientCh = [r \in Bridges |-> None]
  /\ done = {}
  /\ bridge = [b \in Bridges |-> "idle"]
  /\ at = [b \in Bridges |-> None]
  /\ clientGone = {}
  /\ tunnel = [r \in Bridges |-> "none"]
  /\ client = [r \in Bridges |-> None]
  /\ agentGone = {} /\ held = {}

-----------------------------------------------------------------------------
(* BridgeSsh.                                                              *)

\* The session is ready and its owner calls; the entry is free.
Register(b) ==
  /\ bridge[b] = "idle" /\ pending = None
  /\ pending' = b
  /\ bridge' = [bridge EXCEPT ![b] = "registered"]
  /\ UNCHANGED <<clientCh, done, at, clientGone, agents>>

\* "tunnel already registered".
RegisterRefused(b) ==
  /\ bridge[b] = "idle" /\ pending # None
  /\ bridge' = [bridge EXCEPT ![b] = "returned"]
  /\ UNCHANGED <<rendezvous, at, clientGone, agents>>

\* OpenSshTunnel is queued for the agent with the token.
DispatchOpen(b) ==
  /\ bridge[b] = "registered"
  /\ bridge' = [bridge EXCEPT ![b] = "dispatched"]
  /\ tunnel' = [tunnel EXCEPT ![b] = "asked"]
  /\ UNCHANGED <<rendezvous, at, clientGone, splices>>

\* Variant: without Cancel.
DispatchFailsUncancelled(b) ==
  /\ bridge[b] = "registered"
  /\ bridge' = [bridge EXCEPT ![b] = "returned"]
  /\ UNCHANGED <<rendezvous, at, clientGone, agents>>

\* Offline, full queue or ended context: Cancel removes whatever the entry holds.
DispatchFails(b) ==
  /\ bridge[b] = "registered"
  /\ pending' = None
  /\ bridge' = [bridge EXCEPT ![b] = "returned"]
  /\ UNCHANGED <<clientCh, done, at, clientGone, agents>>

\* Serve looks the entry up again: it may be gone ("unknown tunnel session"), or
\* another call's by now.
ServeGets(b) ==
  /\ bridge[b] = "dispatched"
  /\ at' = [at EXCEPT ![b] = pending]
  /\ bridge' = [bridge EXCEPT ![b] = IF pending = None THEN "returned" ELSE "found"]
  /\ UNCHANGED <<rendezvous, clientGone, agents>>

\* The channel has room for one ("tunnel client already attached").
ServePuts(b) ==
  /\ bridge[b] = "found"
  /\ IF clientCh[at[b]] = None
       THEN /\ clientCh' = [clientCh EXCEPT ![at[b]] = b]
            /\ bridge' = [bridge EXCEPT ![b] = "serving"]
       ELSE /\ UNCHANGED clientCh
            /\ bridge' = [bridge EXCEPT ![b] = "returned"]
  /\ UNCHANGED <<pending, done, at, clientGone, agents>>

ServeDone(b) ==
  /\ bridge[b] = "serving" /\ at[b] \in done
  /\ bridge' = [bridge EXCEPT ![b] = "returned"]
  /\ UNCHANGED <<rendezvous, at, clientGone, agents>>

\* Variant: the context is only looked at when the splice is over.
ServeCancelledLate(b) ==
  /\ bridge[b] = "serving" /\ b \in clientGone /\ at[b] \in done
  /\ bridge' = [bridge EXCEPT ![b] = "returned"]
  /\ UNCHANGED <<rendezvous, at, clientGone, agents>>

\* The entry is removed by its session id; the client may still be in the channel.
ServeCancelled(b) ==
  /\ bridge[b] = "serving" /\ b \in clientGone
  /\ pending' = None
  /\ bridge' = [bridge EXCEPT ![b] = "returned"]
  /\ UNCHANGED <<clientCh, done, at, clientGone, agents>>

\* The client disconnects; the call notices where it waits.
ClientGoes(b) ==
  /\ bridge[b] \notin {"idle", "returned"}
  /\ clientGone' = clientGone \cup {b}
  /\ UNCHANGED <<rendezvous, bridge, at, agents>>

-----------------------------------------------------------------------------
(* The agent's tunnel and OpenTunnel.                                      *)

\* The agent has reached its sshd, and sends the first frame.
AgentOpens(r) ==
  /\ tunnel[r] = "asked"
  /\ tunnel' = [tunnel EXCEPT ![r] = "opened"]
  /\ UNCHANGED <<rendezvous, clients, splices>>

\* Attach: the entry must be there, with the same token.
AttachGets(r) ==
  /\ tunnel[r] = "opened"
  /\ tunnel' = [tunnel EXCEPT ![r] = IF pending = r THEN "waiting" ELSE "refused"]
  /\ UNCHANGED <<rendezvous, clients, splices>>

AttachTakes(r) ==
  /\ tunnel[r] = "waiting" /\ clientCh[r] # None
  /\ client' = [client EXCEPT ![r] = clientCh[r]]
  /\ clientCh' = [clientCh EXCEPT ![r] = None]
  /\ tunnel' = [tunnel EXCEPT ![r] = "spliced"]
  /\ UNCHANGED <<pending, done, clients, agentGone, held>>

AttachCancelled(r) ==
  /\ tunnel[r] = "waiting" /\ r \in agentGone
  /\ pending' = None
  /\ tunnel' = [tunnel EXCEPT ![r] = "returned"]
  /\ UNCHANGED <<clientCh, done, clients, splices>>

\* The peer of the end that a pump sends to does not read, and the window is full ...
SendBlocks(r) ==
  /\ tunnel[r] = "spliced"
  /\ \E p \in ToLive(r) : held' = held \cup {p}
  /\ UNCHANGED <<rendezvous, clients, tunnel, client, agentGone>>

\* ... until it reads.
PeerReads(r) ==
  /\ tunnel[r] = "spliced"
  /\ \E p \in ToLive(r) \cap held : held' = held \ {p}
  /\ UNCHANGED <<rendezvous, clients, tunnel, client, agentGone>>

\* Variant: done stays open.
EndSpliceOnly(r) ==
  /\ tunnel[r] = "spliced"
  /\ held' = held \ PumpsOf(r)
  /\ tunnel' = [tunnel EXCEPT ![r] = "closed"]
  /\ UNCHANGED <<rendezvous, clients, client, agentGone>>

\* One of the two pumps returns; the deferred call closes done ...
EndSplice(r) ==
  /\ tunnel[r] = "spliced"
  /\ done' = done \cup {r}
  /\ held' = held \ PumpsOf(r)
  /\ tunnel' = [tunnel EXCEPT ![r] = "closed"]
  /\ UNCHANGED <<pending, clientCh, clients, client, agentGone>>

\* ... as a side has sent its close, or a frame for a stream that has ended,
SpliceCloses(r) ==
  /\ ~(PumpsOf(r) \subseteq held)
  /\ EndSplice(r)

\* ... or as Recv or Send gives the error of a stream that has ended: not while the pump that
\* reads from it is held in Send to the other, and the one that sends to it waits in Recv,
SpliceBreaks(r) ==
  /\ tunnel[r] = "spliced"
  /\ \/ AgentOver(r) /\ (ToAgent(r) \in held \/ ToClient(r) \notin held)
     \/ ClientOver(client[r]) /\ (ToClient(r) \in held \/ ToAgent(r) \notin held)
  /\ EndSplice(r)

\* ... and removes the entry.
AttachRemoves(r) ==
  /\ tunnel[r] = "closed"
  /\ pending' = None
  /\ tunnel' = [tunnel EXCEPT ![r] = "returned"]
  /\ UNCHANGED <<clientCh, done, clients, splices>>

\* The agent's connection breaks.
AgentGoes(r) ==
  /\ tunnel[r] \in {"opened", "waiting", "spliced"}
  /\ agentGone' = agentGone \cup {r}
  /\ UNCHANGED <<rendezvous, clients, tunnel, client, held>>

-----------------------------------------------------------------------------
BridgeStep(b) ==
  \/ DispatchOpen(b) \/ DispatchFails(b)
  \/ ServeGets(b) \/ ServePuts(b) \/ ServeDone(b) \/ ServeCancelled(b)
TunnelStep(r) ==
  \/ AttachGets(r) \/ AttachTakes(r) \/ AttachCancelled(r)
  \/ SpliceBreaks(r) \/ AttachRemoves(r)

RelayNext ==
  \E b \in Bridges :
    \/ Register(b) \/ RegisterRefused(b) \/ BridgeStep(b) \/ ClientGoes(b)
    \/ AgentOpens(b) \/ TunnelStep(b) \/ SpliceCloses(b) \/ AgentGoes(b)
    \/ SendBlocks(b) \/ PeerReads(b)

\* Goroutines of the validator run; nobody has to connect, answer, read or close.  What a stream
\* that has ended still has to give is finite: a pump that is held again and again, and not for
\* ever, comes to its end.
RelayFairness ==
  \A b \in Bridges : /\ WF_relayVars(BridgeStep(b))
                     /\ WF_relayVars(TunnelStep(b))
                     /\ SF_relayVars(SpliceBreaks(b))

RelaySpec == RelayInit /\ [][RelayNext]_relayVars
RelayFairSpec == RelaySpec /\ RelayFairness
-----------------------------------------------------------------------------
(* Properties.                                                             *)

\* A session is never locked out: an entry that makes Register fail belongs to a call
\* or a splice that is still going on and will remove it.
NoStuckEntry ==
  pending # None =>
    \/ \E b \in Bridges : bridge[b] \in {"registered", "dispatched", "found", "serving"}
    \/ \E r \in Bridges : tunnel[r] \in {"spliced", "closed"}

\* One stream of the splice has ended and the pump that reads it is held by the other, whose peer
\* is there and does not read.
Unnoticed(r) ==
  /\ tunnel[r] = "spliced"
  /\ \/ ClientOver(client[r]) /\ ToAgent(r) \in held /\ ~AgentOver(r)
     \/ AgentOver(r) /\ ToClient(r) \in held /\ ~ClientOver(client[r])

\* Both calls return once the stream they serve has ended, wherever they wait: BridgeSsh always,
\* OpenTunnel unless the client is there and never reads again.
CallsReturn ==
  \A b \in Bridges :
    /\ b \in clientGone ~> bridge[b] = "returned"
    /\ []<>~Unnoticed(b) => (b \in agentGone ~> tunnel[b] \in {"returned", "refused"})

\* The two ends of a splice end together: neither call outlives the other's stream, unless a
\* pump is held for ever by a peer that is there and does not read.
EndsTogether ==
  \A r, b \in Bridges :
    []<>~Unnoticed(r) =>
      (client[r] = b /\ (tunnel[r] = "returned" \/ bridge[b] = "returned")
         ~> tunnel[r] = "returned" /\ bridge[b] = "returned")

\* "registers a rendezvous, signals the agent to open its tunnel, then splices the
\* streams" (BridgeSsh): the tunnel is not refused while the call waits for it.
AgentIsAwaited ==
  \A r \in Bridges : tunnel[r] = "refused" => bridge[r] = "returned" \/ r \in clientGone
=============================================================================
