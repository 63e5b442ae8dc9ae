--------------------------- MODULE AgentRegistry ---------------------------
(***************************************************************************)
(* The validator's registry of agent streams: internal/registry/registry.go*)
(* together with everything that drives it, the AgentService.Connect       *)
(* handler (service.go), the connections table (persistence.go), the       *)
(* dispatch of messages by the fleet API and the revocation of an agent    *)
(* (server/enrollment_admin.go), and a crash and restart of the process.   *)
(*                                                                         *)
(* A member of Streams is one Connect RPC, from the TLS handshake to the   *)
(* return of its deferred calls; a member of Callers is one API call that  *)
(* dispatches one message.  Both are used once.  Steps are the stretches   *)
(* between two points where other goroutines can run: a mutex section, a   *)
(* channel operation, a database statement.                                *)
(***************************************************************************)
EXTENDS Naturals, Sequences, FiniteSets

CONSTANTS
  Agents,    \* agent identities (the common name of the client certificate)
  Streams,   \* Connect RPCs
  Callers,   \* API calls that dispatch a message to an agent
  AgentOf,   \* the identity in the peer certificate of each stream
  Depth,     \* ProtocolLimits.MaxQueueDepth
  NoStream   \* a nil *Session

ASSUME RegistryAssumption ==
  /\ AgentOf \in [Streams -> Agents]
  /\ Depth \in Nat \ {0}
  /\ NoStream \notin Streams

VARIABLES
  process,     \* "up", or what the validator process died of
  revoked,     \* agents.revoked_unix_ms is set
  revoking,    \* agents whose RevokeAgent is between its UPDATE and Disconnect
  row,         \* the connections table: stream_id and state of each agent
  entries,     \* Registry.entries; generation 0 stands for a missing entry
  generation,  \* Registry.generation
  pc,          \* where the handler of each stream is
  gen,         \* Session.generation
  queue,       \* Session.queue
  closed,      \* Session.queue has been closed
  gone,        \* the peer went away: the stream's context is cancelled
  sender,      \* the goroutine that ranges over Session.Messages runs
  receiver,    \* the goroutine that calls Recv runs
  evicted,     \* history: streams Disconnect or Expire took the identity from
  call,        \* where each dispatching call is, or what it returned
  session,     \* the session Dispatch read from the registry
  sent         \* history: the messages Send accepted, per stream

tables     == <<revoked, revoking, row>>
registry   == <<entries, generation>>
handlers   == <<pc, gen, gone, sender, receiver>>
channels   == <<queue, closed>>
calls      == <<call, session>>
history    == <<evicted, sent>>
vars == <<process, tables, registry, handlers, channels, calls, history>>

-----------------------------------------------------------------------------
PC == {"new", "authorized", "acquired", "persisted", "serving", "closing",
       "releasing", "closequeue", "done"}
Deaths == {"killed", "close of closed channel", "send on closed channel"}
Outcomes == {"ok", "offline", "cancelled", "lost"}
Entry == [gen : Nat, online : BOOLEAN, stale : BOOLEAN,
          session : Streams \cup {NoStream}]
Row == [stream : Streams \cup {NoStream}, state : {"none", "online", "offline"}]

NoEntry == [gen |-> 0, online |-> FALSE, stale |-> FALSE, session |-> NoStream]

\* The stream has a session it has not yet released.
Holding(s) == pc[s] \in {"acquired", "persisted", "serving", "closing", "releasing"}

\* The entry of the stream's agent is still the one the stream created.
OwnEntry(s) == entries[AgentOf[s]].gen = gen[s]

Live == process = "up"

\* The process dies: the registry, the open RPCs and their goroutines are gone
\* with it, and a call that was waiting in Dispatch fails.
Die(cause) ==
  /\ process' = cause
  /\ revoking' = {}
  /\ entries' = [a \in Agents |-> NoEntry]
  /\ generation' = 0
  /\ pc' = [s \in Streams |-> IF pc[s] = "new" THEN "new" ELSE "done"]
  /\ gen' = [s \in Streams |-> 0]
  /\ queue' = [s \in Streams |-> <<>>]
  /\ closed' = [s \in Streams |-> FALSE]
  /\ gone' = [s \in Streams |-> FALSE]
  /\ sender' = [s \in Streams |-> FALSE]
  /\ receiver' = [s \in Streams |-> FALSE]
  /\ evicted' = {}
  /\ call' = [c \in Callers |-> IF call[c] = "enqueuing" THEN "lost" ELSE call[c]]
  /\ session' = [c \in Callers |-> NoStream]
  /\ UNCHANGED <<revoked, row, sent>>

Init ==
  /\ process = "up"
  /\ revoked = {} /\ revoking = {}
  /\ row = [a \in Agents |-> [stream |-> NoStream, state |-> "none"]]
  /\ entries = [a \in Agents |-> NoEntry]
  /\ generation = 0
  /\ pc = [s \in Streams |-> "new"]
  /\ gen = [s \in Streams |-> 0]
  /\ queue = [s \in Streams |-> <<>>]
  /\ closed = [s \in Streams |-> FALSE]
  /\ gone = [s \in Streams |-> FALSE]
  /\ sender = [s \in Streams |-> FALSE]
  /\ receiver = [s \in Streams |-> FALSE]
  /\ evicted = {}
  /\ call = [c \in Callers |-> "idle"]
  /\ session = [c \in Callers |-> NoStream]
  /\ sent = [s \in Streams |-> {}]

-----------------------------------------------------------------------------
(* The Connect handler, from the first check to the accepted session.      *)

Goto(s, there) == pc' = [pc EXCEPT ![s] = there]

\* Authorize reads the agents row of the certificate's identity.
Authorize(s) ==
  /\ Live /\ pc[s] = "new"
  /\ Goto(s, IF AgentOf[s] \in revoked THEN "done" ELSE "authorized")
  /\ UNCHANGED <<process, tables, registry, gen, gone, sender, receiver, channels,
                 calls, history>>

\* The first message is no hello, the hello names another agent, its protocol
\* versions exclude ours or it has too many capabilities.
RejectHello(s) ==
  /\ Live /\ pc[s] = "authorized"
  /\ Goto(s, "done")
  /\ UNCHANGED <<process, tables, registry, gen, gone, sender, receiver, channels,
                 calls, history>>

\* ErrDuplicateStream: the identity is online.
RejectDuplicate(s) ==
  /\ Live /\ pc[s] = "authorized" /\ entries[AgentOf[s]].online
  /\ Goto(s, "done")
  /\ UNCHANGED <<process, tables, registry, gen, gone, sender, receiver, channels,
                 calls, history>>

\* Variant: the newest stream wins, an online entry is replaced.
AcquireReplacing(s) ==
  /\ Live /\ pc[s] = "authorized"
  /\ generation' = generation + 1
  /\ entries' = [entries EXCEPT ![AgentOf[s]] =
       [gen |-> generation + 1, online |-> TRUE, stale |-> FALSE, session |-> s]]
  /\ gen' = [gen EXCEPT ![s] = generation + 1]
  /\ Goto(s, "acquired")
  /\ UNCHANGED <<process, tables, gone, sender, receiver, channels, calls, evicted, sent>>

\* A new generation, a new entry in place of the old one, a new queue.
Acquire(s) ==
  /\ Live /\ pc[s] = "authorized" /\ ~entries[AgentOf[s]].online
  /\ generation' = generation + 1
  /\ entries' = [entries EXCEPT ![AgentOf[s]] =
       [gen |-> generation + 1, online |-> TRUE, stale |-> FALSE, session |-> s]]
  /\ gen' = [gen EXCEPT ![s] = generation + 1]
  /\ Goto(s, "acquired")
  /\ UNCHANGED <<process, tables, gone, sender, receiver, channels, calls, evicted, sent>>

\* Persistence.Online replaces whatever row the agent has.
PersistOnline(s) ==
  /\ Live /\ pc[s] = "acquired" /\ ~gone[s]
  /\ row' = [row EXCEPT ![AgentOf[s]] = [stream |-> s, state |-> "online"]]
  /\ Goto(s, "persisted")
  /\ UNCHANGED <<process, revoked, revoking, registry, gen, gone, sender, receiver,
                 channels, calls, history>>

\* Variant: Release is deferred only after Online succeeded.
PersistOnlineFailsUnreleased(s) ==
  /\ Live /\ pc[s] = "acquired"
  /\ Goto(s, "done")
  /\ UNCHANGED <<process, tables, registry, gen, gone, sender, receiver, channels,
                 calls, history>>

\* The transaction fails (always so when the context is cancelled): of the
\* deferred calls only Release is registered.
PersistOnlineFails(s) ==
  /\ Live /\ pc[s] = "acquired"
  /\ Goto(s, "releasing")
  /\ UNCHANGED <<process, tables, registry, gen, gone, sender, receiver, channels,
                 calls, history>>

\* ConnectionState is sent and both goroutines start, or Send fails.
SendAccepted(s) ==
  /\ Live /\ pc[s] = "persisted"
  /\ \/ /\ ~gone[s]
        /\ Goto(s, "serving")
        /\ sender' = [sender EXCEPT ![s] = TRUE]
        /\ receiver' = [receiver EXCEPT ![s] = TRUE]
     \/ /\ gone[s]
        /\ Goto(s, "closing")
        /\ UNCHANGED <<sender, receiver>>
  /\ UNCHANGED <<process, tables, registry, gen, gone, channels, calls, history>>

-----------------------------------------------------------------------------
(* The two goroutines of a serving stream.  The first of them to put an    *)
(* error into errCh makes the handler return; the other one runs on.       *)

HandlerWakes(s) ==
  pc' = IF pc[s] = "serving" THEN [pc EXCEPT ![s] = "closing"] ELSE pc

\* Variant: a message leaves the queue only with the next one.
SendMessageKeeping(s) ==
  /\ Live /\ sender[s] /\ queue[s] # <<>>
  /\ pc[s] # "done" /\ ~gone[s]
  /\ sent' = [sent EXCEPT ![s] = @ \cup {Head(queue[s])}]
  /\ UNCHANGED <<process, tables, registry, handlers, channels, calls, evicted>>

\* stream.Send succeeds while the RPC has not returned and the peer is there.
SendMessage(s) ==
  /\ Live /\ sender[s] /\ queue[s] # <<>>
  /\ pc[s] # "done" /\ ~gone[s]
  /\ queue' = [queue EXCEPT ![s] = Tail(@)]
  /\ sent' = [sent EXCEPT ![s] = @ \cup {Head(queue[s])}]
  /\ UNCHANGED <<process, tables, registry, handlers, closed, calls, evicted>>

\* The message taken from the queue is dropped with the error.
SendMessageFails(s) ==
  /\ Live /\ sender[s] /\ queue[s] # <<>>
  /\ pc[s] = "done" \/ gone[s]
  /\ queue' = [queue EXCEPT ![s] = Tail(@)]
  /\ sender' = [sender EXCEPT ![s] = FALSE]
  /\ HandlerWakes(s)
  /\ UNCHANGED <<process, tables, registry, gen, gone, receiver, closed, calls, history>>

\* The range over a closed queue ends once the queue is drained.
SenderExits(s) ==
  /\ Live /\ sender[s] /\ closed[s] /\ queue[s] = <<>>
  /\ sender' = [sender EXCEPT ![s] = FALSE]
  /\ HandlerWakes(s)
  /\ UNCHANGED <<process, tables, registry, gen, gone, receiver, channels, calls, history>>

\* Session.Heartbeat: only an online entry of the same generation is touched.
\* The receiver of a stream that already ended may still be running.
Heartbeat(s) ==
  /\ Live /\ receiver[s]
  /\ entries' = [entries EXCEPT ![AgentOf[s]].stale =
       @ /\ ~(entries[AgentOf[s]].online /\ OwnEntry(s))]
  /\ UNCHANGED <<process, tables, generation, handlers, channels, calls, evicted, sent>>

\* Variant: the receiver leaves without a word in errCh.
ReceiverExitsSilently(s) ==
  /\ Live /\ receiver[s]
  /\ receiver' = [receiver EXCEPT ![s] = FALSE]
  /\ UNCHANGED <<process, tables, registry, pc, gen, gone, sender, channels, calls, history>>

\* Recv returns EOF or an error, or Handle returns one.
ReceiverExits(s) ==
  /\ Live /\ receiver[s]
  /\ receiver' = [receiver EXCEPT ![s] = FALSE]
  /\ HandlerWakes(s)
  /\ UNCHANGED <<process, tables, registry, gen, gone, sender, channels, calls, history>>

-----------------------------------------------------------------------------
(* The deferred calls of the handler, in the order Go runs them.           *)

\* Variant: the UPDATE names the agent only.
OfflineOfAgent(s) ==
  /\ Live /\ pc[s] = "closing"
  /\ row' = IF ~gone[s] THEN [row EXCEPT ![AgentOf[s]].state = "offline"] ELSE row
  /\ Goto(s, "releasing")
  /\ UNCHANGED <<process, revoked, revoking, registry, gen, gone, sender, receiver,
                 channels, calls, history>>

\* Persistence.Offline runs on the stream's own context.  Its UPDATE names the
\* stream, and a cancelled context (or a storage error) loses it silently.
Offline(s) ==
  /\ Live /\ pc[s] = "closing"
  /\ row' = IF ~gone[s] /\ row[AgentOf[s]].stream = s
            THEN [row EXCEPT ![AgentOf[s]].state = "offline"]
            ELSE row
  /\ Goto(s, "releasing")
  /\ UNCHANGED <<process, revoked, revoking, registry, gen, gone, sender, receiver,
                 channels, calls, history>>

\* Variant: release does not compare generations.
ReleaseOfAny(s) ==
  /\ Live /\ pc[s] = "releasing"
  /\ entries' = [entries EXCEPT ![AgentOf[s]].online = FALSE]
  /\ Goto(s, "closequeue")
  /\ UNCHANGED <<process, tables, generation, gen, gone, sender, receiver, channels,
                 calls, history>>

\* Session.Release, first half: the entry goes offline if it is still ours.
Release(s) ==
  /\ Live /\ pc[s] = "releasing"
  /\ entries' = IF OwnEntry(s) THEN [entries EXCEPT ![AgentOf[s]].online = FALSE]
                ELSE entries
  /\ Goto(s, "closequeue")
  /\ UNCHANGED <<process, tables, generation, gen, gone, sender, receiver, channels,
                 calls, history>>

\* Variant: the queue is left open for the garbage collector.
CloseQueueNever(s) ==
  /\ Live /\ pc[s] = "closequeue"
  /\ Goto(s, "done")
  /\ UNCHANGED <<process, tables, registry, gen, gone, sender, receiver, channels,
                 calls, history>>

\* Session.Release, second half: close(s.queue), a panic if it is closed already.
CloseQueue(s) ==
  /\ Live /\ pc[s] = "closequeue"
  /\ \/ /\ closed[s]
        /\ Die("close of closed channel")
     \/ /\ ~closed[s]
        /\ closed' = [closed EXCEPT ![s] = TRUE]
        /\ Goto(s, "done")
        /\ UNCHANGED <<process, tables, registry, gen, gone, sender, receiver, queue,
                       calls, history>>

-----------------------------------------------------------------------------
(* RevokeAgent: an UPDATE, then Registry.Disconnect.                       *)

RevokeAgent(a) ==
  /\ Live /\ a \notin revoked
  /\ revoked' = revoked \cup {a}
  /\ revoking' = revoking \cup {a}
  /\ UNCHANGED <<process, row, registry, handlers, channels, calls, history>>

\* Closes the queue of whatever session the entry still points to; only
\* Disconnect itself ever clears that pointer.
Disconnect(a) ==
  /\ Live /\ a \in revoking
  /\ \/ /\ entries[a].session = NoStream
        /\ revoking' = revoking \ {a}
        /\ UNCHANGED <<process, revoked, row, registry, handlers, channels, calls, history>>
     \/ /\ entries[a].session # NoStream /\ closed[entries[a].session]
        /\ Die("close of closed channel")
     \/ /\ entries[a].session # NoStream /\ ~closed[entries[a].session]
        /\ revoking' = revoking \ {a}
        /\ closed' = [closed EXCEPT ![entries[a].session] = TRUE]
        /\ entries' = [entries EXCEPT ![a] =
             [@ EXCEPT !.online = FALSE, !.session = NoStream]]
        /\ evicted' = evicted \cup {entries[a].session}
        /\ UNCHANGED <<process, revoked, row, generation, handlers, queue, calls, sent>>

-----------------------------------------------------------------------------
(* Time: the registry's timeout passes without a heartbeat of the agent,   *)
(* and the exported sweep Expire.                                          *)

Silence(a) ==
  /\ Live /\ entries[a].online /\ ~entries[a].stale
  /\ entries' = [entries EXCEPT ![a].stale = TRUE]
  /\ UNCHANGED <<process, tables, generation, handlers, channels, calls, evicted, sent>>

TimedOut == {a \in Agents : entries[a].online /\ entries[a].stale}

Expire ==
  /\ Live /\ TimedOut # {}
  /\ entries' = [a \in Agents |->
       IF a \in TimedOut THEN [entries[a] EXCEPT !.online = FALSE] ELSE entries[a]]
  /\ evicted' = evicted \cup {entries[a].session : a \in TimedOut}
  /\ UNCHANGED <<process, tables, generation, handlers, channels, calls, sent>>

-----------------------------------------------------------------------------
(* Registry.Dispatch by an API call: the session is read under the mutex   *)
(* and used after it is released.                                          *)

Return(c, outcome) == call' = [call EXCEPT ![c] = outcome]

Dispatch(c, a) ==
  /\ Live /\ call[c] = "idle"
  /\ \/ /\ ~entries[a].online \/ entries[a].session = NoStream
        /\ Return(c, "offline")
        /\ UNCHANGED session
     \/ /\ entries[a].online /\ entries[a].session # NoStream
        /\ Return(c, "enqueuing")
        /\ session' = [session EXCEPT ![c] = entries[a].session]
  /\ UNCHANGED <<process, tables, registry, handlers, channels, history>>

\* Variant: one message too many fits.
EnqueueOneMore(c) ==
  /\ Live /\ call[c] = "enqueuing"
  /\ ~closed[session[c]] /\ Len(queue[session[c]]) <= Depth
  /\ queue' = [queue EXCEPT ![session[c]] = Append(@, c)]
  /\ Return(c, "ok")
  /\ UNCHANGED <<process, tables, registry, handlers, closed, session, history>>

\* The send of Session.Enqueue's select: it waits while the queue is full.
Enqueue(c) ==
  /\ Live /\ call[c] = "enqueuing"
  /\ ~closed[session[c]] /\ Len(queue[session[c]]) < Depth
  /\ queue' = [queue EXCEPT ![session[c]] = Append(@, c)]
  /\ Return(c, "ok")
  /\ UNCHANGED <<process, tables, registry, handlers, closed, session, history>>

\* The queue was closed while the call waited or before it got there.
EnqueueClosed(c) ==
  /\ Live /\ call[c] = "enqueuing" /\ closed[session[c]]
  /\ Die("send on closed channel")

\* The caller's context ends first.
EnqueueCancelled(c) ==
  /\ Live /\ call[c] = "enqueuing"
  /\ Return(c, "cancelled")
  /\ UNCHANGED <<process, tables, registry, handlers, channels, session, history>>

-----------------------------------------------------------------------------
(* The environment: a peer disappears; the process dies and is restarted.  *)

PeerGone(s) ==
  /\ Live /\ pc[s] \in {"authorized", "acquired", "persisted", "serving", "closing"}
  /\ ~gone[s]
  /\ gone' = [gone EXCEPT ![s] = TRUE]
  /\ UNCHANGED <<process, tables, registry, pc, gen, sender, receiver, channels, calls,
                 history>>

Crash == Live /\ Die("killed")

\* RunValidator starts over: MarkAllOffline, then a new and empty Registry.
Restart ==
  /\ ~Live
  /\ process' = "up"
  /\ row' = [a \in Agents |-> IF row[a].state = "online"
                              THEN [row[a] EXCEPT !.state = "offline"] ELSE row[a]]
  /\ UNCHANGED <<revoked, revoking, registry, handlers, channels, calls, history>>

-----------------------------------------------------------------------------
\* What the Go scheduler and the database get done without outside help.
HandlerStep(s) ==
  \/ PersistOnline(s) \/ PersistOnlineFails(s) \/ SendAccepted(s)
  \/ Offline(s) \/ Release(s) \/ CloseQueue(s)
SenderStep(s) == SendMessage(s) \/ SendMessageFails(s) \/ SenderExits(s)
CallStep(c) == Enqueue(c) \/ EnqueueClosed(c)

StreamStep(s) ==
  \/ Authorize(s) \/ RejectHello(s) \/ RejectDuplicate(s) \/ Acquire(s)
  \/ HandlerStep(s) \/ SenderStep(s)
  \/ Heartbeat(s) \/ ReceiverExits(s) \/ PeerGone(s)

Next ==
  \/ \E s \in Streams : StreamStep(s)
  \/ \E a \in Agents : RevokeAgent(a) \/ Disconnect(a) \/ Silence(a)
  \/ \E c \in Callers, a \in Agents : Dispatch(c, a)
  \/ \E c \in Callers : CallStep(c) \/ EnqueueCancelled(c)
  \/ Expire \/ Crash \/ Restart

Spec == Init /\ [][Next]_vars

\* Goroutines that can run do run, a killed validator is started again by
\* systemd, and a peer whose connection is gone makes Recv fail.
Fairness ==
  /\ \A s \in Streams : /\ WF_vars(HandlerStep(s))
                        /\ WF_vars(SenderStep(s))
                        /\ WF_vars(gone[s] /\ ReceiverExits(s))
  /\ \A a \in Agents : WF_vars(Disconnect(a))
  /\ \A c \in Callers : WF_vars(CallStep(c))
  /\ WF_vars(Restart)

FairSpec == Spec /\ Fairness
-----------------------------------------------------------------------------
(* Properties.                                                             *)

TablesOK ==
  /\ process \in Deaths \cup {"up"}
  /\ revoked \in SUBSET Agents
  /\ revoking \in SUBSET Agents
  /\ row \in [Agents -> Row]

RegistryOK ==
  /\ entries \in [Agents -> Entry]
  /\ generation \in Nat
  /\ gen \in [Streams -> Nat]
  /\ \A a \in Agents : entries[a].online => entries[a].session # NoStream

HandlersOK ==
  /\ pc \in [Streams -> PC]
  /\ gone \in [Streams -> BOOLEAN]
  /\ sender \in [Streams -> BOOLEAN]
  /\ receiver \in [Streams -> BOOLEAN]

ChannelsOK ==
  /\ queue \in [Streams -> Seq(Callers)]
  /\ \A s \in Streams : Len(queue[s]) <= Depth
  /\ closed \in [Streams -> BOOLEAN]

CallsOK ==
  /\ call \in [Callers -> Outcomes \cup {"idle", "enqueuing"}]
  /\ session \in [Callers -> Streams \cup {NoStream}]
  /\ \A c \in Callers : call[c] = "enqueuing" => session[c] # NoStream

HistoryOK ==
  /\ evicted \in SUBSET Streams
  /\ sent \in [Streams -> SUBSET Callers]

\* Every variable has its type, no queue exceeds the depth it was made with, an online
\* entry has a session and so has a call that waits in Enqueue.
TypeOK ==
  /\ TablesOK /\ RegistryOK /\ HandlersOK
  /\ ChannelsOK /\ CallsOK /\ HistoryOK

\* No live stream is shadowed: whatever stale releases, heartbeats, expiries and
\* rejected duplicates happen around it, a stream that holds a session and was not
\* evicted is the one its agent's online entry points to (release and touch compare
\* generations for this).
HolderIsOnline ==
  \A s \in Streams : Holding(s) /\ s \notin evicted =>
    /\ entries[AgentOf[s]].online
    /\ entries[AgentOf[s]].session = s
    /\ OwnEntry(s)

\* No ghost is online: the entry of an online agent belongs to a stream of that
\* agent whose handler has still to release it, so the agent can come back.
OnlineHasHolder ==
  \A a \in Agents : entries[a].online =>
    /\ entries[a].session \in Streams \ evicted
    /\ AgentOf[entries[a].session] = a
    /\ Holding(entries[a].session)

\* The duplicate policy of Acquire: of two streams of one agent that are both
\* between Acquire and Release, one was evicted.
OneStreamPerAgent ==
  \A s, t \in Streams :
    s # t /\ AgentOf[s] = AgentOf[t] /\ Holding(s) /\ Holding(t) =>
      s \in evicted \/ t \in evicted

Copies(c) == {p \in Streams \X (1..Depth) :
                p[2] \in DOMAIN queue[p[1]] /\ queue[p[1]][p[2]] = c}
Deliveries(c) == {s \in Streams : c \in sent[s]}

\* What the job submission relies on: a Dispatch that returned an error has handed
\* nothing to any stream, and one that returned nil handed the message to at most one
\* stream and at most once (it is lost with the stream), across crashes and restarts.
DispatchAtMostOnce ==
  \A c \in Callers :
    Cardinality(Copies(c)) + Cardinality(Deliveries(c)) <= (IF call[c] = "ok" THEN 1 ELSE 0)

\* ListAgents reads the connections table: the row of a served stream says online.
\* The late Offline of an evicted stream does not touch the row of its successor; only
\* a late Online of an evicted stream can take the row away.
ServedRowOnline ==
  \A s \in Streams : pc[s] \in {"persisted", "serving"} =>
    LET r == row[AgentOf[s]] IN
      \/ r.stream = s /\ r.state = "online"
      \/ r.stream # s /\ {s, r.stream} \cap evicted # {}

Holder == [a \in Agents |-> IF entries[a].online THEN entries[a].session ELSE NoStream]
Lease == INSTANCE AgentLease WITH holder <- Holder

\* The registry implements the lease: nobody is given an identity that is held.
LeaseSpec == Lease!LeaseSpec

\* A revocation or the end of a stream ends that stream, not the validator: closing
\* the queue never panics (operations.md: revocation terminates the active stream).
NoPanic == process \in {"up", "killed"}

\* "Revocation: mark agent revoked, terminate active stream/tunnel, reject reconnect and
\* renewal" (docs/operations.md): once RevokeAgent has returned, no stream of the agent is
\* served that was not cut off.
RevokedIsNotServed ==
  \A s \in Streams : pc[s] = "serving" /\ AgentOf[s] \in revoked \ revoking => s \in evicted

\* A Dispatch that waits on a full queue does not wait for ever: the queue drains, or
\* its stream ends and the call ends with the process.
DispatchReturns ==
  \A c \in Callers : call[c] = "enqueuing" ~> call[c] # "enqueuing"

\* A stream whose peer went away gives its agent's identity back, whatever its two
\* goroutines were doing, so that the agent's next attempt is not a duplicate.
DeadPeerReleases ==
  \A s \in Streams : (gone[s] /\ Holding(s)) ~> ~Holding(s)
=============================================================================
