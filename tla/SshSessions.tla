----------------------------- MODULE SshSessions -----------------------------
(***************************************************************************)
(* A temporary SSH authorization: PrepareSsh and CloseSsh of the fleet API *)
(* (server/ssh.go), the session manager with its table of sessions, ports  *)
(* and binding tokens (ssh/session.go), the agent's SSH handler (agent/    *)
(* ssh.go) and its authorized_keys file (ssh/keys.go), across broken       *)
(* streams and restarts of both sides.                                     *)
(*                                                                         *)
(* One agent, with Connect streams as AgentRegistry promises them.  A      *)
(* receive loop of a stream that has ended may still be busy (with an hour *)
(* long job, say) and read what it had received much later.                *)
(***************************************************************************)
EXTENDS Naturals, Sequences

CONSTANTS
  Sessions,  \* PrepareSsh calls, and the sessions they create
  Ports,     \* Manager.min .. Manager.max
  NoPort,    \* loopback_port IS NULL
  Streams    \* Connect streams of the agent, each used once

ASSUME SshAssumption == Ports \subseteq Nat /\ NoPort \notin Ports

VARIABLES
  state,     \* ssh_sessions.state; "none" without a row
  port,      \* ssh_sessions.loopback_port
  late,      \* sessions whose expires_unix_ms the clock has passed
  ending,    \* sessions of which the second that the file says has come: Unix() is rounded down
  tokens,    \* sessions with a binding token in Manager.tokens
  prepare,   \* where the PrepareSsh call is, or what it returned
  close,     \* where the CloseSsh call for a session is, or what it returned
  stream,    \* each stream at the validator: "new", "open", "ended"
  down,      \* messages from the validator to the agent
  up,        \* SshReady messages from the agent to the validator
  alive,     \* streams whose receive loop still runs at the agent
  keys,      \* sessions with a line in the agent's authorized_keys
  edits,     \* rewrites of that file that have read it and not yet replaced it
  raced      \* history: a rewrite has replaced lines that it had not read

manager == <<state, port, tokens>>
callers == <<prepare, close>>
expiry  == <<late, ending>>
links   == <<stream, down, up, alive>>
file    == <<keys, edits, raced>>
vars == <<manager, expiry, callers, links, file>>

-----------------------------------------------------------------------------
\* Not a message: the clean-up that precedes a stream.
Reconcile == [kind |-> "reconcile"]

Open == {s \in Streams : stream[s] = "open"}
Live(x) == state[x] \in {"preparing", "ready"}

Init ==
  /\ state = [x \in Sessions |-> "none"]
  /\ port = [x \in Sessions |-> NoPort]
  /\ late = {} /\ ending = {} /\ tokens = {}
  /\ prepare = [x \in Sessions |-> "idle"]
  /\ close = [x \in Sessions |-> "idle"]
  /\ stream = [s \in Streams |-> "new"]
  /\ down = [s \in Streams |-> <<>>]
  /\ up = [s \in Streams |-> <<>>]
  /\ alive = {} /\ keys = {} /\ edits = {} /\ raced = FALSE

-----------------------------------------------------------------------------
(* PrepareSsh: Create, then Dispatch, then Close if that failed.           *)

\* allocatePort counts live rows that have not expired ...
Vacant == {p \in Ports : \A x \in Sessions : ~(port[x] = p /\ Live(x) /\ x \notin late)}
\* ... and takes the first port without one.
Allocated == CHOOSE p \in Vacant : \A q \in Vacant : p <= q
\* loopback_port is UNIQUE over all rows.
Insertable(p) == \A x \in Sessions : port[x] # p

\* Variant: the token is kept only once the agent was told.
CreateWithoutToken(x) ==
  /\ prepare[x] = "idle" /\ Vacant # {} /\ Insertable(Allocated)
  /\ state' = [state EXCEPT ![x] = "preparing"]
  /\ port' = [port EXCEPT ![x] = Allocated]
  /\ prepare' = [prepare EXCEPT ![x] = "created"]
  /\ UNCHANGED <<tokens, expiry, close, links, file>>

\* Under the manager's mutex: the row and its audit event in a transaction, then the token.
Create(x) ==
  /\ prepare[x] = "idle" /\ Vacant # {} /\ Insertable(Allocated)
  /\ state' = [state EXCEPT ![x] = "preparing"]
  /\ port' = [port EXCEPT ![x] = Allocated]
  /\ tokens' = tokens \cup {x}
  /\ prepare' = [prepare EXCEPT ![x] = "created"]
  /\ UNCHANGED <<expiry, close, links, file>>

\* No port is vacant, the INSERT hits a port that is taken, or the storage fails.
CreateFails(x) ==
  /\ prepare[x] = "idle"
  /\ prepare' = [prepare EXCEPT ![x] = "failed"]
  /\ UNCHANGED <<manager, expiry, close, links, file>>

\* The PrepareSsh message is queued, on a stream that may have ended meanwhile.
DispatchPrepare(x) ==
  /\ prepare[x] = "created"
  /\ \/ \E s \in Open :
          down' = [down EXCEPT ![s] = Append(@, [kind |-> "prepare", session |-> x])]
     \/ (\E s \in Streams : stream[s] = "ended") /\ UNCHANGED down
  /\ prepare' = [prepare EXCEPT ![x] = "ok"]
  /\ UNCHANGED <<manager, expiry, close, stream, up, alive, file>>

\* Offline agent or full queue: Manager.Close follows.
DispatchPrepareFails(x) ==
  /\ prepare[x] = "created"
  /\ prepare' = [prepare EXCEPT ![x] = "closing"]
  /\ UNCHANGED <<manager, expiry, close, links, file>>

-----------------------------------------------------------------------------
(* Manager.Close: the token under the mutex, then the row.                 *)

\* UPDATE ... SET state=3,loopback_port=NULL WHERE state IN (1,2).
CloseRow(x) ==
  /\ state' = IF Live(x) THEN [state EXCEPT ![x] = "closed"] ELSE state
  /\ port' = IF Live(x) THEN [port EXCEPT ![x] = NoPort] ELSE port

\* Of the failed dispatch.  With a context that has ended the UPDATE fails.
AbandonToken(x) ==
  /\ prepare[x] = "closing"
  /\ tokens' = tokens \ {x}
  /\ prepare' = [prepare EXCEPT ![x] = "updating"]
  /\ UNCHANGED <<state, port, expiry, close, links, file>>

AbandonRow(x) ==
  /\ prepare[x] = "updating"
  /\ CloseRow(x) \/ UNCHANGED <<state, port>>
  /\ prepare' = [prepare EXCEPT ![x] = "unavailable"]
  /\ UNCHANGED <<tokens, expiry, close, links, file>>

\* CloseSsh by an admin, of any session there is.
CloseToken(x) ==
  /\ close[x] = "idle" /\ state[x] # "none"
  /\ tokens' = tokens \ {x}
  /\ close' = [close EXCEPT ![x] = "updating"]
  /\ UNCHANGED <<state, port, expiry, prepare, links, file>>

\* Variant: the agent is told although the UPDATE failed.
CloseUpdateIgnoringErrors(x) ==
  /\ close[x] = "updating"
  /\ CloseRow(x) \/ UNCHANGED <<state, port>>
  /\ close' = [close EXCEPT ![x] = "dispatching"]
  /\ UNCHANGED <<tokens, expiry, prepare, links, file>>

CloseUpdate(x) ==
  /\ close[x] = "updating"
  /\ \/ CloseRow(x) /\ close' = [close EXCEPT ![x] = "dispatching"]
     \/ UNCHANGED <<state, port>> /\ close' = [close EXCEPT ![x] = "failed"]
  /\ UNCHANGED <<tokens, expiry, prepare, links, file>>

\* The agent is told if it is online; an error of Dispatch is dropped.
CloseDispatch(x) ==
  /\ close[x] = "dispatching"
  /\ \/ \E s \in Open :
          down' = [down EXCEPT ![s] = Append(@, [kind |-> "close", session |-> x])]
     \/ UNCHANGED down
  /\ close' = [close EXCEPT ![x] = "done"]
  /\ UNCHANGED <<manager, expiry, prepare, stream, up, alive, file>>

-----------------------------------------------------------------------------
(* The agent.  KeyStore.update reads the file, and replaces it by what it  *)
(* made of it; the receive loop of a stream that ended and the next stream *)
(* do so without a lock between them.                                      *)

Editing(s) == \E e \in edits : e.by = s

StartEdit(s, for, after) ==
  edits' = edits \cup {[by |-> s, for |-> for, before |-> keys, after |-> after]}

\* os.Rename: whatever the file holds by now is replaced.
Replace(e) ==
  /\ edits' = edits \ {e}
  /\ keys' = e.after
  /\ raced' = (raced \/ keys # e.before)

\* A new stream, first half: KeyStore.Reconcile keeps the lines of later seconds than this.
AgentReconciles(s) ==
  /\ stream[s] = "new" /\ Open = {}
  /\ \A e \in edits : e.for # Reconcile
  /\ StartEdit(s, Reconcile, keys \ ending)
  /\ UNCHANGED <<manager, expiry, callers, links, keys, raced>>

\* Second half, and the hello that makes the stream usable.
Connect(s) ==
  /\ Open = {}
  /\ \E e \in edits : e.by = s /\ e.for = Reconcile /\ Replace(e)
  /\ stream' = [stream EXCEPT ![s] = "open"]
  /\ alive' = alive \cup {s}
  /\ UNCHANGED <<manager, expiry, callers, down, up>>

\* The receive loop takes one message after the other.
CanTake(s) == s \in alive /\ ~Editing(s) /\ down[s] # <<>>
Take(s) == down' = [down EXCEPT ![s] = Tail(@)]

\* Prepare of a session in time, or Close.
AgentEdits(s) ==
  /\ CanTake(s)
  /\ LET m == Head(down[s]) IN
       \/ m.kind = "prepare" /\ m.session \notin late /\ StartEdit(s, m, keys \cup {m.session})
       \/ m.kind = "close" /\ StartEdit(s, m, keys \ {m.session})
  /\ Take(s)
  /\ UNCHANGED <<manager, expiry, callers, stream, up, alive, keys, raced>>

\* The session has expired, the key is invalid, or the file cannot be written.
AgentDrops(s) ==
  /\ CanTake(s)
  /\ Take(s)
  /\ UNCHANGED <<manager, expiry, callers, stream, up, alive, file>>

SendReady(s, m) ==
  up' = IF m.kind = "prepare" /\ s \in Open THEN [up EXCEPT ![s] = Append(@, m.session)] ELSE up

\* Variant: SshReady is sent although the line could not be written.
AgentReportsAnyway(s) ==
  /\ \E e \in edits : /\ e.by = s /\ e.for # Reconcile
                      /\ SendReady(s, e.for)
                      /\ \/ Replace(e)
                         \/ edits' = edits \ {e} /\ UNCHANGED <<keys, raced>>
  /\ UNCHANGED <<manager, expiry, callers, stream, down, alive>>

\* The line is written; then SshReady is sent, if the stream still is there.
AgentWrites(s) ==
  /\ \E e \in edits : e.by = s /\ e.for # Reconcile /\ Replace(e) /\ SendReady(s, e.for)
  /\ UNCHANGED <<manager, expiry, callers, stream, down, alive>>

\* The agent process dies; the file stays.
AgentCrash ==
  /\ alive' = {} /\ edits' = {}
  /\ down' = [s \in Streams |-> <<>>]
  /\ UNCHANGED <<manager, expiry, callers, stream, up, keys, raced>>

-----------------------------------------------------------------------------
(* Manager.Ready and the end of a stream.                                  *)

\* The streams of S end; what the agent had received stays readable there.
EndStreams(S) ==
  /\ stream' = [s \in Streams |-> IF s \in S THEN "ended" ELSE stream[s]]
  /\ up' = [s \in Streams |-> IF s \in S THEN <<>> ELSE up[s]]
  /\ \E received \in [S -> UNION {0..Len(down[s]) : s \in S}] :
       /\ \A s \in S : received[s] <= Len(down[s])
       /\ down' = [s \in Streams |->
                     IF s \in S THEN SubSeq(down[s], 1, received[s]) ELSE down[s]]

Break(s) ==
  /\ s \in Open
  /\ EndStreams({s})
  /\ UNCHANGED <<manager, expiry, callers, alive, file>>

CanBeReady(x) == x \in tokens /\ state[x] = "preparing" /\ x \notin late

\* The token matches and the UPDATE finds the row; the token is used up.
Ready(s) ==
  /\ s \in Open /\ up[s] # <<>> /\ CanBeReady(Head(up[s]))
  /\ state' = [state EXCEPT ![Head(up[s])] = "ready"]
  /\ tokens' = tokens \ {Head(up[s])}
  /\ up' = [up EXCEPT ![s] = Tail(@)]
  /\ UNCHANGED <<port, expiry, callers, stream, down, alive, file>>

\* "binding mismatch" or "not ready": the handler's error ends the agent's stream.
RejectReady(s) ==
  /\ s \in Open /\ up[s] # <<>> /\ ~CanBeReady(Head(up[s]))
  /\ EndStreams({s})
  /\ UNCHANGED <<manager, expiry, callers, alive, file>>

-----------------------------------------------------------------------------
\* The validator dies and comes back: tokens are gone, and Reconcile expires the live
\* rows whose time is over.  Rows still in time stay as they are.
ValidatorRestart ==
  /\ tokens' = {}
  /\ state' = [x \in Sessions |-> IF Live(x) /\ x \in late THEN "expired" ELSE state[x]]
  /\ port' = [x \in Sessions |-> IF Live(x) /\ x \in late THEN NoPort ELSE port[x]]
  /\ prepare' = [x \in Sessions |-> IF prepare[x] \in {"created", "closing", "updating"}
                                    THEN "lost" ELSE prepare[x]]
  /\ close' = [x \in Sessions |-> IF close[x] \in {"updating", "dispatching"}
                                  THEN "lost" ELSE close[x]]
  /\ EndStreams(Open)
  /\ UNCHANGED <<expiry, alive, file>>

\* The clock comes to the whole second before expires_unix_ms.
LastSecond(x) ==
  /\ state[x] # "none" /\ x \notin ending
  /\ ending' = ending \cup {x}
  /\ UNCHANGED <<manager, late, callers, links, file>>

\* It passes expires_unix_ms, which may be a whole second.
TimePasses(x) ==
  /\ state[x] # "none" /\ x \notin late
  /\ late' = late \cup {x}
  /\ ending' = ending \cup {x}
  /\ UNCHANGED <<manager, callers, links, file>>

-----------------------------------------------------------------------------
PrepareStep(x) ==
  DispatchPrepare(x) \/ DispatchPrepareFails(x) \/ AbandonToken(x) \/ AbandonRow(x)
CloseStep(x) == CloseUpdate(x) \/ CloseDispatch(x)
AgentStep(s) == AgentEdits(s) \/ AgentDrops(s) \/ AgentWrites(s)
ReadyStep(s) == Ready(s) \/ RejectReady(s)

Next ==
  \/ \E x \in Sessions : \/ Create(x) \/ CreateFails(x) \/ PrepareStep(x)
                         \/ CloseToken(x) \/ CloseStep(x)
                         \/ LastSecond(x) \/ TimePasses(x)
  \/ \E s \in Streams : AgentReconciles(s) \/ Connect(s) \/ Break(s) \/ AgentStep(s) \/ ReadyStep(s)
  \/ AgentCrash \/ ValidatorRestart

Spec == Init /\ [][Next]_vars

\* Calls in progress go on and messages that arrived are handled; the agent reconnects.
Fairness ==
  /\ \A x \in Sessions : WF_vars(PrepareStep(x)) /\ WF_vars(CloseStep(x))
  /\ \A s \in Streams : WF_vars(AgentStep(s)) /\ WF_vars(ReadyStep(s)) /\ WF_vars(AgentReconciles(s) \/ Connect(s))

FairSpec == Spec /\ Fairness
-----------------------------------------------------------------------------
(* Properties.                                                             *)

\* A session has a port while it is live and only then, and no two have the same: the
\* ports of sessions that ended, whichever way, can be used again.
PortsOfLiveSessions ==
  /\ \A x \in Sessions : Live(x) <=> port[x] # NoPort
  /\ \A x, y \in Sessions : port[x] = port[y] /\ port[x] # NoPort => x = y

\* "Agent installs temporary public-key authorization" before "validator verifies
\* readiness" (the session flow of the plan): a session that is ready has its line in
\* authorized_keys, up to the second that the line names.
ReadyHasKey ==
  \A x \in Sessions : state[x] = "ready" /\ x \notin ending => x \in keys

\* It has as long as no two rewrites of the file overlapped: a close reaches the agent
\* after the row is closed, and no reconnect or crash drops a line before its second has
\* come.  In what is left of that second a reconnect does drop it, although the validator,
\* which counts milliseconds, serves the session to its end.
ReadyHasKeyUnlessRaced ==
  ~raced => ReadyHasKey

\* Every SshReady under way will be accepted, unless its session has expired or is
\* being closed: nothing else makes Ready fail and end the agent's stream, neither a
\* restart that forgot the tokens nor another session's messages.
ReadyIsExpected ==
  \A s \in Open : \A i \in DOMAIN up[s] :
    CanBeReady(up[s][i]) \/ up[s][i] \in late \/ close[up[s][i]] # "idle"

\* The agent may still install the session's line: PrepareSsh waits in a queue or is being
\* carried out.
Told(x) == [kind |-> "prepare", session |-> x]
Pending(x) ==
  \/ \E s \in Streams : \E i \in DOMAIN down[s] : down[s][i] = Told(x)
  \/ \E e \in edits : e.for = Told(x)

Asked == [x \in Sessions |->
            IF prepare[x] # "ok" THEN "no" ELSE IF Pending(x) THEN "yes" ELSE "settled"]

\* The lines are those that were asked for, once each, and stay while they are promised,
\* whichever streams carry the messages and whatever the two sides forget: rows, ports and
\* authorized_keys are a behaviour of SshPromise.
Promise == INSTANCE SshPromise WITH asked <- Asked
SshPromiseSpec == Promise!PromiseSpec

\* "expire/cancel/disconnect and confirm process/key/port cleanup" (vm-smoke-test.md): a
\* session that has expired gives its port back.
ExpiredReturnsPort ==
  \A x \in Sessions : x \in late ~> port[x] = NoPort
=============================================================================
