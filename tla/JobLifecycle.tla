---------------------------- MODULE JobLifecycle ----------------------------
(***************************************************************************)
(* A job from its submission to its result: submitSafe and submitUnsafe    *)
(* (server/jobs.go, unsafe.go), CancelJob (cancel.go), the result handler  *)
(* (registry/messages.go), and the agent's receive loop and handler        *)
(* (agent/stream.go, handler.go, maintenance/dispatcher.go), across broken *)
(* streams and crashes of either side.                                     *)
(*                                                                         *)
(* One agent.  Its Connect streams are what AgentRegistry promises: one    *)
(* open at a time, each message put on at most one of them.  The session   *)
(* queue and the transport behind it are one FIFO channel per direction.   *)
(***************************************************************************)
EXTENDS Naturals, Sequences, FiniteSets

CONSTANTS
  Jobs,      \* submissions of a job; each is tried once
  Keys,      \* idempotency keys
  Cancels,   \* CancelJob calls
  Streams,   \* Connect streams of the agent, numbered in the order they begin
  NoJob      \* the agent's handler is between two messages

ASSUME FiniteJobs == IsFiniteSet(Jobs \cup Cancels)
ASSUME JobAssumption == NoJob \notin Jobs /\ Streams \subseteq Nat

VARIABLES
  KeyOf,     \* the key each submission carries
  record,    \* jobs.state of each submission; "none" without a row
  submit,    \* where the submission is, or what it returned
  cancel,    \* where the CancelJob call is, or what it returned
  target,    \* the job a CancelJob call names
  stream,    \* each stream at the validator: "new", "open", "ended"
  down,      \* messages from the validator to the agent
  up,        \* results from the agent to the validator
  alive,     \* streams whose receive loop still runs at the agent
  seen,      \* Handler.seen of each connection
  running,   \* the job the receive loop of a stream is executing
  expired,   \* jobs whose deadline has passed
  effect     \* history: what happened to a job on the agent

server == <<KeyOf, record, submit, cancel, target>>
links  == <<stream, down, up>>
agent  == <<alive, seen, running, effect>>
vars == <<server, links, agent, expired>>

-----------------------------------------------------------------------------
\* "stopped" is the CANCELLED an agent reports of itself: the operator's is "cancelled".
Results == {"succeeded", "failed", "timed_out", "rejected", "stopped"}

Open == {s \in Streams : stream[s] = "open"}
Ended == {s \in Streams : stream[s] = "ended"}

Init ==
  /\ KeyOf \in [Jobs -> Keys]
  /\ record = [j \in Jobs |-> "none"]
  /\ submit = [j \in Jobs |-> "idle"]
  /\ cancel = [c \in Cancels |-> "idle"]
  /\ target = [c \in Cancels |-> NoJob]
  /\ stream = [s \in Streams |-> "new"]
  /\ down = [s \in Streams |-> <<>>]
  /\ up = [s \in Streams |-> <<>>]
  /\ alive = {}
  /\ seen = [s \in Streams |-> {}]
  /\ running = [s \in Streams |-> NoJob]
  /\ expired = {}
  /\ effect = [j \in Jobs |-> "none"]

Put(s, message) == down' = [down EXCEPT ![s] = Append(@, message)]

-----------------------------------------------------------------------------
(* Submission: a transaction, then Dispatch, then a repair if that failed. *)

Taken(key) == \E k \in Jobs : KeyOf[k] = key /\ record[k] # "none"

\* Variant: the index on (agent_id, idempotency_key) is not unique.
SubmitAnyKey(j) ==
  /\ submit[j] = "idle"
  /\ record' = [record EXCEPT ![j] = "dispatched"]
  /\ submit' = [submit EXCEPT ![j] = "stored"]
  /\ UNCHANGED <<KeyOf, cancel, target, links, agent, expired>>

\* The row and its audit event are committed together, with the state the job will
\* have once it is dispatched.
Submit(j) ==
  /\ submit[j] = "idle" /\ ~Taken(KeyOf[j])
  /\ record' = [record EXCEPT ![j] = "dispatched"]
  /\ submit' = [submit EXCEPT ![j] = "stored"]
  /\ UNCHANGED <<KeyOf, cancel, target, links, agent, expired>>

\* AlreadyExists.
SubmitDuplicate(j) ==
  /\ submit[j] = "idle" /\ Taken(KeyOf[j])
  /\ submit' = [submit EXCEPT ![j] = "duplicate"]
  /\ UNCHANGED <<KeyOf, record, cancel, target, links, agent, expired>>

\* The context is invalid, or the storage fails and the transaction is rolled back.
SubmitFails(j) ==
  /\ submit[j] = "idle"
  /\ submit' = [submit EXCEPT ![j] = "failed"]
  /\ UNCHANGED <<KeyOf, record, cancel, target, links, agent, expired>>

\* Variant: a message that was queued is reported as undeliverable.
DispatchMisreported(j) ==
  /\ submit[j] = "stored"
  /\ \E s \in Open : Put(s, [kind |-> "job", job |-> j])
  /\ submit' = [submit EXCEPT ![j] = "offline"]
  /\ UNCHANGED <<KeyOf, record, cancel, target, stream, up, agent, expired>>

\* Registry.Dispatch puts the job on the agent's stream.
Dispatch(j) ==
  /\ submit[j] = "stored"
  /\ \E s \in Open : Put(s, [kind |-> "job", job |-> j])
  /\ submit' = [submit EXCEPT ![j] = "accepted"]
  /\ UNCHANGED <<KeyOf, record, cancel, target, stream, up, agent, expired>>

\* It was put into the queue of a session that was read before its stream ended.
DispatchLost(j) ==
  /\ submit[j] = "stored" /\ Ended # {}
  /\ submit' = [submit EXCEPT ![j] = "accepted"]
  /\ UNCHANGED <<KeyOf, record, cancel, target, links, agent, expired>>

\* ErrAgentOffline.
DispatchOffline(j) ==
  /\ submit[j] = "stored" /\ Open = {}
  /\ submit' = [submit EXCEPT ![j] = "offline"]
  /\ UNCHANGED <<KeyOf, record, cancel, target, links, agent, expired>>

\* The caller's context ends while the queue is full; the UPDATE that follows runs on
\* the same context and fails, its error is dropped.
DispatchCancelled(j) ==
  /\ submit[j] = "stored" /\ Open \cup Ended # {}
  /\ submit' = [submit EXCEPT ![j] = "unavailable"]
  /\ UNCHANGED <<KeyOf, record, cancel, target, links, agent, expired>>

\* UPDATE jobs SET state=UNKNOWN_RESULT WHERE id: whatever the state is by now.
RecordUnknown(j) ==
  /\ submit[j] = "offline"
  /\ submit' = [submit EXCEPT ![j] = "unavailable"]
  /\ record' = [record EXCEPT ![j] = "unknown"]
  /\ UNCHANGED <<KeyOf, cancel, target, links, agent, expired>>

\* The same UPDATE on a context that has ended.
RecordUnknownFails(j) ==
  /\ submit[j] = "offline"
  /\ submit' = [submit EXCEPT ![j] = "unavailable"]
  /\ UNCHANGED <<KeyOf, record, cancel, target, links, agent, expired>>

-----------------------------------------------------------------------------
(* CancelJob: a SELECT, a message to the agent, an UPDATE.                 *)

\* Of a job in one of the four states it takes for final, the call returns the state.
CancelRead(c, j) ==
  /\ cancel[c] = "idle" /\ record[j] # "none"
  /\ target' = [target EXCEPT ![c] = j]
  /\ cancel' = [cancel EXCEPT ![c] =
       IF record[j] \in (Results \ {"rejected"}) \cup {"cancelled"} THEN record[j]
       ELSE "read"]
  /\ UNCHANGED <<KeyOf, record, submit, links, agent, expired>>

\* The message reaches the agent's queue, or one nobody reads any more.
CancelDispatch(c) ==
  /\ cancel[c] = "read"
  /\ \/ \E s \in Open : Put(s, [kind |-> "cancel", job |-> target[c]])
     \/ Ended # {} /\ UNCHANGED down
  /\ cancel' = [cancel EXCEPT ![c] = "sent"]
  /\ UNCHANGED <<KeyOf, record, submit, target, stream, up, agent, expired>>

\* The agent is offline, the context ends, or the storage fails.
CancelFails(c) ==
  /\ cancel[c] \in {"read", "sent"}
  /\ cancel' = [cancel EXCEPT ![c] = "error"]
  /\ UNCHANGED <<KeyOf, record, submit, target, links, agent, expired>>

\* Variant: the UPDATE trusts the state the SELECT saw.
CancelRecordStale(c) ==
  /\ cancel[c] = "sent"
  /\ record' = [record EXCEPT ![target[c]] = "cancelled"]
  /\ cancel' = [cancel EXCEPT ![c] = "cancelled"]
  /\ UNCHANGED <<KeyOf, submit, target, links, agent, expired>>

\* UPDATE ... WHERE state IN (2,3); the reply says cancelled even of no row.
CancelRecord(c) ==
  /\ cancel[c] = "sent"
  /\ record' = IF record[target[c]] = "dispatched"
               THEN [record EXCEPT ![target[c]] = "cancelled"] ELSE record
  /\ cancel' = [cancel EXCEPT ![c] = "cancelled"]
  /\ UNCHANGED <<KeyOf, submit, target, links, agent, expired>>

-----------------------------------------------------------------------------
(* The streams.                                                            *)

\* The agent connects: a new stream, a new Handler with an empty seen.
Connect(s) ==
  /\ stream[s] = "new" /\ \A t \in Streams : stream[t] = "new" => s <= t
  /\ Open = {}
  /\ stream' = [stream EXCEPT ![s] = "open"]
  /\ alive' = alive \cup {s}
  /\ UNCHANGED <<server, down, up, seen, running, effect, expired>>

\* The streams of S end at the validator.  What the agent had received stays readable
\* there, a prefix of what was sent; the results under way are lost, and so is what
\* the agent still writes.
EndStreams(S) ==
  /\ stream' = [s \in Streams |-> IF s \in S THEN "ended" ELSE stream[s]]
  /\ up' = [s \in Streams |-> IF s \in S THEN <<>> ELSE up[s]]
  /\ \E received \in [S -> 0..Cardinality(Jobs \cup Cancels)] :
       /\ \A s \in S : received[s] <= Len(down[s])
       /\ down' = [s \in Streams |->
                     IF s \in S THEN SubSeq(down[s], 1, received[s]) ELSE down[s]]

\* Variant: what an ended stream has not delivered is sent again on an open one.
BreakResending(s) ==
  /\ s \in Open
  /\ \E t \in Streams \ {s} :
       /\ stream[t] = "new"
       /\ stream' = [stream EXCEPT ![s] = "ended", ![t] = "open"]
       /\ alive' = alive \cup {t}
       /\ down' = [down EXCEPT ![t] = down[s]]
       /\ up' = [up EXCEPT ![s] = <<>>]
  /\ UNCHANGED <<server, seen, running, effect, expired>>

\* The connection is lost, or the validator ends it for another reason.
Break(s) ==
  /\ s \in Open
  /\ EndStreams({s})
  /\ UNCHANGED <<server, agent, expired>>

-----------------------------------------------------------------------------
(* The agent's receive loop: one message at a time, Handle included.       *)

NextDown(s) == Head(down[s])
CanTake(s) == s \in alive /\ running[s] = NoJob /\ down[s] # <<>>
Drop(s) == down' = [down EXCEPT ![s] = Tail(@)]

\* A result is lost when the stream is gone.
Report(s, j, state) ==
  up' = IF s \in Open THEN [up EXCEPT ![s] = Append(@, [job |-> j, state |-> state])]
        ELSE up

\* No handler of the agent knows CancelJob.
AgentIgnoresCancel(s) ==
  /\ CanTake(s) /\ NextDown(s).kind = "cancel"
  /\ Drop(s)
  /\ UNCHANGED <<server, stream, up, agent, expired>>

\* "job expired" or "duplicate job": the error is dropped and no result sent.
AgentDropsJob(s) ==
  /\ CanTake(s) /\ NextDown(s).kind = "job"
  /\ NextDown(s).job \in expired \cup seen[s]
  /\ Drop(s)
  /\ UNCHANGED <<server, stream, up, agent, expired>>

\* Dispatcher: the operation is unsupported or its arguments are invalid.
AgentRejectsJob(s) ==
  /\ CanTake(s) /\ NextDown(s).kind = "job"
  /\ NextDown(s).job \notin expired \cup seen[s]
  /\ Drop(s)
  /\ seen' = [seen EXCEPT ![s] = @ \cup {NextDown(s).job}]
  /\ effect' = [effect EXCEPT ![NextDown(s).job] = "rejected"]
  /\ Report(s, NextDown(s).job, "rejected")
  /\ UNCHANGED <<server, stream, alive, running, expired>>

\* Runner.Run starts the command.
AgentStartsJob(s) ==
  /\ CanTake(s) /\ NextDown(s).kind = "job"
  /\ NextDown(s).job \notin expired \cup seen[s]
  /\ Drop(s)
  /\ seen' = [seen EXCEPT ![s] = @ \cup {NextDown(s).job}]
  /\ running' = [running EXCEPT ![s] = NextDown(s).job]
  /\ effect' = [effect EXCEPT ![NextDown(s).job] = "started"]
  /\ UNCHANGED <<server, stream, up, alive, expired>>

\* Variant: only successes are reported.
AgentFinishesQuietly(s) ==
  /\ s \in alive /\ running[s] # NoJob
  /\ \E state \in {"succeeded", "failed", "timed_out"} :
       /\ effect' = [effect EXCEPT ![running[s]] = state]
       /\ IF state = "succeeded" THEN Report(s, running[s], state) ELSE UNCHANGED up
  /\ running' = [running EXCEPT ![s] = NoJob]
  /\ UNCHANGED <<server, stream, down, alive, seen, expired>>

\* The command ends or is killed after the agent's own timeout, and the result is sent.
AgentFinishesJob(s) ==
  /\ s \in alive /\ running[s] # NoJob
  /\ \E state \in {"succeeded", "failed", "timed_out"} :
       /\ effect' = [effect EXCEPT ![running[s]] = state]
       /\ Report(s, running[s], state)
  /\ running' = [running EXCEPT ![s] = NoJob]
  /\ UNCHANGED <<server, stream, down, alive, seen, expired>>

\* The agent is stopped: the context its stream and its commands share ends.  The command
\* is killed, or the next job not begun, and the result says cancelled; it arrives only if
\* it was sent before the stream noticed.  Then the process exits.
AgentStops(s, j) ==
  /\ s \in alive
  /\ \/ running[s] = j
     \/ CanTake(s) /\ NextDown(s) = [kind |-> "job", job |-> j] /\ j \notin expired \cup seen[s]
  /\ effect' = [effect EXCEPT ![j] = "stopped"]
  /\ Report(s, j, "stopped") \/ UNCHANGED up
  /\ alive' = {}
  /\ running' = [t \in Streams |-> NoJob]
  /\ down' = [t \in Streams |-> <<>>]
  /\ UNCHANGED <<server, stream, seen, expired>>

\* The agent process dies or exits between jobs: a result it had sent may still arrive.
AgentCrash ==
  /\ alive # {}
  /\ alive' = {}
  /\ running' = [s \in Streams |-> NoJob]
  /\ down' = [s \in Streams |-> <<>>]
  /\ UNCHANGED <<server, stream, up, seen, effect, expired>>

-----------------------------------------------------------------------------
(* MessageHandler.Handle of a JobResult.                                   *)

NextUp(s) == Head(up[s])

\* UPDATE ... WHERE id, agent, dispatch and attempt match AND state IN (2,3).
RecordResult(s) ==
  /\ s \in Open /\ up[s] # <<>> /\ record[NextUp(s).job] = "dispatched"
  /\ record' = [record EXCEPT ![NextUp(s).job] = NextUp(s).state]
  /\ up' = [up EXCEPT ![s] = Tail(@)]
  /\ UNCHANGED <<KeyOf, submit, cancel, target, stream, down, agent, expired>>

\* "unknown or stale job result": the error ends the whole stream.
RejectResult(s) ==
  /\ s \in Open /\ up[s] # <<>> /\ record[NextUp(s).job] # "dispatched"
  /\ EndStreams({s})
  /\ UNCHANGED <<server, agent, expired>>

-----------------------------------------------------------------------------
\* The validator dies with its calls, queues and streams; the tables survive.
ValidatorCrash ==
  /\ submit' = [j \in Jobs |-> IF submit[j] \in {"stored", "offline"} THEN "lost"
                               ELSE submit[j]]
  /\ cancel' = [c \in Cancels |-> IF cancel[c] \in {"read", "sent"} THEN "lost"
                                  ELSE cancel[c]]
  /\ EndStreams(Open)
  /\ UNCHANGED <<KeyOf, record, target, agent, expired>>

\* The clock passes the deadline of a job.
DeadlinePasses(j) ==
  /\ record[j] # "none" /\ j \notin expired
  /\ expired' = expired \cup {j}
  /\ UNCHANGED <<server, links, agent>>

-----------------------------------------------------------------------------
SubmitStep(j) ==
  \/ Dispatch(j) \/ DispatchLost(j) \/ DispatchOffline(j) \/ DispatchCancelled(j)
  \/ RecordUnknown(j) \/ RecordUnknownFails(j)
CancelStep(c) == CancelDispatch(c) \/ CancelFails(c) \/ CancelRecord(c)
AgentStep(s) ==
  \/ AgentIgnoresCancel(s) \/ AgentDropsJob(s) \/ AgentRejectsJob(s) \/ AgentStartsJob(s)
  \/ AgentFinishesJob(s)
ResultStep(s) == RecordResult(s) \/ RejectResult(s)

Next ==
  \/ \E j \in Jobs : \/ Submit(j) \/ SubmitDuplicate(j) \/ SubmitFails(j) \/ SubmitStep(j)
                     \/ DeadlinePasses(j)
  \/ \E c \in Cancels : CancelStep(c) \/ \E j \in Jobs : CancelRead(c, j)
  \/ \E s \in Streams : \/ Connect(s) \/ Break(s) \/ AgentStep(s) \/ ResultStep(s)
                        \/ \E j \in Jobs : AgentStops(s, j)
  \/ AgentCrash \/ ValidatorCrash

Spec == Init /\ [][Next]_vars

\* Calls in progress go on, the agent handles what it received, commands end (the agent
\* kills them after an hour), results that arrive are handled ...
Fairness ==
  /\ \A j \in Jobs : WF_vars(SubmitStep(j))
  /\ \A c \in Cancels : WF_vars(CancelStep(c))
  /\ \A s \in Streams : WF_vars(AgentStep(s)) /\ WF_vars(ResultStep(s))

\* ... and the agent reconnects.
Reconnects == \A s \in Streams : WF_vars(Connect(s))

FairSpec == Spec /\ Fairness /\ Reconnects
-----------------------------------------------------------------------------
(* Properties.                                                             *)

\* One effect per idempotency key: a submission repeated with its key, after an error,
\* a lost reply or a crash, is never a second execution on the agent.
OneEffectPerKey ==
  \A j, k \in Jobs :
    KeyOf[j] = KeyOf[k] /\ effect[j] # "none" /\ effect[k] # "none" => j = k

\* A submission that answered "agent offline or backpressured" has not reached the
\* agent and never will, so the operator may submit again under another key.
RefusedHasNoEffect ==
  \A j \in Jobs : submit[j] = "unavailable" \/ record[j] = "unknown" =>
    /\ effect[j] = "none"
    /\ \A s \in Streams : [kind |-> "job", job |-> j] \notin {down[s][i] : i \in DOMAIN down[s]}

\* A result under way is the only one of its job, says what happened, and finds the
\* record waiting for it unless the job was cancelled: only a cancellation makes the
\* result handler end the agent's stream.
ResultsUnderWay ==
  \A s \in Streams : \A i \in DOMAIN up[s] :
    LET r == up[s][i] IN
      /\ record[r.job] \in {"dispatched", "cancelled"}
      /\ r.state = effect[r.job]
      /\ \A t \in Streams : \A k \in DOMAIN up[t] :
           up[t][k].job = r.job => t = s /\ k = i

\* The lifecycle keeps the promise made to whoever submitted the job: it takes effect
\* at most once, and the recorded result is the real one and is final.
Promise == INSTANCE JobPromise
PromiseSpec == Promise!PromiseSpec

OnTheWay(s, j) == [kind |-> "job", job |-> j] \in {down[s][i] : i \in DOMAIN down[s]}
Connected(s) == s \in Open /\ s \in alive

\* While the stream holds, the agent gets to a dispatched job however many others are
\* queued before it, and what it starts or rejects is recorded in the end (or was
\* cancelled meanwhile).
ResultArrives ==
  \A s \in Streams, j \in Jobs :
    /\ OnTheWay(s, j) ~> (running[s] = j \/ effect[j] = "rejected" \/ j \in expired \/ ~Connected(s))
    /\ (running[s] = j /\ Connected(s)) ~> (record[j] # "dispatched" \/ ~Connected(s))

\* "Unknown completion is reported as unknown" (mvp plan): a job does not stay
\* recorded as dispatched for ever.
DispatchedIsResolved ==
  \A j \in Jobs : record[j] = "dispatched" ~> record[j] # "dispatched"
=============================================================================
