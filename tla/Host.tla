-------------------------------- MODULE Host --------------------------------
(***************************************************************************)
(* What an agent runs on its machine (internal/maintenance, adminexec):    *)
(* Dispatch turns a job into a command or rejects it, Runner.Run starts it *)
(* in a process group of its own and waits for it or for a deadline, the   *)
(* Executor does so under a row of the jobs table, and the managers of     *)
(* cleanup previews and reboot confirmations hand out one-time consents.   *)
(*                                                                         *)
(* A command is a leader and at most one child.  exec.Cmd gives them a pipe*)
(* and Wait returns when the leader has exited and nobody holds the pipe.  *)
(***************************************************************************)
EXTENDS Protocol

CONSTANTS
  Commands,   \* jobs the agent handles and requests of the Executor
  Cleanups,   \* calls of CleanupManager.Execute
  Previews,   \* cleanup previews
  Paths,      \* the paths every preview lists
  Reboots,    \* reboot confirmations
  MaxOutput   \* Runner.MaxOutputBytes, in writes

ASSUME HostAssumption == MaxOutput \in Nat \ {0} /\ Previews \cap Reboots = {}

VARIABLES
  command,    \* where each command is and what its Run returned
  group,      \* its live processes, in its process group
  strays,     \* and the ones that left it
  pipe,       \* the processes that hold its output open
  output,     \* writes so far, what is kept of them, whether it is marked truncated
  context,    \* of Run: "live", past its "timeout", or "cancelled"
  row,        \* jobs.state under the Executor; "none" without one
  audited,    \* commands with an audit event
  connection, \* the command whose transaction holds the only database connection
  consent,    \* previews and confirmations: "none", "stored" or "taken"
  expired,    \* consents past their time
  cleanup,    \* the Execute calls: where they are, their preview, what is left to remove
  used        \* history: how often a consent was honoured

running == <<command, group, strays, pipe, output, context>>
executor == <<row, audited, connection>>
consents == <<consent, expired, cleanup, used>>
hostVars == <<running, executor, consents>>

-----------------------------------------------------------------------------
Processes == {"leader", "child"}
Nothing == "nothing"
Results == {"succeeded", "failed", "timed_out", "cancelled", "rejected"}
At(r, where) == command[r].at = where

HostInit ==
  /\ command = [r \in Commands |-> [at |-> "new", by |-> Nothing, result |-> Nothing]]
  /\ group = [r \in Commands |-> {}]
  /\ strays = [r \in Commands |-> {}]
  /\ pipe = [r \in Commands |-> {}]
  /\ output = [r \in Commands |-> [written |-> 0, kept |-> 0, truncated |-> FALSE]]
  /\ context = [r \in Commands |-> "live"]
  /\ row = [r \in Commands |-> "none"] /\ audited = {} /\ connection = Nothing
  /\ consent = [x \in Previews \cup Reboots |-> "none"]
  /\ expired = {}
  /\ cleanup = [e \in Cleanups |-> [at |-> "idle", preview |-> Nothing, left |-> {}]]
  /\ used = [x \in Previews \cup Reboots |-> 0]

-----------------------------------------------------------------------------
(* Dispatcher.Dispatch: from an operation to an argv, or to a rejection.   *)

\* The validator queues jobs for these, no agent takes them.
Unsupported == (TypedOperation \cup UnsafeOperation) \ (RunsTyped \cup RunsUnsafe)

\* There is an argv: the arguments pass ValidateUnit and the bounds of Operations; a command
\* is confirmed, a reboot names its target and carries some confirmation.
HasArgv(operation, valid) == operation \in RunsTyped \cup RunsUnsafe /\ valid

Reject(r) ==
  /\ At(r, "new")
  /\ \E operation \in RunsTyped \cup RunsUnsafe \cup Unsupported, valid \in BOOLEAN :
       ~HasArgv(operation, valid)
  /\ command' = [command EXCEPT ![r] = [at |-> "returned", by |-> "dispatcher",
                                        result |-> "rejected"]]
  /\ UNCHANGED <<group, strays, pipe, output, context, executor, consents>>

\* Runner.Run up to cmd.Start: a new process group, its output in a pipe of ours.
StartsRun(r, by) ==
  /\ command' = [command EXCEPT ![r].at = "waiting", ![r].by = by]
  /\ group' = [group EXCEPT ![r] = {"leader"}]
  /\ pipe' = [pipe EXCEPT ![r] = {"leader"}]
  /\ UNCHANGED <<strays, output, context, consents>>

Dispatch(r) ==
  /\ At(r, "new")
  /\ \E operation \in RunsTyped \cup RunsUnsafe : HasArgv(operation, TRUE)
  /\ StartsRun(r, "dispatcher")
  /\ UNCHANGED executor

\* There is no such program, or the connection has ended.
DispatchFails(r) ==
  /\ At(r, "new")
  /\ \E result \in {"failed", "cancelled"} :
       command' = [command EXCEPT ![r] = [at |-> "returned", by |-> "dispatcher",
                                          result |-> result]]
  /\ UNCHANGED <<group, strays, pipe, output, context, executor, consents>>

-----------------------------------------------------------------------------
(* Executor.Execute: a transaction around the row and its audit event, the *)
(* command, and an UPDATE with the caller's context.                       *)

ExecuteBegins(r) ==
  /\ At(r, "new") /\ connection = Nothing
  /\ connection' = r
  /\ command' = [command EXCEPT ![r].at = "storing", ![r].by = "executor"]
  /\ UNCHANGED <<group, strays, pipe, output, context, row, audited, consents>>

\* Variant: the audit event is inserted after the commit.
ExecuteCommitsUnaudited(r) ==
  /\ At(r, "storing") /\ context[r] # "cancelled"
  /\ row' = [row EXCEPT ![r] = "running"]
  /\ connection' = Nothing
  /\ StartsRun(r, "executor")
  /\ UNCHANGED audited

\* The row and its audit event are committed, then the shell starts.
ExecuteCommits(r) ==
  /\ At(r, "storing") /\ context[r] # "cancelled"
  /\ row' = [row EXCEPT ![r] = "running"]
  /\ audited' = audited \cup {r}
  /\ connection' = Nothing
  /\ StartsRun(r, "executor")

\* An INSERT or the COMMIT fails and the transaction is rolled back.
ExecuteRollsBack(r) ==
  /\ At(r, "storing")
  /\ connection' = Nothing
  /\ command' = [command EXCEPT ![r].at = "returned", ![r].result = "failed"]
  /\ UNCHANGED <<group, strays, pipe, output, context, row, audited, consents>>

\* No entropy for the second id: the call returns and its transaction stays open.
ExecuteLeaks(r) ==
  /\ At(r, "storing")
  /\ command' = [command EXCEPT ![r].at = "returned", ![r].result = "failed"]
  /\ UNCHANGED <<group, strays, pipe, output, context, executor, consents>>

\* database/sql rolls a transaction back when its context is cancelled.
LeakEnds(r) ==
  /\ connection = r /\ At(r, "returned") /\ context[r] = "cancelled"
  /\ connection' = Nothing
  /\ UNCHANGED <<running, row, audited, consents>>

\* The UPDATE: with the context that may have ended the command.
ExecuteRecords(r) ==
  /\ At(r, "returned") /\ row[r] = "running"
  /\ context[r] # "cancelled" /\ connection = Nothing
  /\ row' = [row EXCEPT ![r] = command[r].result]
  /\ UNCHANGED <<running, audited, connection, consents>>

-----------------------------------------------------------------------------
(* The processes of a command.                                             *)

Alive(r) == group[r] \cup strays[r]

\* The child inherits the group and the pipe.
Forks(r) ==
  /\ "leader" \in group[r] /\ "child" \notin Alive(r) \cup pipe[r]
  /\ group' = [group EXCEPT ![r] = @ \cup {"child"}]
  /\ pipe' = [pipe EXCEPT ![r] = IF "leader" \in pipe[r] THEN @ \cup {"child"} ELSE @]
  /\ UNCHANGED <<command, strays, output, context, executor, consents>>

\* setsid, as a daemon does.
Leaves(r) ==
  /\ "child" \in group[r]
  /\ group' = [group EXCEPT ![r] = @ \ {"child"}]
  /\ strays' = [strays EXCEPT ![r] = {"child"}]
  /\ UNCHANGED <<command, pipe, output, context, executor, consents>>

ClosesOutput(r, p) ==
  /\ p \in pipe[r]
  /\ pipe' = [pipe EXCEPT ![r] = @ \ {p}]
  /\ UNCHANGED <<command, group, strays, output, context, executor, consents>>

\* limitedBuffer.Write keeps what fits and says that it took it all.
Writes(r) ==
  /\ pipe[r] # {} /\ output[r].written <= MaxOutput
  /\ output' = [output EXCEPT ![r] =
       IF @.kept < MaxOutput THEN [@ EXCEPT !.written = @ + 1, !.kept = @ + 1]
       ELSE [@ EXCEPT !.written = @ + 1, !.truncated = TRUE]]
  /\ UNCHANGED <<command, group, strays, pipe, context, executor, consents>>

Ends(r, p) ==
  /\ p \in Alive(r)
  /\ group' = [group EXCEPT ![r] = @ \ {p}]
  /\ strays' = [strays EXCEPT ![r] = @ \ {p}]
  /\ pipe' = [pipe EXCEPT ![r] = @ \ {p}]
  /\ UNCHANGED <<command, output, context, executor, consents>>

-----------------------------------------------------------------------------
(* The select of Runner.Run.                                               *)

\* The timeout of Run passes, or the connection or the call ends.
ContextEnds(r, how) ==
  /\ context[r] = "live" /\ command[r].at # "new"
  /\ how = "timeout" => At(r, "waiting")
  /\ context' = [context EXCEPT ![r] = how]
  /\ UNCHANGED <<command, group, strays, pipe, output, executor, consents>>

Waited(r) == "leader" \notin Alive(r) /\ pipe[r] = {}

\* <-done; when the context has ended too, select takes either.
RunReturns(r) ==
  /\ At(r, "waiting") /\ Waited(r)
  /\ \E result \in {"succeeded", "failed"} :
       command' = [command EXCEPT ![r].at = "returned", ![r].result = result]
  /\ UNCHANGED <<group, strays, pipe, output, context, executor, consents>>

\* SIGKILL to the whole group.
Kills(r) ==
  /\ At(r, "waiting") /\ context[r] # "live"
  /\ pipe' = [pipe EXCEPT ![r] = @ \ group[r]]
  /\ group' = [group EXCEPT ![r] = {}]
  /\ command' = [command EXCEPT ![r].at = "killed"]
  /\ UNCHANGED <<strays, output, context, executor, consents>>

TimedOut(r) ==
  command' = [command EXCEPT ![r].at = "returned",
    ![r].result = IF context[r] = "timeout" THEN "timed_out" ELSE "cancelled"]

\* Variant: it does not wait for what it killed.
KillReturnsAtOnce(r) ==
  /\ At(r, "killed") /\ TimedOut(r)
  /\ UNCHANGED <<group, strays, pipe, output, context, executor, consents>>

\* <-done again, without a deadline.
KillReturns(r) ==
  /\ At(r, "killed") /\ Waited(r) /\ TimedOut(r)
  /\ UNCHANGED <<group, strays, pipe, output, context, executor, consents>>

-----------------------------------------------------------------------------
(* CleanupManager and RebootManager.                                       *)

\* Preview and Confirm.
StoresConsent(x) ==
  /\ consent[x] = "none"
  /\ consent' = [consent EXCEPT ![x] = "stored"]
  /\ UNCHANGED <<expired, cleanup, used, running, executor>>

Expires(x) ==
  /\ consent[x] # "none" /\ x \notin expired
  /\ expired' = expired \cup {x}
  /\ UNCHANGED <<consent, cleanup, used, running, executor>>

\* Variant: the preview is deleted once everything is removed.
CleanupChecks(e, x) ==
  /\ cleanup[e].at = "idle" /\ consent[x] = "stored" /\ x \notin expired
  /\ cleanup' = [cleanup EXCEPT ![e] = [at |-> "removing", preview |-> x, left |-> Paths]]
  /\ used' = [used EXCEPT ![x] = @ + 1]
  /\ UNCHANGED <<consent, expired, running, executor>>

\* Execute takes the preview out of the map whatever it then thinks of it: a call that comes
\* late, or with another hash, uses it up.
CleanupTakes(e, x) ==
  /\ cleanup[e].at = "idle" /\ consent[x] = "stored"
  /\ consent' = [consent EXCEPT ![x] = "taken"]
  /\ \/ /\ x \notin expired
        /\ cleanup' = [cleanup EXCEPT ![e] = [at |-> "removing", preview |-> x, left |-> Paths]]
        /\ used' = [used EXCEPT ![x] = @ + 1]
     \/ /\ cleanup' = [cleanup EXCEPT ![e].at = "refused"]
        /\ UNCHANGED used
  /\ UNCHANGED <<expired, running, executor>>

\* RemoveAll of the next path.
CleanupRemoves(e, p) ==
  /\ cleanup[e].at = "removing" /\ p \in cleanup[e].left
  /\ cleanup' = [cleanup EXCEPT ![e].left = @ \ {p},
                                ![e].at = IF cleanup[e].left = {p} THEN "done" ELSE @]
  /\ UNCHANGED <<consent, expired, used, running, executor>>

\* A path cannot be removed: the rest stays, and the preview is gone.
CleanupStops(e) ==
  /\ cleanup[e].at = "removing"
  /\ cleanup' = [cleanup EXCEPT ![e].at = "stopped"]
  /\ UNCHANGED <<consent, expired, used, running, executor>>

\* RebootManager.Consume: a confirmation for another agent stays, one that expired goes.
RebootConsumes(x) ==
  /\ consent[x] = "stored"
  /\ consent' = [consent EXCEPT ![x] = "taken"]
  /\ used' = [used EXCEPT ![x] = IF x \in expired THEN @ ELSE @ + 1]
  /\ UNCHANGED <<expired, cleanup, running, executor>>

-----------------------------------------------------------------------------
HostNext ==
  \/ \E r \in Commands :
       \/ Reject(r) \/ Dispatch(r) \/ DispatchFails(r)
       \/ ExecuteBegins(r) \/ ExecuteCommits(r) \/ ExecuteRollsBack(r) \/ ExecuteLeaks(r)
       \/ LeakEnds(r) \/ ExecuteRecords(r)
       \/ Forks(r) \/ Leaves(r) \/ Writes(r) \/ RunReturns(r) \/ Kills(r) \/ KillReturns(r)
       \/ \E p \in Processes : ClosesOutput(r, p) \/ Ends(r, p)
       \/ \E how \in {"timeout", "cancelled"} : ContextEnds(r, how)
  \/ \E x \in Previews \cup Reboots : StoresConsent(x) \/ Expires(x)
  \/ \E e \in Cleanups : \/ CleanupStops(e)
                         \/ \E x \in Previews : CleanupTakes(e, x)
                         \/ \E p \in Paths : CleanupRemoves(e, p)
  \/ \E x \in Reboots : RebootConsumes(x)

HostSpec == HostInit /\ [][HostNext]_hostVars
-----------------------------------------------------------------------------
(* Properties.                                                             *)

\* What Run returned is all there will be: its output has no writer left, and of a command
\* that timed out or was cancelled nothing of its group goes on; while it still waits after
\* the kill, only a process that left the group can keep it waiting.
ReturnedIsOver ==
  \A r \in Commands :
    /\ At(r, "returned") => "leader" \notin Alive(r) /\ pipe[r] = {}
    /\ command[r].result \in {"timed_out", "cancelled"} => group[r] = {}
    /\ At(r, "killed") /\ ~Waited(r) => pipe[r] \cap strays[r] # {}

\* Under the Executor a command has run only if its audit event is stored, and a row that is
\* no longer running says what Run returned (a cancelled one stays running for ever: the
\* UPDATE goes with the context).
ExecutedIsAudited ==
  \A r \in Commands :
    /\ command[r].by = "executor" /\ (Alive(r) # {} \/ output[r].written > 0) => r \in audited
    /\ row[r] \notin {"none", "running"} => row[r] = command[r].result /\ r \in audited

\* A preview or a confirmation is honoured at most once, whichever calls race for it and
\* however far the first one got.
ConsentUsedOnce == \A x \in Previews \cup Reboots : used[x] <= 1
=============================================================================
