------------------------------ MODULE Protocol ------------------------------
(***************************************************************************)
(* What the two ends of the Connect stream take for granted of each other: *)
(* the numbers the tables store for a state (api/devops/v1), the messages  *)
(* each end sends and reads, the operations a call turns into, and the     *)
(* limits they agree on (registry.go).  Nothing in the program compares    *)
(* these: SQL has literals, a handler a default case.                      *)
(***************************************************************************)
EXTENDS Naturals, FiniteSets

-----------------------------------------------------------------------------
(* States.                                                                 *)

JobState == [unspecified |-> 0, queued |-> 1, dispatched |-> 2, running |-> 3, succeeded |-> 4,
  failed |-> 5, cancelled |-> 6, timed_out |-> 7, unknown_result |-> 8, rejected |-> 9]
SshSessionState ==
  [unspecified |-> 0, preparing |-> 1, ready |-> 2, closed |-> 3, expired |-> 4, failed |-> 5]

\* "state IN (2,3)": the rows that a result, and a cancellation, may still change.
ResultTakes == {2, 3}
CancelTakes == {2, 3}
OutputWaits == {JobState.dispatched, JobState.running}

\* CancelJob answers these at once; for all others it sends the agent a message.
CancelFinal == {JobState.succeeded, JobState.failed, JobState.cancelled, JobState.timed_out}

\* Dispatcher.Dispatch, and the row when the message could not be queued.
AgentReports == {JobState.rejected, JobState.cancelled, JobState.timed_out, JobState.failed,
                 JobState.succeeded}
NotQueued == JobState.unknown_result

\* "state IN (1,2)" holds a port; Ready, Close and Reconcile write 2, 3 and 4.
PortHeld == {1, 2}
ReadyWrites == 2
CloseWrites == 3
ReconcileWrites == 4

-----------------------------------------------------------------------------
(* Messages.                                                               *)

AgentPayloads ==
  {"hello", "heartbeat", "metrics", "job_result", "output", "ssh_ready", "cancel_ack"}
ValidatorPayloads == {"connection", "job", "cancel", "prepare_ssh", "close_ssh", "open_tunnel"}

\* RunConnection, the publisher and the two handlers.
AgentSends == {"hello", "heartbeat", "metrics", "job_result", "ssh_ready"}

\* The first message and MessageHandler.Handle; everything else it returns nil for.
ValidatorReads == {"hello", "heartbeat", "metrics", "ssh_ready", "job_result"}

\* Connect, submitSafe and submitUnsafe, CancelJob, PrepareSsh, CloseSsh, BridgeSsh.
ValidatorSends == {"connection", "job", "cancel", "prepare_ssh", "close_ssh", "open_tunnel"}

\* What RunAgent does not give the job handler goes to the SSH handler.
AgentReads == {"job", "prepare_ssh", "close_ssh", "open_tunnel"}

-----------------------------------------------------------------------------
(* Operations.                                                             *)

TypedOperation == {"process_list", "service_list", "service_status", "service_start",
  "service_stop", "service_restart", "journal_read", "cleanup_preview", "cleanup_run", "reboot"}
UnsafeOperation == {"cleanup_run", "reboot", "arbitrary_command"}

\* submitSafe's callers and submitUnsafe's.
SafeOf == [ListProcesses |-> "process_list", ListServices |-> "service_list",
  GetService |-> "service_status", StartService |-> "service_start",
  StopService |-> "service_stop", RestartService |-> "service_restart",
  ReadLogs |-> "journal_read", PreviewCleanup |-> "cleanup_preview"]
UnsafeOf == [RunCleanup |-> "cleanup_run", Reboot |-> "reboot", Exec |-> "arbitrary_command"]

\* The cases of Dispatcher.Dispatch.
RunsTyped == {"process_list", "service_list", "service_status", "service_start",
              "service_stop", "service_restart", "journal_read"}
RunsUnsafe == {"arbitrary_command", "reboot"}

-----------------------------------------------------------------------------
(* Limits.                                                                 *)

LimitFields == {"message_bytes", "output_bytes", "output_chunk_bytes", "metrics",
  "labels_per_metric", "capabilities", "queue_depth", "reason_bytes", "command_bytes",
  "unit_bytes", "path_bytes", "job_timeout_seconds", "ssh_ttl_seconds", "page_size"}
Lowered == {"message_bytes", "queue_depth", "capabilities"}

\* One field of negotiate: an agent's zero is no wish.
Negotiated(field, server, agent) ==
  IF field \in Lowered /\ agent > 0 /\ agent < server THEN agent ELSE server

\* The depth of the session's queue is the server's, whatever was negotiated.
QueueDepth(server) == IF server = 0 THEN 1 ELSE server

-----------------------------------------------------------------------------
(* Facts, evaluated by every run of a module on top.                       *)

\* The literals of the SQL are the states the queries are about.
ASSUME LiteralsMeanStates ==
  /\ ResultTakes = OutputWaits /\ CancelTakes = OutputWaits
  /\ PortHeld = {SshSessionState.preparing, SshSessionState.ready}
  /\ ReadyWrites = SshSessionState.ready /\ CloseWrites = SshSessionState.closed
  /\ ReconcileWrites = SshSessionState.expired

\* A reported job takes no second result, and its output can be read; so can that of a job
\* that was never queued.
ASSUME ReportsAreFinal == (AgentReports \cup {NotQueued}) \cap (ResultTakes \cup OutputWaits) = {}

\* A job that was rejected or never queued is not final for CancelJob, which answers
\* "cancelled" although the row stays as it is.
ASSUME CancelledInNameOnly ==
  AgentReports \cup {NotQueued} = CancelFinal \cup {JobState.rejected, JobState.unknown_result}

\* Everything the agent sends is read.  Of the validator's messages the accepted connection,
\* with its limits, and every cancellation are dropped; output chunks and cancel
\* acknowledgements are declared and never sent.
ASSUME SentIsRead ==
  /\ AgentSends \subseteq ValidatorReads
  /\ ValidatorSends \ AgentReads = {"connection", "cancel"}
  /\ AgentPayloads \ AgentSends = {"output", "cancel_ack"}
  /\ ValidatorSends = ValidatorPayloads

\* Two operations the validator queues jobs for are rejected by every agent: those of cleanup.
ASSUME AskedIsRun ==
  LET safe == {SafeOf[m] : m \in DOMAIN SafeOf}
      unsafe == {UnsafeOf[m] : m \in DOMAIN UnsafeOf}
  IN /\ safe \subseteq TypedOperation /\ unsafe = UnsafeOperation
     /\ safe \ RunsTyped = {"cleanup_preview"}
     /\ unsafe \ RunsUnsafe = {"cleanup_run"}

\* "never higher values" (limits.go): whatever the agent asks for, no limit rises.
ASSUME NegotiatedNeverHigher ==
  \A f \in LimitFields, server, agent \in 0..3 :
    /\ Negotiated(f, server, agent) <= server
    /\ agent = 0 => Negotiated(f, server, agent) = server
=============================================================================
