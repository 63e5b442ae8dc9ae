--------------------------- MODULE PanelMigration ---------------------------
(***************************************************************************)
(* Moving a service between two EasyPanel panels: the client's `easypanel  *)
(* SRC migrate --to-agent DST` (clientapi/client.go), the easypanel-migrate*)
(* command the agent runs (cmd/easypanel-migrate, internal/easypanel), and *)
(* what the panels do, which other people use meanwhile.                   *)
(*                                                                         *)
(* All migrations want the same service of the same project on the target: *)
(* two operators, or one who tries again.                                  *)
(***************************************************************************)
EXTENDS Naturals, FiniteSets

CONSTANTS
  Migrations,  \* `easypanel migrate` commands of clients
  MaxEdits,    \* bound on what others change on the panels
  Nobody       \* no service; somebody else's service is Somebody

ASSUME MigrationAssumption == Nobody \notin Migrations /\ MaxEdits \in Nat

VARIABLES
  overwrite, \* migrations with --overwrite-remote-service
  client,    \* where the client's command is, or what it printed
  token,     \* the target panel's token, or what was printed in its place
  job,       \* the row of the job that runs easypanel-migrate
  tool,      \* where easypanel-migrate is
  seen,      \* the target's service when the preflight inspected it
  transfer,  \* what the source panel does about it
  source,    \* the service exists on the source panel
  project,   \* the project exists on the target panel
  service,   \* whose the service on the target panel is
  changes,   \* changes others have made
  replaced   \* history: what a transfer replaced, and whether the tool had seen it

tools == <<overwrite, client, token, job, tool, seen>>
panels == <<transfer, source, project, service, changes, replaced>>
migrationVars == <<tools, panels>>

-----------------------------------------------------------------------------
Somebody == "somebody"

MigrationInit ==
  /\ overwrite \in SUBSET Migrations
  /\ client = [m \in Migrations |-> "new"]
  /\ token = [m \in Migrations |-> "none"]
  /\ job = [m \in Migrations |-> "none"]
  /\ tool = [m \in Migrations |-> "new"]
  /\ seen = [m \in Migrations |-> Nobody]
  /\ transfer = [m \in Migrations |-> "none"]
  /\ source \in BOOLEAN /\ project \in BOOLEAN
  /\ service \in IF project THEN {Nobody, Somebody} ELSE {Nobody}
  /\ changes = 0
  /\ replaced = [m \in Migrations |-> "nothing"]

Client(m, from, to) == client[m] = from /\ client' = [client EXCEPT ![m] = to]
Tool(m, from, to) == tool[m] = from /\ tool' = [tool EXCEPT ![m] = to]

-----------------------------------------------------------------------------
(* Reading from a panel: GET or POST, whichever it takes; 405 is no.       *)

FirstMethod(major, minor) ==
  IF major > 2 \/ (major = 2 /\ minor >= 32) THEN "POST" ELSE "GET"

\* trpcQuery: the method of the last success first, then the other one.
Query(cached, takes) ==
  LET first == IF cached = "" THEN "GET" ELSE cached
      second == IF first = "POST" THEN "GET" ELSE "POST"
  IN IF first \in takes THEN [ok |-> TRUE, method |-> first, calls |-> 1]
     ELSE IF second \in takes THEN [ok |-> TRUE, method |-> second, calls |-> 2]
     ELSE [ok |-> FALSE, method |-> cached, calls |-> 2]

\* A panel that takes either is read at the first or the second call, whatever was cached
\* and whatever an update of it changed; after that, and when the version told, at the first.
ASSUME QueryFindsMethod ==
  /\ \A cached \in {"", "GET", "POST"}, takes \in SUBSET {"GET", "POST"} :
       LET once == Query(cached, takes) IN
       /\ once.ok <=> takes # {}
       /\ once.ok => once.method \in takes /\ Query(once.method, takes).calls = 1
  /\ Query(FirstMethod(2, 30), {"GET"}).calls = 1 /\ Query(FirstMethod(2, 32), {"POST"}).calls = 1

-----------------------------------------------------------------------------
(* The client.                                                             *)

\* resolveRemotePanel: `detect` on the target agent names a panel.
Detects(m) ==
  /\ Client(m, "new", "detected")
  /\ UNCHANGED <<overwrite, token, job, tool, seen, panels>>

\* `token` on the target agent.  The output is taken for the token whatever the exit code
\* was, an error message too; an empty one is refused.
ReadsToken(m) ==
  /\ Client(m, "detected", "resolved")
  /\ \E printed \in {"token", "message"} : token' = [token EXCEPT ![m] = printed]
  /\ UNCHANGED <<overwrite, job, tool, seen, panels>>

\* execCaptureT: the Exec call; with --detach that is all.
Execs(m) ==
  /\ Client(m, "resolved", "detached") \/ Client(m, "resolved", "following")
  /\ job' = [job EXCEPT ![m] = "dispatched"]
  /\ UNCHANGED <<overwrite, token, tool, seen, panels>>

\* No panel there, no output in time, --timeout beyond what the validator takes, offline.
ClientFails(m) ==
  /\ client[m] \in {"new", "detected", "resolved"}
  /\ client' = [client EXCEPT ![m] = "refused"]
  /\ UNCHANGED <<overwrite, token, job, tool, seen, panels>>

\* Variant: the first answer is taken for the output.
FollowsOnce(m) ==
  /\ client[m] = "following" /\ job[m] # "none"
  /\ client' = [client EXCEPT ![m] = IF job[m] = "failed" THEN "said failed" ELSE "said ok"]
  /\ UNCHANGED <<overwrite, token, job, tool, seen, panels>>

\* jobOutputUntil asks again while the job is dispatched; the output says ok or an error.
Follows(m) ==
  /\ client[m] = "following" /\ job[m] \in {"ok", "failed"}
  /\ client' = [client EXCEPT ![m] = IF job[m] = "ok" THEN "said ok" ELSE "said failed"]
  /\ UNCHANGED <<overwrite, token, job, tool, seen, panels>>

\* The job's own timeout and ten seconds have passed, or the operator has had enough: the
\* job goes on.
FollowEnds(m) ==
  /\ Client(m, "following", "gave up")
  /\ UNCHANGED <<overwrite, token, job, tool, seen, panels>>

\* `easypanel AGENT job ID`, any time later.
AsksAgain(m) ==
  /\ client[m] \in {"detached", "gave up"} /\ job[m] \in {"ok", "failed"}
  /\ client' = [client EXCEPT ![m] = IF job[m] = "ok" THEN "said ok" ELSE "said failed"]
  /\ UNCHANGED <<overwrite, token, job, tool, seen, panels>>

-----------------------------------------------------------------------------
(* easypanel-migrate                                                       *)

\* The job may never reach the agent.  DetectAndToken: docker, the panel's version and its
\* token.
Starts(m) ==
  /\ job[m] = "dispatched" /\ Tool(m, "new", "started")
  /\ UNCHANGED <<overwrite, client, token, job, seen, panels>>

\* Preflight 1 and 2: the service is in the source panel's project.
InspectsSource(m) ==
  /\ source /\ Tool(m, "started", "source ok")
  /\ UNCHANGED <<overwrite, client, token, job, seen, panels>>

\* 3: the target's project, seen with its services.
InspectsTarget(m) ==
  /\ token[m] = "token" /\ project /\ Tool(m, "source ok", "inspected")
  /\ seen' = [seen EXCEPT ![m] = service]
  /\ UNCHANGED <<overwrite, client, token, job, panels>>

\* There is none, or somebody on the way answered 404, and it may be created: a second call,
\* which fails when the project is there.
MissesProject(m) ==
  /\ token[m] = "token" /\ Tool(m, "source ok", "creating")
  /\ UNCHANGED <<overwrite, client, token, job, seen, panels>>

CreatesProject(m) ==
  /\ ~project /\ Tool(m, "creating", "inspected")
  /\ project' = TRUE
  /\ UNCHANGED <<overwrite, client, token, job, seen, transfer, source, service, changes, replaced>>

\* Variant: what it saw does not matter.
MigratesAnyway(m) ==
  /\ Tool(m, "inspected", "waiting")
  /\ transfer' = [transfer EXCEPT ![m] = "running"]
  /\ UNCHANGED <<overwrite, client, token, job, seen, source, project, service, changes, replaced>>

\* 4: the name was free, or may be overwritten.  Run posts /api/migrate-service.
Migrates(m) ==
  /\ seen[m] = Nobody \/ m \in overwrite
  /\ Tool(m, "inspected", "waiting")
  /\ transfer' = [transfer EXCEPT ![m] = "running"]
  /\ UNCHANGED <<overwrite, client, token, job, seen, source, project, service, changes, replaced>>

\* A status of 2xx without "success": false.
Reports(m) ==
  /\ transfer[m] = "done" /\ Tool(m, "waiting", "ok")
  /\ UNCHANGED <<overwrite, client, token, job, seen, panels>>

\* A check fails, a panel answers with an error, its answer takes more than the HTTP client's
\* 60 seconds, or the command runs out of its five minutes.  A project it created stays.
ToolFails(m) ==
  /\ tool[m] \in {"started", "source ok", "creating", "inspected", "waiting"}
  /\ tool' = [tool EXCEPT ![m] = "failed"]
  /\ UNCHANGED <<overwrite, client, token, job, seen, panels>>

\* The agent reports the job; when its stream has broken the row stays as it is.
JobEnds(m) ==
  /\ job[m] = "dispatched" /\ tool[m] \in {"ok", "failed"}
  /\ job' = [job EXCEPT ![m] = tool[m]]
  /\ UNCHANGED <<overwrite, client, token, tool, seen, panels>>

-----------------------------------------------------------------------------
(* The panels.                                                             *)

\* The source panel pushes the service; it does not ask whether there is one, and goes on
\* when nobody waits for it any more.
Transfers(m) ==
  /\ transfer[m] = "running" /\ source /\ project
  /\ transfer' = [transfer EXCEPT ![m] = "done"]
  /\ service' = m
  /\ replaced' = [replaced EXCEPT ![m] = IF service = Nobody THEN "nothing"
                                         ELSE IF service = seen[m] THEN "seen" ELSE "later"]
  /\ UNCHANGED <<tools, source, project, changes>>

TransferFails(m) ==
  /\ transfer[m] = "running"
  /\ transfer' = [transfer EXCEPT ![m] = "failed"]
  /\ UNCHANGED <<tools, source, project, service, changes, replaced>>

\* Somebody creates or removes a service or a project.
Edits ==
  /\ changes < MaxEdits /\ changes' = changes + 1
  /\ \/ source' = ~source /\ UNCHANGED <<project, service>>
     \/ project /\ service = Nobody /\ service' = Somebody /\ UNCHANGED <<source, project>>
     \/ service # Nobody /\ service' = Nobody /\ UNCHANGED <<source, project>>
     \/ project' = ~project /\ service' = Nobody /\ UNCHANGED source
  /\ UNCHANGED <<tools, transfer, replaced>>

-----------------------------------------------------------------------------
MigrationNext ==
  \/ Edits
  \/ \E m \in Migrations :
       \/ Detects(m) \/ ReadsToken(m) \/ Execs(m) \/ ClientFails(m) \/ Follows(m)
       \/ FollowEnds(m) \/ AsksAgain(m) \/ Starts(m) \/ InspectsSource(m) \/ InspectsTarget(m)
       \/ MissesProject(m) \/ CreatesProject(m) \/ Migrates(m) \/ Reports(m) \/ ToolFails(m)
       \/ JobEnds(m) \/ Transfers(m) \/ TransferFails(m)

MigrationSpec == MigrationInit /\ [][MigrationNext]_migrationVars
-----------------------------------------------------------------------------
(* Properties.                                                             *)

\* "remote service name is free (unless overwrite allowed)" (preflight.go): without the
\* option a migration replaces no service that was there when it looked; one that came after
\* that, another migration's too, it does replace.
OverwritesOnlyWhatCameLater ==
  \A m \in Migrations :
    replaced[m] = "seen" => m \in overwrite

\* What the operator is told: ok only when the panel had transferred the service, whoever
\* followed, gave up or asked again; and a panel is never asked by a run whose token was a
\* message or that found a check failing.
SaidOkIsTransferred ==
  \A m \in Migrations :
    /\ client[m] = "said ok" => transfer[m] = "done"
    /\ transfer[m] # "none" => token[m] = "token" /\ job[m] # "none"
    /\ tool[m] = "ok" => transfer[m] = "done"
=============================================================================
