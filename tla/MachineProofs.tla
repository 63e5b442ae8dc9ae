---------------------------- MODULE MachineProofs ----------------------------
(***************************************************************************)
(* Theorems about the parts of MCMachines that have no module of proofs of *)
(* their own: PanelMigration, Host, Dashboard, MetricsPipeline and         *)
(* Readings.  Each part has its own specification and its own inductive    *)
(* invariant; they share nothing but this file.                            *)
(***************************************************************************)
EXTENDS PanelMigration, Host, Dashboard, MetricsPipeline, Readings,
  FiniteSetTheorems, NaturalsInduction, WellFoundedInduction, TLAPS

-----------------------------------------------------------------------------
(* PanelMigration.                                                         *)

\* The places of PanelMigration's client and tool.
ClientStates == {"new", "detected", "resolved", "refused", "detached", "following", "gave up",
                 "said ok", "said failed"}
ToolStates == {"new", "started", "source ok", "creating", "inspected", "waiting", "ok", "failed"}

\* Values of what belongs to a migration.
MigrationTypes ==
  /\ overwrite \subseteq Migrations
  /\ client \in [Migrations -> ClientStates]
  /\ token \in [Migrations -> {"none", "token", "message"}]
  /\ job \in [Migrations -> {"none", "dispatched", "ok", "failed"}]
  /\ tool \in [Migrations -> ToolStates]
  /\ seen \in [Migrations -> {Nobody, Somebody} \cup Migrations]
  /\ transfer \in [Migrations -> {"none", "running", "done", "failed"}]
  /\ service \in {Nobody, Somebody} \cup Migrations
  /\ replaced \in [Migrations -> {"nothing", "seen", "later"}]

\* The order of a migration's steps: until the client has its job there is none, no tool runs
\* before the job is there, no panel is asked before the tool has made its checks with a real
\* token, and ok comes back from the panel through the tool and the job to the client.
MigrationOrder(m) ==
  /\ client[m] \in {"new", "detected", "resolved", "refused"} => job[m] = "none"
  /\ tool[m] # "new" => job[m] # "none"
  /\ tool[m] \in {"creating", "inspected", "waiting", "ok"} => token[m] = "token"
  /\ transfer[m] # "none" =>
       /\ tool[m] \in {"waiting", "ok", "failed"}
       /\ seen[m] = Nobody \/ m \in overwrite
       /\ token[m] = "token"
  /\ tool[m] = "ok" => transfer[m] = "done"
  /\ job[m] = "ok" => tool[m] = "ok"
  /\ client[m] = "said ok" => transfer[m] = "done"
  /\ replaced[m] = "seen" => m \in overwrite

\* The inductive invariant of the migrations.
MigrationInvariant == MigrationTypes /\ \A m \in Migrations : MigrationOrder(m)

\* It holds before the tool has asked for anything.
LEMMA MigrationStarts == MigrationInit => MigrationInvariant
  BY DEF MigrationInit, MigrationInvariant, MigrationTypes, MigrationOrder, ClientStates, ToolStates

\* Every step keeps the values.
LEMMA MigrationKeepsTypes ==
  MigrationInvariant /\ [MigrationNext]_migrationVars => MigrationTypes'
  <1> SUFFICES ASSUME MigrationInvariant, [MigrationNext]_migrationVars PROVE MigrationTypes'
    OBVIOUS
  <1> USE DEF MigrationInvariant, MigrationTypes, ClientStates, ToolStates, migrationVars, tools, panels
  <1>1. CASE UNCHANGED migrationVars
    BY <1>1
  <1>2. CASE Edits
    BY <1>2 DEF Edits
  <1>3. ASSUME NEW m \in Migrations,
               \/ Detects(m) \/ ReadsToken(m) \/ Execs(m) \/ ClientFails(m) \/ Follows(m)
               \/ FollowEnds(m) \/ AsksAgain(m) \/ Starts(m) \/ InspectsSource(m) \/ InspectsTarget(m)
               \/ MissesProject(m) \/ CreatesProject(m) \/ Migrates(m) \/ Reports(m) \/ ToolFails(m)
               \/ JobEnds(m) \/ Transfers(m) \/ TransferFails(m)
        PROVE MigrationTypes'
    <2>1. CASE Detects(m)
      BY <2>1 DEF Detects, Client
    <2>2. CASE ReadsToken(m)
      <3>1. PICK printed \in {"token", "message"} : token' = [token EXCEPT ![m] = printed]
        BY <2>2 DEF ReadsToken
      <3> QED
        BY <2>2, <3>1 DEF ReadsToken, Client
    <2>3. CASE Execs(m)
      BY <2>3 DEF Execs, Client
    <2>4. CASE ClientFails(m)
      BY <2>4 DEF ClientFails
    <2>5. CASE Follows(m)
      BY <2>5 DEF Follows
    <2>6. CASE FollowEnds(m)
      BY <2>6 DEF FollowEnds, Client
    <2>7. CASE AsksAgain(m)
      BY <2>7 DEF AsksAgain
    <2>8. CASE Starts(m)
      BY <2>8 DEF Starts, Tool
    <2>9. CASE InspectsSource(m)
      BY <2>9 DEF InspectsSource, Tool
    <2>10. CASE InspectsTarget(m)
      BY <2>10 DEF InspectsTarget, Tool
    <2>11. CASE MissesProject(m)
      BY <2>11 DEF MissesProject, Tool
    <2>12. CASE CreatesProject(m)
      BY <2>12 DEF CreatesProject, Tool
    <2>13. CASE Migrates(m)
      BY <2>13 DEF Migrates, Tool
    <2>14. CASE Reports(m)
      BY <2>14 DEF Reports, Tool
    <2>15. CASE ToolFails(m)
      BY <2>15 DEF ToolFails
    <2>16. CASE JobEnds(m)
      BY <2>16 DEF JobEnds
    <2>17. CASE Transfers(m)
      BY <2>17 DEF Transfers
    <2>18. CASE TransferFails(m)
      BY <2>18 DEF TransferFails
    <2> QED
      BY <1>3, <2>1, <2>2, <2>3, <2>4, <2>5, <2>6, <2>7, <2>8, <2>9,
         <2>10, <2>11, <2>12, <2>13, <2>14, <2>15, <2>16, <2>17, <2>18
  <1> QED
    BY <1>1, <1>2, <1>3 DEF MigrationNext

\* A step of one migration leaves what belongs to the others.
LEMMA MigrationsApart ==
  ASSUME MigrationTypes, NEW m \in Migrations, NEW n \in Migrations \ {m},
         \/ Detects(m) \/ ReadsToken(m) \/ Execs(m) \/ ClientFails(m) \/ Follows(m)
         \/ FollowEnds(m) \/ AsksAgain(m) \/ Starts(m) \/ InspectsSource(m) \/ InspectsTarget(m)
         \/ MissesProject(m) \/ CreatesProject(m) \/ Migrates(m) \/ Reports(m) \/ ToolFails(m)
         \/ JobEnds(m) \/ Transfers(m) \/ TransferFails(m)
  PROVE  /\ client'[n] = client[n] /\ token'[n] = token[n] /\ job'[n] = job[n]
         /\ tool'[n] = tool[n] /\ seen'[n] = seen[n] /\ transfer'[n] = transfer[n]
         /\ replaced'[n] = replaced[n] /\ overwrite' = overwrite
  <1> USE DEF MigrationTypes, tools, panels
  <1>1. CASE Detects(m)
    BY <1>1 DEF Detects, Client
  <1>2. CASE ReadsToken(m)
    BY <1>2 DEF ReadsToken, Client
  <1>3. CASE Execs(m)
    BY <1>3 DEF Execs, Client
  <1>4. CASE ClientFails(m)
    BY <1>4 DEF ClientFails
  <1>5. CASE Follows(m)
    BY <1>5 DEF Follows
  <1>6. CASE FollowEnds(m)
    BY <1>6 DEF FollowEnds, Client
  <1>7. CASE AsksAgain(m)
    BY <1>7 DEF AsksAgain
  <1>8. CASE Starts(m)
    BY <1>8 DEF Starts, Tool
  <1>9. CASE InspectsSource(m)
    BY <1>9 DEF InspectsSource, Tool
  <1>10. CASE InspectsTarget(m)
    BY <1>10 DEF InspectsTarget, Tool
  <1>11. CASE MissesProject(m)
    BY <1>11 DEF MissesProject, Tool
  <1>12. CASE CreatesProject(m)
    BY <1>12 DEF CreatesProject, Tool
  <1>13. CASE Migrates(m)
    BY <1>13 DEF Migrates, Tool
  <1>14. CASE Reports(m)
    BY <1>14 DEF Reports, Tool
  <1>15. CASE ToolFails(m)
    BY <1>15 DEF ToolFails
  <1>16. CASE JobEnds(m)
    BY <1>16 DEF JobEnds
  <1>17. CASE Transfers(m)
    BY <1>17 DEF Transfers
  <1>18. CASE TransferFails(m)
    BY <1>18 DEF TransferFails
  <1> QED
    BY <1>1, <1>2, <1>3, <1>4, <1>5, <1>6, <1>7, <1>8, <1>9,
       <1>10, <1>11, <1>12, <1>13, <1>14, <1>15, <1>16, <1>17, <1>18

\* Every step keeps the order, of its own migration and of the others.
LEMMA MigrationKeepsOrder ==
  MigrationInvariant /\ [MigrationNext]_migrationVars => \A n \in Migrations : MigrationOrder(n)'
  <1> SUFFICES ASSUME MigrationInvariant, [MigrationNext]_migrationVars, NEW n \in Migrations
               PROVE MigrationOrder(n)'
    OBVIOUS
  <1>0. MigrationTypes /\ MigrationOrder(n)
    BY DEF MigrationInvariant
  <1>1. CASE UNCHANGED migrationVars
    BY <1>0, <1>1 DEF MigrationOrder, migrationVars, tools, panels
  <1>2. CASE Edits
    BY <1>0, <1>2 DEF Edits, MigrationOrder, tools
  <1>3. ASSUME NEW m \in Migrations \ {n},
               \/ Detects(m) \/ ReadsToken(m) \/ Execs(m) \/ ClientFails(m) \/ Follows(m)
               \/ FollowEnds(m) \/ AsksAgain(m) \/ Starts(m) \/ InspectsSource(m) \/ InspectsTarget(m)
               \/ MissesProject(m) \/ CreatesProject(m) \/ Migrates(m) \/ Reports(m) \/ ToolFails(m)
               \/ JobEnds(m) \/ Transfers(m) \/ TransferFails(m)
        PROVE MigrationOrder(n)'
    BY <1>0, <1>3, MigrationsApart DEF MigrationOrder
  <1>4. ASSUME NEW m \in Migrations, m = n,
               \/ Detects(m) \/ ReadsToken(m) \/ Execs(m) \/ ClientFails(m) \/ Follows(m)
               \/ FollowEnds(m) \/ AsksAgain(m) \/ Starts(m) \/ InspectsSource(m) \/ InspectsTarget(m)
               \/ MissesProject(m) \/ CreatesProject(m) \/ Migrates(m) \/ Reports(m) \/ ToolFails(m)
               \/ JobEnds(m) \/ Transfers(m) \/ TransferFails(m)
        PROVE MigrationOrder(m)'
    <2> USE <1>0, <1>4 DEF MigrationTypes, tools, panels
    <2>1. CASE Detects(m)
      <3>1. client[m] = "new"
        BY <2>1 DEF Detects, Client
      <3>2. client'[m] = "detected"
        BY <2>1 DEF Detects, Client
      <3>3. UNCHANGED <<token, job, tool, seen, transfer, replaced, overwrite>>
        BY <2>1 DEF Detects
      <3> QED
        BY <3>1, <3>2, <3>3 DEF MigrationOrder
    <2>2. CASE ReadsToken(m)
      <3> PICK printed \in {"token", "message"} : token' = [token EXCEPT ![m] = printed]
        BY <2>2 DEF ReadsToken
      <3>1. client[m] = "detected"
        BY <2>2 DEF ReadsToken, Client
      <3>2. client'[m] = "resolved" /\ token'[m] = printed
        BY <2>2 DEF ReadsToken, Client
      <3>3. UNCHANGED <<job, tool, seen, transfer, replaced, overwrite>>
        BY <2>2 DEF ReadsToken
      <3> QED
        BY <3>1, <3>2, <3>3 DEF MigrationOrder
    <2>3. CASE Execs(m)
      <3> PICK to \in {"detached", "following"} : Client(m, "resolved", to)
        BY <2>3 DEF Execs
      <3>1. client[m] = "resolved"
        BY <2>3 DEF Execs, Client
      <3>2. client'[m] = to /\ job'[m] = "dispatched"
        BY <2>3 DEF Execs, Client
      <3>3. UNCHANGED <<token, tool, seen, transfer, replaced, overwrite>>
        BY <2>3 DEF Execs
      <3> QED
        BY <3>1, <3>2, <3>3 DEF MigrationOrder
    <2>4. CASE ClientFails(m)
      <3>1. client[m] \in {"new", "detected", "resolved"}
        BY <2>4 DEF ClientFails
      <3>2. client'[m] = "refused"
        BY <2>4 DEF ClientFails
      <3>3. UNCHANGED <<token, job, tool, seen, transfer, replaced, overwrite>>
        BY <2>4 DEF ClientFails
      <3> QED
        BY <3>1, <3>2, <3>3 DEF MigrationOrder
    <2>5. CASE Follows(m)
      <3>1. job[m] \in {"ok", "failed"} /\ client[m] = "following"
        BY <2>5 DEF Follows
      <3>2. client'[m] = (IF job[m] = "ok" THEN "said ok" ELSE "said failed")
        BY <2>5 DEF Follows
      <3>3. UNCHANGED <<token, job, tool, seen, transfer, replaced, overwrite>>
        BY <2>5 DEF Follows
      <3> QED
        BY <3>1, <3>2, <3>3 DEF MigrationOrder
    <2>6. CASE FollowEnds(m)
      <3>1. client[m] = "following"
        BY <2>6 DEF FollowEnds, Client
      <3>2. client'[m] = "gave up"
        BY <2>6 DEF FollowEnds, Client
      <3>3. UNCHANGED <<token, job, tool, seen, transfer, replaced, overwrite>>
        BY <2>6 DEF FollowEnds
      <3> QED
        BY <3>1, <3>2, <3>3 DEF MigrationOrder
    <2>7. CASE AsksAgain(m)
      <3>1. job[m] \in {"ok", "failed"} /\ client[m] \in {"detached", "gave up"}
        BY <2>7 DEF AsksAgain
      <3>2. client'[m] = (IF job[m] = "ok" THEN "said ok" ELSE "said failed")
        BY <2>7 DEF AsksAgain
      <3>3. UNCHANGED <<token, job, tool, seen, transfer, replaced, overwrite>>
        BY <2>7 DEF AsksAgain
      <3> QED
        BY <3>1, <3>2, <3>3 DEF MigrationOrder
    <2>8. CASE Starts(m)
      <3>1. tool[m] = "new" /\ job[m] = "dispatched"
        BY <2>8 DEF Starts, Tool
      <3>2. tool'[m] = "started"
        BY <2>8 DEF Starts, Tool
      <3>3. UNCHANGED <<client, token, job, seen, transfer, replaced, overwrite>>
        BY <2>8 DEF Starts
      <3> QED
        BY <3>1, <3>2, <3>3 DEF MigrationOrder
    <2>9. CASE InspectsSource(m)
      <3>1. tool[m] = "started"
        BY <2>9 DEF InspectsSource, Tool
      <3>2. tool'[m] = "source ok"
        BY <2>9 DEF InspectsSource, Tool
      <3>3. UNCHANGED <<client, token, job, seen, transfer, replaced, overwrite>>
        BY <2>9 DEF InspectsSource
      <3> QED
        BY <3>1, <3>2, <3>3 DEF MigrationOrder
    <2>10. CASE InspectsTarget(m)
      <3>1. tool[m] = "source ok" /\ token[m] = "token"
        BY <2>10 DEF InspectsTarget, Tool
      <3>2. tool'[m] = "inspected" /\ seen'[m] = service
        BY <2>10 DEF InspectsTarget, Tool
      <3>3. UNCHANGED <<client, token, job, transfer, replaced, overwrite>>
        BY <2>10 DEF InspectsTarget
      <3> QED
        BY <3>1, <3>2, <3>3 DEF MigrationOrder
    <2>11. CASE MissesProject(m)
      <3>1. tool[m] = "source ok" /\ token[m] = "token"
        BY <2>11 DEF MissesProject, Tool
      <3>2. tool'[m] = "creating"
        BY <2>11 DEF MissesProject, Tool
      <3>3. UNCHANGED <<client, token, job, seen, transfer, replaced, overwrite>>
        BY <2>11 DEF MissesProject
      <3> QED
        BY <3>1, <3>2, <3>3 DEF MigrationOrder
    <2>12. CASE CreatesProject(m)
      <3>1. tool[m] = "creating"
        BY <2>12 DEF CreatesProject, Tool
      <3>2. tool'[m] = "inspected"
        BY <2>12 DEF CreatesProject, Tool
      <3>3. UNCHANGED <<client, token, job, seen, transfer, replaced, overwrite>>
        BY <2>12 DEF CreatesProject
      <3> QED
        BY <3>1, <3>2, <3>3 DEF MigrationOrder
    <2>13. CASE Migrates(m)
      <3>1. tool[m] = "inspected" /\ (seen[m] = Nobody \/ m \in overwrite)
        BY <2>13 DEF Migrates, Tool
      <3>2. tool'[m] = "waiting" /\ transfer'[m] = "running"
        BY <2>13 DEF Migrates, Tool
      <3>3. UNCHANGED <<client, token, job, seen, replaced, overwrite>>
        BY <2>13 DEF Migrates
      <3> QED
        BY <3>1, <3>2, <3>3 DEF MigrationOrder
    <2>14. CASE Reports(m)
      <3>1. tool[m] = "waiting" /\ transfer[m] = "done"
        BY <2>14 DEF Reports, Tool
      <3>2. tool'[m] = "ok"
        BY <2>14 DEF Reports, Tool
      <3>3. UNCHANGED <<client, token, job, seen, transfer, replaced, overwrite>>
        BY <2>14 DEF Reports
      <3> QED
        BY <3>1, <3>2, <3>3 DEF MigrationOrder
    <2>15. CASE ToolFails(m)
      <3>1. tool[m] \in {"started", "source ok", "creating", "inspected", "waiting"}
        BY <2>15 DEF ToolFails
      <3>2. tool'[m] = "failed"
        BY <2>15 DEF ToolFails
      <3>3. UNCHANGED <<client, token, job, seen, transfer, replaced, overwrite>>
        BY <2>15 DEF ToolFails
      <3> QED
        BY <3>1, <3>2, <3>3 DEF MigrationOrder
    <2>16. CASE JobEnds(m)
      <3>1. job[m] = "dispatched" /\ tool[m] \in {"ok", "failed"}
        BY <2>16 DEF JobEnds
      <3>2. job'[m] = tool[m]
        BY <2>16 DEF JobEnds
      <3>3. UNCHANGED <<client, token, tool, seen, transfer, replaced, overwrite>>
        BY <2>16 DEF JobEnds
      <3> QED
        BY <3>1, <3>2, <3>3 DEF MigrationOrder
    <2>17. CASE Transfers(m)
      <3>1. transfer[m] = "running"
        BY <2>17 DEF Transfers
      <3>2. transfer'[m] = "done"
        BY <2>17 DEF Transfers
      <3>3. UNCHANGED <<client, token, job, tool, seen, overwrite>>
        BY <2>17 DEF Transfers
      <3>4. replaced'[m] = "seen" => service # Nobody /\ service = seen[m]
        BY <2>17 DEF Transfers
      <3>5. replaced'[m] = "seen" => m \in overwrite
        BY <3>1, <3>4 DEF MigrationOrder
      <3> QED
        BY <3>1, <3>2, <3>3, <3>5 DEF MigrationOrder
    <2>18. CASE TransferFails(m)
      <3>1. transfer[m] = "running"
        BY <2>18 DEF TransferFails
      <3>2. transfer'[m] = "failed"
        BY <2>18 DEF TransferFails
      <3>3. UNCHANGED <<client, token, job, tool, seen, replaced, overwrite>>
        BY <2>18 DEF TransferFails
      <3> QED
        BY <3>1, <3>2, <3>3 DEF MigrationOrder
    <2> QED
      BY <1>4, <2>1, <2>2, <2>3, <2>4, <2>5, <2>6, <2>7, <2>8, <2>9,
         <2>10, <2>11, <2>12, <2>13, <2>14, <2>15, <2>16, <2>17, <2>18
  <1> QED
    BY <1>1, <1>2, <1>3, <1>4 DEF MigrationNext

\* The inductive invariant of PanelMigration holds in every reachable state.
THEOREM MigrationInvariantAlways == MigrationSpec => []MigrationInvariant
  <1>1. MigrationInvariant /\ [MigrationNext]_migrationVars => MigrationInvariant'
    BY MigrationKeepsTypes, MigrationKeepsOrder DEF MigrationInvariant
  <1> QED
    BY MigrationStarts, <1>1, PTL DEF MigrationSpec

\* OverwritesOnlyWhatCameLater holds in every reachable state: without the option a migration
\* never replaces the service its preflight saw.
THEOREM OverwritesAreAllowed == MigrationSpec => []OverwritesOnlyWhatCameLater
  <1>1. MigrationInvariant => OverwritesOnlyWhatCameLater
    BY DEF MigrationInvariant, MigrationOrder, OverwritesOnlyWhatCameLater
  <1> QED
    BY MigrationInvariantAlways, <1>1, PTL

\* SaidOkIsTransferred holds in every reachable state: an operator who reads ok has a service
\* that was transferred, and no panel is asked with an error message for a token.
THEOREM OkIsTransferred == MigrationSpec => []SaidOkIsTransferred
  <1>1. MigrationInvariant => SaidOkIsTransferred
    BY DEF MigrationInvariant, MigrationTypes, MigrationOrder, SaidOkIsTransferred
  <1> QED
    BY MigrationInvariantAlways, <1>1, PTL

-----------------------------------------------------------------------------
(* Host.                                                                   *)

\* The places of a command.
CommandStates == {"new", "storing", "waiting", "killed", "returned"}
CommandRecord == [at : CommandStates, by : {Nothing, "dispatcher", "executor"},
                  result : Results \cup {Nothing}]

\* Values of what belongs to a command.
HostTypes ==
  /\ command \in [Commands -> CommandRecord]
  /\ group \in [Commands -> SUBSET Processes]
  /\ strays \in [Commands -> SUBSET {"child"}]
  /\ pipe \in [Commands -> SUBSET Processes]
  /\ DOMAIN output = Commands
  /\ context \in [Commands -> {"live", "timeout", "cancelled"}]
  /\ row \in [Commands -> {"none", "running"} \cup Results]
  /\ audited \subseteq Commands

\* What is there of a command: nothing before it is started, no leader and no writer after Run
\* has returned, nothing of the group once it was killed; whoever holds the pipe is alive.
CommandProcesses(r) ==
  /\ command[r].at \in {"new", "storing"} =>
       group[r] = {} /\ strays[r] = {} /\ output[r].written = 0
  /\ pipe[r] \subseteq Alive(r)
  /\ command[r].at = "killed" => group[r] = {}
  /\ command[r].at = "returned" => "leader" \notin group[r] /\ pipe[r] = {}
  /\ command[r].result \in {"timed_out", "cancelled"} => group[r] = {}
  /\ command[r].at = "returned" <=> command[r].result # Nothing

\* What the table says of it.
CommandRow(r) ==
  /\ command[r].at \in {"new", "storing"} => row[r] = "none"
  /\ row[r] # "none" => r \in audited
  /\ row[r] \notin {"none", "running"} => row[r] = command[r].result
  /\ command[r].by = "executor" /\ (Alive(r) # {} \/ output[r].written > 0) => r \in audited

\* The inductive invariant of the commands.
HostInvariant == HostTypes /\ \A r \in Commands : CommandProcesses(r) /\ CommandRow(r)

\* A consent is honoured when it is taken, and taken once.
ConsentInvariant ==
  /\ consent \in [Previews \cup Reboots -> {"none", "stored", "taken"}]
  /\ used \in [Previews \cup Reboots -> {0, 1}]
  /\ \A x \in Previews \cup Reboots : consent[x] # "taken" => used[x] = 0

\* They hold of a host that runs nothing and has granted nothing.
LEMMA HostStarts == HostInit => HostInvariant /\ ConsentInvariant
  BY DEF HostInit, HostInvariant, HostTypes, CommandProcesses, CommandRow, ConsentInvariant, CommandStates,
         CommandRecord, Results, Nothing, Alive

\* A step of the command r, as HostNext lists them.
CommandStep(r) ==
  \/ Reject(r) \/ Dispatch(r) \/ DispatchFails(r)
  \/ ExecuteBegins(r) \/ ExecuteCommits(r) \/ ExecuteRollsBack(r) \/ ExecuteLeaks(r)
  \/ LeakEnds(r) \/ ExecuteRecords(r)
  \/ Forks(r) \/ Leaves(r) \/ Writes(r) \/ RunReturns(r) \/ Kills(r) \/ KillReturns(r)
  \/ \E p \in Processes : ClosesOutput(r, p) \/ Ends(r, p)
  \/ \E how \in {"timeout", "cancelled"} : ContextEnds(r, how)

\* The other steps touch no command, and those of commands no consent.
LEMMA ConsentsApart ==
  ASSUME [HostNext]_hostVars
  PROVE  \/ \E r \in Commands : CommandStep(r)
         \/ UNCHANGED <<running, executor>>
  BY DEF HostNext, CommandStep, hostVars, StoresConsent, Expires, CleanupStops, CleanupTakes, CleanupRemoves,
         RebootConsumes

\* A step of a command touches no consent.
LEMMA CommandsApart ==
  ASSUME NEW r \in Commands, CommandStep(r)
  PROVE  UNCHANGED consents
  BY DEF CommandStep, Reject, Dispatch, DispatchFails, ExecuteBegins, ExecuteCommits, ExecuteRollsBack,
         ExecuteLeaks, LeakEnds, ExecuteRecords, Forks, Leaves, Writes, RunReturns, Kills, KillReturns,
         ClosesOutput, Ends, ContextEnds, StartsRun

\* What a step makes of a command is a command.
LEMMA CommandsMove ==
  ASSUME command \in [Commands -> CommandRecord], NEW r \in Commands, NEW at \in CommandStates,
         NEW by \in {Nothing, "dispatcher", "executor"}, NEW result \in Results \cup {Nothing}
  PROVE  /\ [command EXCEPT ![r] = [at |-> at, by |-> by, result |-> result]] \in [Commands -> CommandRecord]
         /\ [command EXCEPT ![r].at = at] \in [Commands -> CommandRecord]
         /\ [command EXCEPT ![r].at = at, ![r].by = by] \in [Commands -> CommandRecord]
         /\ [command EXCEPT ![r].at = at, ![r].result = result] \in [Commands -> CommandRecord]
  <1>1. [command EXCEPT ![r] = [at |-> at, by |-> by, result |-> result]] \in [Commands -> CommandRecord]
    BY DEF CommandRecord
  <1>2. [command EXCEPT ![r].at = at] \in [Commands -> CommandRecord]
    BY DEF CommandRecord
  <1>3. [command EXCEPT ![r].at = at, ![r].by = by] \in [Commands -> CommandRecord]
    BY DEF CommandRecord
  <1>4. [command EXCEPT ![r].at = at, ![r].result = result] \in [Commands -> CommandRecord]
    BY DEF CommandRecord
  <1> QED
    BY <1>1, <1>2, <1>3, <1>4

\* A step of a command keeps the values.
LEMMA CommandKeepsTypes ==
  HostInvariant => \A r \in Commands : CommandStep(r) => HostTypes'
  <1> SUFFICES ASSUME HostInvariant, NEW r \in Commands, CommandStep(r) PROVE HostTypes'
    OBVIOUS
  <1> USE DEF running, executor
  <1>t. HostTypes /\ command \in [Commands -> CommandRecord]
    BY DEF HostInvariant, HostTypes
  <1>s. /\ {"storing", "waiting", "killed", "returned"} \subseteq CommandStates
        /\ {"succeeded", "failed", "timed_out", "cancelled", "rejected"} \subseteq Results
    BY DEF CommandStates, Results
  <1>1. CASE Reject(r)
    <2>1. command' \in [Commands -> CommandRecord]
      BY <1>t, <1>s, <1>1, CommandsMove DEF Reject
    <2> QED
      BY <1>t, <1>1, <2>1 DEF HostTypes, Reject
  <1>2. CASE Dispatch(r)
    <2>1. command' \in [Commands -> CommandRecord]
      BY <1>t, <1>s, <1>2, CommandsMove DEF Dispatch, StartsRun
    <2> QED
      BY <1>t, <1>2, <2>1 DEF HostTypes, Dispatch, StartsRun, At, Processes
  <1>3. CASE DispatchFails(r)
    <2>1. PICK result \in {"failed", "cancelled"} :
             command' = [command EXCEPT ![r] = [at |-> "returned", by |-> "dispatcher", result |-> result]]
      BY <1>3 DEF DispatchFails
    <2>2. command' \in [Commands -> CommandRecord]
      BY <1>t, <1>s, <2>1, CommandsMove
    <2> QED
      BY <1>t, <1>3, <2>2 DEF HostTypes, DispatchFails
  <1>4. CASE ExecuteBegins(r)
    <2>1. command' \in [Commands -> CommandRecord]
      BY <1>t, <1>s, <1>4, CommandsMove DEF ExecuteBegins
    <2> QED
      BY <1>t, <1>4, <2>1 DEF HostTypes, ExecuteBegins, Processes
  <1>5. CASE ExecuteCommits(r)
    <2>1. command' \in [Commands -> CommandRecord]
      BY <1>t, <1>s, <1>5, CommandsMove DEF ExecuteCommits, StartsRun
    <2> QED
      BY <1>t, <1>5, <2>1 DEF HostTypes, ExecuteCommits, StartsRun, At, Processes
  <1>6. CASE ExecuteRollsBack(r)
    <2>1. command' \in [Commands -> CommandRecord]
      BY <1>t, <1>s, <1>6, CommandsMove DEF ExecuteRollsBack
    <2> QED
      BY <1>t, <1>6, <2>1 DEF HostTypes, ExecuteRollsBack, Processes
  <1>7. CASE ExecuteLeaks(r)
    <2>1. command' \in [Commands -> CommandRecord]
      BY <1>t, <1>s, <1>7, CommandsMove DEF ExecuteLeaks
    <2> QED
      BY <1>t, <1>7, <2>1 DEF HostTypes, ExecuteLeaks, Processes
  <1>8. CASE LeakEnds(r)
    BY <1>t, <1>8 DEF HostTypes, CommandRecord, CommandStates, Results, Nothing, Processes, LeakEnds
  <1>9. CASE ExecuteRecords(r)
    <2>1. command[r].result \in Results
      BY <1>t, <1>9 DEF ExecuteRecords, At, HostInvariant, CommandProcesses, CommandRecord
    <2> QED
      BY <1>t, <1>9, <2>1 DEF HostTypes, ExecuteRecords
  <1>10. CASE Forks(r)
    BY <1>t, <1>10 DEF HostTypes, CommandRecord, CommandStates, Results, Nothing, Processes, Forks, Alive
  <1>11. CASE Leaves(r)
    BY <1>t, <1>11 DEF HostTypes, CommandRecord, CommandStates, Results, Nothing, Processes, Leaves, Alive
  <1>12. CASE Writes(r)
    BY <1>t, <1>12 DEF HostTypes, CommandRecord, CommandStates, Results, Nothing, Processes, Writes
  <1>13. CASE RunReturns(r)
    <2>1. PICK result \in {"succeeded", "failed"} :
             command' = [command EXCEPT ![r].at = "returned", ![r].result = result]
      BY <1>13 DEF RunReturns
    <2>2. command' \in [Commands -> CommandRecord]
      BY <1>t, <1>s, <2>1, CommandsMove
    <2> QED
      BY <1>t, <1>13, <2>2 DEF HostTypes, RunReturns
  <1>14. CASE Kills(r)
    <2>1. command' \in [Commands -> CommandRecord]
      BY <1>t, <1>s, <1>14, CommandsMove DEF Kills
    <2> QED
      BY <1>t, <1>14, <2>1 DEF HostTypes, Kills, Processes
  <1>15. CASE KillReturns(r)
    <2>1. PICK result \in {"cancelled", "timed_out"} :
             command' = [command EXCEPT ![r].at = "returned", ![r].result = result]
      BY <1>15 DEF KillReturns, TimedOut
    <2>2. command' \in [Commands -> CommandRecord]
      BY <1>t, <1>s, <2>1, CommandsMove
    <2> QED
      BY <1>t, <1>15, <2>2 DEF HostTypes, KillReturns, Processes
  <1>16. ASSUME NEW p \in Processes, ClosesOutput(r, p) PROVE HostTypes'
    BY <1>t, <1>16 DEF HostTypes, Processes, ClosesOutput, Alive
  <1>17. ASSUME NEW p \in Processes, Ends(r, p) PROVE HostTypes'
    BY <1>t, <1>17 DEF HostTypes, Processes, Ends, Alive
  <1>18. ASSUME NEW how \in {"timeout", "cancelled"}, ContextEnds(r, how) PROVE HostTypes'
    BY <1>t, <1>18 DEF HostTypes, ContextEnds
  <1> QED
    BY <1>1, <1>2, <1>3, <1>4, <1>5, <1>6, <1>7, <1>8, <1>9,
       <1>10, <1>11, <1>12, <1>13, <1>14, <1>15, <1>16, <1>17, <1>18 DEF CommandStep

\* A step of a command keeps what is known of its processes and of the others'.
LEMMA CommandKeepsProcesses ==
  HostInvariant => \A r, s \in Commands : CommandStep(r) => CommandProcesses(s)'
  <1> SUFFICES ASSUME HostInvariant, NEW r \in Commands, CommandStep(r), NEW s \in Commands PROVE CommandProcesses(s)'
    OBVIOUS
  <1> USE DEF HostInvariant, HostTypes, CommandRecord, running, executor, Nothing, CommandProcesses, Alive, Results
  <1>1. CASE Reject(r)
    BY <1>1 DEF Reject, At
  <1>2. CASE Dispatch(r)
    BY <1>2 DEF Dispatch, StartsRun, At
  <1>3. CASE DispatchFails(r)
    BY <1>3 DEF DispatchFails, At
  <1>4. CASE ExecuteBegins(r)
    BY <1>4 DEF ExecuteBegins, At
  <1>5. CASE ExecuteCommits(r)
    BY <1>5 DEF ExecuteCommits, StartsRun, At
  <1>6. CASE ExecuteRollsBack(r)
    BY <1>6 DEF ExecuteRollsBack, At
  <1>7. CASE ExecuteLeaks(r)
    BY <1>7 DEF ExecuteLeaks, At
  <1>8. CASE LeakEnds(r)
    BY <1>8 DEF LeakEnds
  <1>9. CASE ExecuteRecords(r)
    BY <1>9 DEF ExecuteRecords, At
  <1>10. CASE Forks(r)
    BY <1>10 DEF Forks, Alive
  <1>11. CASE Leaves(r)
    BY <1>11 DEF Leaves, Alive
  <1>12. CASE Writes(r)
    BY <1>12 DEF Writes
  <1>13. CASE RunReturns(r)
    BY <1>13 DEF RunReturns, Waited, Alive, At
  <1>14. CASE Kills(r)
    BY <1>14 DEF Kills, Alive, At
  <1>15. CASE KillReturns(r)
    BY <1>15 DEF KillReturns, Waited, Alive, TimedOut, At
  <1>16. ASSUME NEW p \in Processes, ClosesOutput(r, p) PROVE CommandProcesses(s)'
    BY <1>16 DEF ClosesOutput, Alive
  <1>17. ASSUME NEW p \in Processes, Ends(r, p) PROVE CommandProcesses(s)'
    BY <1>17 DEF Ends, Alive
  <1>18. ASSUME NEW how \in {"timeout", "cancelled"}, ContextEnds(r, how) PROVE CommandProcesses(s)'
    BY <1>18 DEF ContextEnds
  <1> QED
    BY <1>1, <1>2, <1>3, <1>4, <1>5, <1>6, <1>7, <1>8, <1>9,
       <1>10, <1>11, <1>12, <1>13, <1>14, <1>15, <1>16, <1>17, <1>18 DEF CommandStep

\* A step of a command keeps what its row and its audit event say.
LEMMA CommandKeepsRow ==
  HostInvariant => \A r, s \in Commands : CommandStep(r) => CommandRow(s)'
  <1> SUFFICES ASSUME HostInvariant, NEW r \in Commands, CommandStep(r), NEW s \in Commands PROVE CommandRow(s)'
    OBVIOUS
  <1> USE DEF HostInvariant, HostTypes, CommandRecord, running, executor, Nothing, CommandProcesses, CommandRow, Alive, Results
  <1>1. CASE Reject(r)
    BY <1>1 DEF Reject, At
  <1>2. CASE Dispatch(r)
    BY <1>2 DEF Dispatch, StartsRun, At
  <1>3. CASE DispatchFails(r)
    BY <1>3 DEF DispatchFails, At
  <1>4. CASE ExecuteBegins(r)
    BY <1>4 DEF ExecuteBegins, At
  <1>5. CASE ExecuteCommits(r)
    BY <1>5 DEF ExecuteCommits, StartsRun, At
  <1>6. CASE ExecuteRollsBack(r)
    BY <1>6 DEF ExecuteRollsBack, At
  <1>7. CASE ExecuteLeaks(r)
    BY <1>7 DEF ExecuteLeaks, At
  <1>8. CASE LeakEnds(r)
    BY <1>8 DEF LeakEnds
  <1>9. CASE ExecuteRecords(r)
    BY <1>9 DEF ExecuteRecords, At
  <1>10. CASE Forks(r)
    BY <1>10 DEF Forks, Alive
  <1>11. CASE Leaves(r)
    BY <1>11 DEF Leaves, Alive
  <1>12. CASE Writes(r)
    BY <1>12 DEF Writes
  <1>13. CASE RunReturns(r)
    BY <1>13 DEF RunReturns, Waited, Alive, At
  <1>14. CASE Kills(r)
    BY <1>14 DEF Kills, Alive, At
  <1>15. CASE KillReturns(r)
    BY <1>15 DEF KillReturns, Waited, Alive, TimedOut, At
  <1>16. ASSUME NEW p \in Processes, ClosesOutput(r, p) PROVE CommandRow(s)'
    BY <1>16 DEF ClosesOutput, Alive
  <1>17. ASSUME NEW p \in Processes, Ends(r, p) PROVE CommandRow(s)'
    BY <1>17 DEF Ends, Alive
  <1>18. ASSUME NEW how \in {"timeout", "cancelled"}, ContextEnds(r, how) PROVE CommandRow(s)'
    BY <1>18 DEF ContextEnds
  <1> QED
    BY <1>1, <1>2, <1>3, <1>4, <1>5, <1>6, <1>7, <1>8, <1>9,
       <1>10, <1>11, <1>12, <1>13, <1>14, <1>15, <1>16, <1>17, <1>18 DEF CommandStep

\* The inductive invariant of the commands holds in every reachable state.
THEOREM HostInvariantAlways == HostSpec => []HostInvariant
  <1>1. HostInvariant /\ [HostNext]_hostVars => HostInvariant'
    <2> SUFFICES ASSUME HostInvariant, [HostNext]_hostVars PROVE HostInvariant'
      OBVIOUS
    <2>1. CASE UNCHANGED <<running, executor>>
      BY <2>1 DEF HostInvariant, HostTypes, CommandProcesses, CommandRow, running, executor, Alive
    <2>2. ASSUME NEW r \in Commands, CommandStep(r) PROVE HostInvariant'
      BY <2>2, CommandKeepsTypes, CommandKeepsProcesses, CommandKeepsRow DEF HostInvariant
    <2> QED
      BY <2>1, <2>2, ConsentsApart
  <1> QED
    BY HostStarts, <1>1, PTL DEF HostSpec

\* ReturnedIsOver holds in every reachable state, for any commands: what Run returned is all
\* there will be, and only a process that left its group can keep a killed command waiting.
THEOREM ReturnedStaysOver == HostSpec => []ReturnedIsOver
  <1>1. HostInvariant => ReturnedIsOver
    BY DEF HostInvariant, HostTypes, CommandRecord, CommandProcesses, ReturnedIsOver, At, Alive, Waited, Nothing
  <1> QED
    BY HostInvariantAlways, <1>1, PTL

\* ExecutedIsAudited holds in every reachable state, for any commands: nothing the Executor
\* runs goes without its audit event, and a row that ended says what Run returned.
THEOREM ExecutedStaysAudited == HostSpec => []ExecutedIsAudited
  <1>1. HostInvariant => ExecutedIsAudited
    BY DEF HostInvariant, CommandRow, ExecutedIsAudited
  <1> QED
    BY HostInvariantAlways, <1>1, PTL

\* A consent is honoured only when it is taken, whoever takes it.
LEMMA ConsentsStay == ConsentInvariant /\ [HostNext]_hostVars => ConsentInvariant'
  <1> SUFFICES ASSUME ConsentInvariant, [HostNext]_hostVars PROVE ConsentInvariant'
    OBVIOUS
  <1> USE DEF ConsentInvariant, consents
  <1>1. CASE UNCHANGED consents
    BY <1>1
  <1>2. ASSUME NEW x \in Previews \cup Reboots, StoresConsent(x) \/ Expires(x) PROVE ConsentInvariant'
    BY <1>2 DEF StoresConsent, Expires
  <1>3. ASSUME NEW e \in Cleanups, NEW x \in Previews, CleanupTakes(e, x) PROVE ConsentInvariant'
    BY <1>3 DEF CleanupTakes
  <1>4. ASSUME NEW e \in Cleanups, CleanupStops(e) \/ \E p \in Paths : CleanupRemoves(e, p)
        PROVE ConsentInvariant'
    BY <1>4 DEF CleanupStops, CleanupRemoves
  <1>5. ASSUME NEW x \in Reboots, RebootConsumes(x) PROVE ConsentInvariant'
    BY <1>5 DEF RebootConsumes
  <1>6. ASSUME NEW r \in Commands, CommandStep(r) PROVE ConsentInvariant'
    BY <1>1, <1>6, CommandsApart
  <1> QED
    BY <1>1, <1>2, <1>3, <1>4, <1>5, <1>6 DEF HostNext, CommandStep, hostVars

\* ConsentUsedOnce holds in every reachable state, for any previews, confirmations and calls:
\* one call of those that race for a consent takes it out of the map.
THEOREM ConsentIsUsedOnce == HostSpec => []ConsentUsedOnce
  <1>1. ConsentInvariant => ConsentUsedOnce
    BY DEF ConsentInvariant, ConsentUsedOnce
  <1> QED
    BY HostStarts, ConsentsStay, <1>1, PTL DEF HostSpec

-----------------------------------------------------------------------------
(* Dashboard.                                                              *)

\* A list has a length, whatever the agents in it.
List(l) == \E n \in Nat : l = [i \in 1..n |-> l[i]]

\* A list of no rows is the empty one.
LEMMA ListLength ==
  ASSUME NEW l, List(l)
  PROVE  Len(l) \in Nat /\ (Len(l) = 0 => l = <<>>)
  <1>1. PICK n \in Nat : l = [i \in 1..n |-> l[i]]
    BY DEF List
  <1>2. l \in Seq({l[i] : i \in 1..n})
    BY <1>1
  <1> QED
    BY <1>2

\* The listing the dashboard starts with is a list.
LEMMA EmptyIsList == List(<<>>)
  <1>1. <<>> = [i \in 1..0 |-> <<>>[i]]
    OBVIOUS
  <1> QED
    BY <1>1 DEF List

\* What ListAgents answers is a list, however many agents there are.
LEMMA PageIsList ==
  ASSUME NEW S \in SUBSET Ranks
  PROVE  List(Page(S))
  <1>1. Cardinality(S) \in Nat
    <2>1. LastRank \in Int /\ 1 \in Int
      BY DashboardAssumption
    <2>2. IsFiniteSet(Ranks)
      BY <2>1, FS_Interval DEF Ranks
    <2> QED
      BY <2>2, FS_Subset, FS_CardinalityType
  <1>2. PICK n \in Nat : Page(S) = [i \in 1..n |-> CHOOSE a \in S : Below(a, S) = i - 1]
    BY <1>1, DashboardAssumption DEF Page
  <1> QED
    BY <1>2 DEF List

\* The selection and the lists it may be compared with.
SelectionInvariant ==
  /\ enrolled \subseteq Ranks
  /\ List(agents)
  /\ \A r \in results : List(r.agents)
  /\ selected \in Nat
  /\ SelectedInRange

\* A form that asks for the second enter is as it was when it began to ask.
FormInvariant ==
  /\ \/ form = NoForm
     \/ /\ DOMAIN form = {"focus", "source", "targets", "target", "overwrite", "filled", "confirm"}
        /\ form.focus \in {"field", "target", "overwrite", "submit"}
        /\ form.confirm => form.focus = "submit" /\ promised = Shown(form)
  /\ DispatchedAsConfirmed

\* They hold of a dashboard that shows nothing and has no form.
LEMMA DashboardStarts == DashboardInit => SelectionInvariant /\ FormInvariant
  <1> SUFFICES ASSUME DashboardInit PROVE SelectionInvariant /\ FormInvariant
    OBVIOUS
  <1>1. enrolled \subseteq Ranks /\ agents = <<>> /\ results = {} /\ selected = 0
    BY DEF DashboardInit
  <1>2. SelectionInvariant
    BY <1>1, EmptyIsList DEF SelectionInvariant, SelectedInRange
  <1>3. FormInvariant
    BY DEF DashboardInit, FormInvariant, DispatchedAsConfirmed
  <1> QED
    BY <1>2, <1>3

\* A result carries a list of agents.
LEMMA ResultHasList ==
  ASSUME enrolled \subseteq Ranks, NEW r, NEW code
  PROVE  List(Result(r, code).agents)
  BY PageIsList, EmptyIsList DEF Result

\* Every step keeps the selection within the list.
LEMMA SelectionStays == SelectionInvariant /\ [DashboardNext]_dashboardVars => SelectionInvariant'
  <1> SUFFICES ASSUME SelectionInvariant, [DashboardNext]_dashboardVars PROVE SelectionInvariant'
    OBVIOUS
  <1> USE DEF SelectionInvariant, SelectedInRange, screen, outside
  <1>1. ASSUME UNCHANGED <<enrolled, results, agents, selected>> PROVE SelectionInvariant'
    BY <1>1
  <1>2. ASSUME NEW a \in Ranks, Enrolls(a) PROVE SelectionInvariant'
    BY <1>2 DEF Enrolls
  <1>3. ASSUME NEW r, Answers(r) PROVE SelectionInvariant'
    <2>1. PICK code : results' = results \union {Result(r, code)}
      BY <1>3 DEF Answers
    <2>2. \A x \in results' : List(x.agents)
      BY <2>1, ResultHasList
    <2>3. UNCHANGED <<enrolled, agents, selected>>
      BY <1>3 DEF Answers
    <2> QED
      BY <2>2, <2>3
  <1>4. CASE AnswersLogin
    <2>1. \A x \in results' : List(x.agents)
      BY <1>4, ResultHasList DEF AnswersLogin
    <2>2. UNCHANGED <<enrolled, agents, selected>>
      BY <1>4 DEF AnswersLogin
    <2> QED
      BY <2>1, <2>2
  <1>5. ASSUME NEW r, Takes(r) PROVE SelectionInvariant'
    <2>1. CASE agents' = r.agents /\ selected' = Reselects(r.agents)
      <3>1. r \in results /\ List(r.agents)
        BY <1>5 DEF Takes
      <3>2. Len(r.agents) \in Nat /\ (Len(r.agents) = 0 => r.agents = <<>>)
        BY <3>1, ListLength
      <3>3. UNCHANGED enrolled /\ results' \subseteq results
        BY <1>5 DEF Takes
      <3> QED
        BY <2>1, <3>1, <3>2, <3>3 DEF Reselects
    <2>2. CASE UNCHANGED <<agents, selected>>
      BY <1>5, <2>2 DEF Takes
    <2> QED
      BY <1>5, <2>1, <2>2 DEF Takes
  <1>6. CASE MovesSelection
    <2>1. selected' \in Nat /\ selected' < Len(agents) /\ UNCHANGED <<enrolled, results, agents>>
      BY <1>6 DEF MovesSelection
    <2> QED
      BY <2>1
  <1>7. CASE SSHEnds
    <2>1. PICK p : results' = results \union {Result(p, "failed")}
      BY <1>7 DEF SSHEnds
    <2>2. \A x \in results' : List(x.agents)
      BY <2>1, ResultHasList
    <2>3. UNCHANGED <<enrolled, agents, selected>>
      BY <1>7 DEF SSHEnds
    <2> QED
      BY <2>2, <2>3
  <1>8. CASE UNCHANGED dashboardVars
    BY <1>1, <1>8 DEF dashboardVars
  <1>9. CASE TokenExpires \/ Ticks \/ MovesPanel \/ Refreshes \/ Searches \/ TypesLogin \/ SendsLogin
    BY <1>1, <1>9 DEF TokenExpires, Ticks, MovesPanel, Refreshes, Searches, TypesLogin, SendsLogin
  <1>10. CASE \/ StartsSSH \/ SSHPrepared \/ OpensMigrate \/ FormEsc \/ FormMoves \/ FormEdits
              \/ FormEnters \/ DispatchesMigrate
    BY <1>1, <1>10 DEF StartsSSH, SSHPrepared, OpensMigrate, FormEsc, FormMoves, FormEdits, FormEnters,
                       DispatchesMigrate, FormOnly
  <1> QED
    BY <1>2, <1>3, <1>4, <1>5, <1>6, <1>7, <1>8, <1>9, <1>10 DEF DashboardNext

\* The focus moves from stop to stop.
LEMMA StopIsStop ==
  ASSUME NEW i \in Nat \ {0}
  PROVE  Stop(i) \in {"field", "target", "overwrite", "submit"}
  <1>1. (i - 1) % 4 \in 0..3
    OBVIOUS
  <1>2. PICK k \in 0..3 : k = (i - 1) % 4
    BY <1>1
  <1>3. Stop(i) = Stops[k + 1]
    BY <1>2 DEF Stop, Stops
  <1> QED
    BY <1>3 DEF Stops

\* The stop Tab goes from is the one that has focus.
LEMMA StopOfFocus ==
  ASSUME form.focus \in {"field", "target", "overwrite", "submit"}
  PROVE  StopOf \in 1..4
  <1>1. \E i \in 1..4 : Stops[i] = form.focus
    <2>1. Stops[1] = "field" /\ Stops[2] = "target" /\ Stops[3] = "overwrite" /\ Stops[4] = "submit"
      BY DEF Stops
    <2>2. 1 \in 1..4 /\ 2 \in 1..4 /\ 3 \in 1..4 /\ 4 \in 1..4
      OBVIOUS
    <2> QED
      BY <2>1, <2>2
  <1>2. Len(Stops) = 4
    BY DEF Stops
  <1> QED
    BY <1>1, <1>2 DEF StopOf

\* Both neighbours of the focus are stops.
LEMMA Neighbours ==
  ASSUME form.focus \in {"field", "target", "overwrite", "submit"},
         NEW i \in {StopOf + 1, StopOf + Len(Stops) - 1}
  PROVE  Stop(i) \in {"field", "target", "overwrite", "submit"}
  <1>1. Len(Stops) = 4
    BY DEF Stops
  <1>2. \A k \in 1..4 : k + 1 \in Nat \ {0} /\ k + 4 - 1 \in Nat \ {0}
    OBVIOUS
  <1>3. i \in Nat \ {0}
    BY <1>1, <1>2, StopOfFocus
  <1> QED
    BY <1>3, StopIsStop

\* Every step keeps the form that asks for confirmation as it was.
LEMMA FormStays == FormInvariant /\ [DashboardNext]_dashboardVars => FormInvariant'
  <1> SUFFICES ASSUME FormInvariant, [DashboardNext]_dashboardVars PROVE FormInvariant'
    OBVIOUS
  <1> USE DEF FormInvariant, DispatchedAsConfirmed
  <1>1. ASSUME UNCHANGED <<form, confirmation>> PROVE FormInvariant'
    BY <1>1 DEF confirmation, Shown
  <1>2. CASE OpensMigrate
    BY <1>2 DEF OpensMigrate, confirmation
  <1>3. CASE FormEsc
    BY <1>3 DEF FormEsc, FormOnly
  <1>4. CASE FormMoves
    <2>1. form # NoForm /\ UNCHANGED dispatched
      BY <1>4 DEF FormMoves, FormKeys, FormOnly
    <2>2. PICK i \in {StopOf + 1, StopOf + Len(Stops) - 1} :
            form' = [form EXCEPT !.focus = Stop(i), !.confirm = FALSE]
      BY <1>4 DEF FormMoves
    <2>3. Stop(i) \in {"field", "target", "overwrite", "submit"}
      BY <2>1, Neighbours
    <2>4. DOMAIN form' = DOMAIN form /\ ~form'.confirm /\ form'.focus = Stop(i)
      BY <2>1, <2>2
    <2> QED
      BY <2>1, <2>3, <2>4
  <1>5. CASE FormEdits
    <2>1. form # NoForm /\ ~form.confirm /\ UNCHANGED dispatched
      BY <1>5 DEF FormEdits, FormKeys, FormOnly
    <2>2. form.focus \in {"field", "target", "overwrite"}
      BY <1>5, <2>1 DEF FormEdits
    <2>3. CASE form.focus = "field"
      <3>1. form' = [form EXCEPT !.filled = ~form.filled]
        BY <1>5, <2>3 DEF FormEdits
      <3> QED
        BY <2>1, <2>2, <3>1
    <2>4. CASE form.focus = "target"
      <3>1. form' = [form EXCEPT !.target = (form.target % Len(form.targets)) + 1]
        BY <1>5, <2>4 DEF FormEdits
      <3> QED
        BY <2>1, <2>2, <3>1
    <2>5. CASE form.focus = "overwrite"
      <3>1. form' = [form EXCEPT !.overwrite = ~form.overwrite]
        BY <1>5, <2>5 DEF FormEdits
      <3> QED
        BY <2>1, <2>2, <3>1
    <2> QED
      BY <2>2, <2>3, <2>4, <2>5
  <1>6. CASE FormEnters
    <2>1. form # NoForm /\ UNCHANGED dispatched
      BY <1>6 DEF FormEnters, FormKeys, FormOnly
    <2>2. CASE form.focus # "submit" /\ form' = [form EXCEPT !.focus = Stop(StopOf + 1)]
      <3>1. Stop(StopOf + 1) \in {"field", "target", "overwrite", "submit"}
        BY <2>1, Neighbours
      <3>2. DOMAIN form' = DOMAIN form /\ form'.confirm = form.confirm /\ form'.focus = Stop(StopOf + 1)
        BY <2>1, <2>2
      <3> QED
        BY <2>1, <2>2, <3>1, <3>2
    <2>3. CASE form.focus = "submit" /\ form' = [form EXCEPT !.confirm = TRUE] /\ promised' = Shown(form)
      BY <2>1, <2>3 DEF Shown
    <2> QED
      BY <1>6, <2>2, <2>3 DEF FormEnters
  <1>7. CASE DispatchesMigrate
    BY <1>7 DEF DispatchesMigrate, FormKeys, Migration
  <1>8. CASE UNCHANGED dashboardVars
    BY <1>1, <1>8 DEF dashboardVars
  <1>9. ASSUME NEW r, \/ Enrolls(r) \/ Answers(r) \/ Takes(r) \/ TokenExpires \/ AnswersLogin \/ Ticks
        PROVE FormInvariant'
    BY <1>1, <1>9 DEF Enrolls, Answers, Takes, TokenExpires, AnswersLogin, Ticks
  <1>10. CASE MovesSelection \/ MovesPanel \/ Refreshes \/ Searches \/ TypesLogin \/ SendsLogin
    BY <1>1, <1>10 DEF MovesSelection, MovesPanel, Refreshes, Searches, TypesLogin, SendsLogin
  <1>11. CASE StartsSSH \/ SSHPrepared \/ SSHEnds
    BY <1>1, <1>11 DEF StartsSSH, SSHPrepared, SSHEnds
  <1> QED
    BY <1>2, <1>3, <1>4, <1>5, <1>6, <1>7, <1>8, <1>9, <1>10, <1>11 DEF DashboardNext

\* SelectedInRange holds in every reachable state, for any fleet and page: whatever listing the
\* event loop takes, the agent it then indexes is there.
THEOREM SelectedStaysInRange == DashboardSpec => []SelectedInRange
  <1>1. SelectionInvariant => SelectedInRange
    BY DEF SelectionInvariant
  <1> QED
    BY DashboardStarts, SelectionStays, <1>1, PTL DEF DashboardSpec

\* DispatchedAsConfirmed holds in every reachable state: no listing, result or login changes
\* the migration between the two enters.
THEOREM DispatchedStaysAsConfirmed == DashboardSpec => []DispatchedAsConfirmed
  <1>1. FormInvariant => DispatchedAsConfirmed
    BY DEF FormInvariant
  <1> QED
    BY DashboardStarts, FormStays, <1>1, PTL DEF DashboardSpec

-----------------------------------------------------------------------------
(* MetricsPipeline.                                                        *)

\* A reading by its number and its clock.
Reading == [n : Nat, at : Nat]

\* Values, and the numbers of the readings: those taken are counted, and only the hello and the
\* place of a reading that is not there have the number 0.
MetricsTypes ==
  /\ clock \in Nat /\ taken \in Nat
  /\ link \in [Connections -> Seq(Reading)]
  /\ storing \in [Connections -> Reading]
  /\ current \in Reading
  /\ minute \in [Buckets -> Seq(Nat)]
  /\ stored \in Seq(Reading)

\* Whatever is under way, being stored or stored was taken.
Counted ==
  /\ \A s \in Connections : \A i \in 1..Len(link[s]) : link[s][i].n <= taken
  /\ \A s \in Connections :
       storing[s].n <= taken /\ (storing[s].n = 0 => storing[s] = NoReading)
  /\ \A s \in Connections : \A i \in 1..Len(link[s]) : link[s][i].n = 0 => link[s][i] = Hello
  /\ \A k \in 1..Len(stored) : stored[k].n <= taken /\ stored[k].n # 0

\* A reading is in one place: on a stream, with a receive loop, or stored.
InOnePlace ==
  /\ \A s, t \in Connections : \A i \in 1..Len(link[s]) : \A j \in 1..Len(link[t]) :
       link[s][i].n # 0 /\ link[s][i].n = link[t][j].n => s = t /\ i = j
  /\ \A s, t \in Connections : \A i \in 1..Len(link[s]) :
       link[s][i].n # 0 => link[s][i].n # storing[t].n
  /\ \A s \in Connections : \A i \in 1..Len(link[s]) : \A k \in 1..Len(stored) :
       link[s][i].n # stored[k].n
  /\ \A s, t \in Connections : storing[s].n # 0 /\ storing[s].n = storing[t].n => s = t
  /\ \A s \in Connections : \A k \in 1..Len(stored) : storing[s].n # stored[k].n

\* The row of metrics_current is there once a reading is stored.
CurrentIsStored ==
  /\ stored = <<>> => current = NoReading
  /\ CurrentIsLatest

\* The inductive invariant of the readings.
MetricsInvariant ==
  MetricsTypes /\ Counted /\ InOnePlace /\ CurrentIsStored /\ MinuteIsItsReadings

\* It holds before the first collection.
LEMMA MetricsStarts == MetricsInit => MetricsInvariant
  <1> SUFFICES ASSUME MetricsInit PROVE MetricsInvariant
    OBVIOUS
  <1>1. NoReading \in Reading /\ Hello \in Reading
    BY DEF NoReading, Hello, Reading
  <1>2. /\ clock = 0 /\ taken = 0 /\ current = NoReading /\ stored = <<>>
        /\ \A s \in Connections : link[s] = <<>> /\ storing[s] = NoReading
        /\ \A b \in Buckets : minute[b] = <<>>
    BY DEF MetricsInit
  <1>3. MetricsTypes
    <2>1. minute \in [Buckets -> Seq(Nat)]
      BY DEF MetricsInit
    <2>2. link \in [Connections -> Seq(Reading)] /\ storing \in [Connections -> Reading]
      BY <1>1 DEF MetricsInit
    <2> QED
      BY <1>1, <1>2, <2>1, <2>2 DEF MetricsTypes
  <1>4. Len(<<>>) = 0 /\ 1..0 = {} /\ NoReading.n = 0
    BY DEF NoReading
  <1>5. Counted
    BY <1>2, <1>4 DEF Counted
  <1>6. InOnePlace
    BY <1>2, <1>4 DEF InOnePlace
  <1>7. CurrentIsStored
    BY <1>2 DEF CurrentIsStored, CurrentIsLatest
  <1>8. MinuteIsItsReadings
    <2>1. ToSet(<<>>) = {} /\ DOMAIN <<>> = {}
      BY DEF ToSet
    <2>2. \A b : StoredIn(b) = {}
      BY <1>2, <2>1 DEF StoredIn
    <2> QED
      BY <1>2, <2>1, <2>2 DEF MinuteIsItsReadings
  <1> QED
    BY <1>3, <1>5, <1>6, <1>7, <1>8 DEF MetricsInvariant

\* A step that stores nothing leaves the tables as they are.
LEMMA TablesStay ==
  ASSUME CurrentIsStored, MinuteIsItsReadings, UNCHANGED <<current, minute, stored>>
  PROVE  CurrentIsStored' /\ MinuteIsItsReadings'
  <1>1. CurrentIsStored'
    BY DEF CurrentIsStored, CurrentIsLatest
  <1>2. \A b : StoredIn(b)' = StoredIn(b)
    BY DEF StoredIn
  <1>3. MinuteIsItsReadings'
    BY <1>2 DEF MinuteIsItsReadings
  <1> QED
    BY <1>1, <1>3

\* What is left of the queue of a stream, from the front or not at all.
Rest(p, q) ==
  \E d \in Nat : Len(p) + d <= Len(q) /\ \A i \in 1..Len(p) : p[i] = q[i + d]

\* What has a number.
LEMMA AllNumbered ==
  ASSUME MetricsTypes
  PROVE  /\ \A s \in Connections : \A i \in 1..Len(link[s]) : link[s][i] \in Reading /\ link[s][i].n \in Nat
         /\ \A s \in Connections : storing[s] \in Reading /\ storing[s].n \in Nat
         /\ \A k \in 1..Len(stored) : stored[k] \in Reading /\ stored[k].n \in Nat
  <1>1. \A s \in Connections : \A i \in 1..Len(link[s]) : link[s][i] \in Reading
    <2> SUFFICES ASSUME NEW s \in Connections PROVE \A i \in 1..Len(link[s]) : link[s][i] \in Reading
      OBVIOUS
    <2>1. link[s] \in Seq(Reading)
      BY DEF MetricsTypes
    <2> QED
      BY <2>1
  <1>2. \A s \in Connections : storing[s] \in Reading
    BY DEF MetricsTypes
  <1>3. \A k \in 1..Len(stored) : stored[k] \in Reading
    <2>1. stored \in Seq(Reading)
      BY DEF MetricsTypes
    <2> QED
      BY <2>1
  <1>4. \A x \in Reading : x.n \in Nat
    BY DEF Reading
  <1> QED
    BY <1>1, <1>2, <1>3, <1>4

\* A step that only takes messages from the streams and readings from the receive loops.
LEMMA FewerReadings ==
  ASSUME MetricsTypes, Counted, InOnePlace,
         link' \in [Connections -> Seq(Reading)],
         \A s \in Connections : Rest(link'[s], link[s]),
         \A s \in Connections : storing'[s] = storing[s] \/ storing'[s] = NoReading,
         taken' \in Nat, taken <= taken', UNCHANGED stored
  PROVE  Counted' /\ InOnePlace'
  <1>1. \A s \in Connections : \A i \in 1..Len(link'[s]) :
          \E j \in 1..Len(link[s]) : link'[s][i] = link[s][j]
    <2> SUFFICES ASSUME NEW s \in Connections, NEW i \in 1..Len(link'[s])
                 PROVE  \E j \in 1..Len(link[s]) : link'[s][i] = link[s][j]
      OBVIOUS
    <2>1. PICK d \in Nat : Len(link'[s]) + d <= Len(link[s]) /\ \A k \in 1..Len(link'[s]) : link'[s][k] = link[s][k + d]
      BY DEF Rest
    <2>2. PICK m \in Nat, l \in Nat : m = Len(link'[s]) /\ l = Len(link[s])
      BY DEF MetricsTypes
    <2>3. i + d \in 1..l
      BY <2>1, <2>2
    <2> QED
      BY <2>1, <2>2, <2>3
  <1>2. NoReading.n = 0 /\ taken \in Nat /\ \A x \in Nat : 0 <= x
    BY DEF NoReading, MetricsTypes
  <1>3. Counted'
    <2>1. \A s \in Connections : \A i \in 1..Len(link'[s]) :
            link'[s][i].n <= taken' /\ (link'[s][i].n = 0 => link'[s][i] = Hello)
      <3> SUFFICES ASSUME NEW s \in Connections, NEW i \in 1..Len(link'[s])
                   PROVE  link'[s][i].n <= taken' /\ (link'[s][i].n = 0 => link'[s][i] = Hello)
        OBVIOUS
      <3>1. PICK j \in 1..Len(link[s]) : link'[s][i] = link[s][j]
        BY <1>1
      <3>2. link[s][j].n \in Nat
        BY <3>1, AllNumbered
      <3>3. link[s][j].n <= taken /\ (link[s][j].n = 0 => link[s][j] = Hello)
        BY <3>1 DEF Counted
      <3> QED
        BY <1>2, <3>1, <3>2, <3>3
    <2>2. \A s \in Connections :
            storing'[s].n <= taken' /\ (storing'[s].n = 0 => storing'[s] = NoReading)
      <3>1. \A s \in Connections : storing[s].n \in Nat
        BY DEF MetricsTypes, Reading
      <3> QED
        BY <1>2, <3>1 DEF Counted
    <2>3. \A k \in 1..Len(stored) : stored[k].n <= taken' /\ stored[k].n # 0
      <3>1. \A k \in 1..Len(stored) : stored[k].n \in Nat
        BY AllNumbered
      <3> QED
        BY <1>2, <3>1 DEF Counted
    <2> QED
      BY <2>1, <2>2, <2>3 DEF Counted
  <1>4. ASSUME NEW s \in Connections, NEW t \in Connections,
               NEW i \in 1..Len(link'[s]), NEW j \in 1..Len(link'[t]),
               link'[s][i].n # 0, link'[s][i].n = link'[t][j].n
        PROVE  s = t /\ i = j
    <2>1. PICK d \in Nat : Len(link'[s]) + d <= Len(link[s]) /\ \A k \in 1..Len(link'[s]) : link'[s][k] = link[s][k + d]
      BY DEF Rest
    <2>2. PICK e \in Nat : /\ Len(link'[t]) + e <= Len(link[t]) /\ \A k \in 1..Len(link'[t]) : link'[t][k] = link[t][k + e]
                           /\ s = t => e = d
      BY <2>1 DEF Rest
    <2>3. PICK m \in Nat, l \in Nat, n \in Nat, o \in Nat :
             m = Len(link'[s]) /\ l = Len(link[s]) /\ n = Len(link'[t]) /\ o = Len(link[t])
      BY DEF MetricsTypes
    <2>4. i \in Nat /\ j \in Nat /\ i + d \in 1..l /\ j + e \in 1..o
      BY <2>1, <2>2, <2>3
    <2>5. link'[s][i] = link[s][i + d] /\ link'[t][j] = link[t][j + e]
      BY <2>1, <2>2
    <2>6. s = t /\ i + d = j + e
      BY <1>4, <2>3, <2>4, <2>5 DEF InOnePlace
    <2>7. e = d
      BY <2>2, <2>6
    <2>8. i = j
      BY <2>4, <2>6, <2>7
    <2> QED
      BY <2>6, <2>8
  <1>5. ASSUME NEW s \in Connections, NEW t \in Connections, NEW i \in 1..Len(link'[s]), link'[s][i].n # 0
        PROVE  link'[s][i].n # storing'[t].n
    <2>1. PICK j \in 1..Len(link[s]) : link'[s][i] = link[s][j]
      BY <1>1
    <2>2. link[s][j].n # storing[t].n
      BY <1>5, <2>1 DEF InOnePlace
    <2> QED
      BY <1>2, <1>5, <2>1, <2>2
  <1>6. ASSUME NEW s \in Connections, NEW i \in 1..Len(link'[s]), NEW k \in 1..Len(stored)
        PROVE  link'[s][i].n # stored[k].n
    <2>1. PICK j \in 1..Len(link[s]) : link'[s][i] = link[s][j]
      BY <1>1
    <2>2. link[s][j].n # stored[k].n
      BY DEF InOnePlace
    <2> QED
      BY ONLY <2>1, <2>2
  <1>7. ASSUME NEW s \in Connections, NEW t \in Connections, storing'[s].n # 0, storing'[s].n = storing'[t].n
        PROVE  s = t
    BY <1>2, <1>7 DEF InOnePlace
  <1>8. ASSUME NEW s \in Connections, NEW k \in 1..Len(stored)
        PROVE  storing'[s].n # stored[k].n
    BY <1>2 DEF InOnePlace, Counted
  <1>9. InOnePlace'
    BY <1>4, <1>5, <1>6, <1>7, <1>8 DEF InOnePlace
  <1> QED
    BY <1>3, <1>9

\* All of a series is the rest of it from its first entry.
LEMMA RestOfItself ==
  ASSUME NEW q \in Seq(Reading)
  PROVE  Rest(q, q) /\ Rest(<<>>, q) /\ (q # <<>> => Rest(Tail(q), q))
  <1>1. Len(q) \in Nat /\ Len(q) + 0 <= Len(q) /\ \A i \in 1..Len(q) : q[i] = q[i + 0]
    OBVIOUS
  <1>2. Len(<<>>) + 0 <= Len(q) /\ \A i \in 1..Len(<<>>) : <<>>[i] = q[i + 0]
    OBVIOUS
  <1>3. q # <<>> => Len(Tail(q)) + 1 <= Len(q) /\ \A i \in 1..Len(Tail(q)) : Tail(q)[i] = q[i + 1]
    OBVIOUS
  <1> QED
    BY <1>1, <1>2, <1>3 DEF Rest

\* A message is sent on a stream: the hello, or a reading that was just taken.
LEMMA OneMoreMessage ==
  ASSUME MetricsTypes, Counted, InOnePlace, NEW s \in Connections, NEW m \in Reading,
         link' = [link EXCEPT ![s] = Append(@, m)],
         \/ m = Hello /\ taken' = taken
         \/ m.n = taken + 1 /\ taken' = taken + 1,
         UNCHANGED <<storing, stored>>
  PROVE  Counted' /\ InOnePlace'
  <1>1. PICK l \in Nat : l = Len(link[s]) /\ link[s] \in Seq(Reading)
    BY DEF MetricsTypes
  <1>2. /\ link'[s] = Append(link[s], m) /\ \A t \in Connections : t # s => link'[t] = link[t]
    BY DEF MetricsTypes
  <1>3. Len(link'[s]) = l + 1 /\ link'[s][l + 1] = m /\ \A i \in 1..l : link'[s][i] = link[s][i]
    BY <1>1, <1>2
  <1>4. ASSUME NEW t \in Connections, NEW i \in 1..Len(link'[t])
        PROVE  \/ i \in 1..Len(link[t]) /\ link'[t][i] = link[t][i]
               \/ t = s /\ i = l + 1 /\ link'[t][i] = m
    <2>1. CASE t # s
      BY <1>2, <2>1
    <2>2. CASE t = s
      <3>1. i \in 1..l \/ i = l + 1
        BY <1>1, <1>3, <2>2
      <3> QED
        BY <1>1, <1>3, <2>2, <3>1
    <2> QED
      BY <2>1, <2>2
  <1>5. /\ taken \in Nat /\ taken' \in Nat /\ taken <= taken' /\ m.n <= taken' /\ m.n \in Nat
        /\ m.n = 0 => m = Hello
        /\ \A x \in Nat : x <= taken => x <= taken' /\ (m.n # 0 => x # m.n)
    <2>1. taken \in Nat /\ m.n \in Nat
      BY DEF MetricsTypes, Reading
    <2>2. CASE m = Hello /\ taken' = taken
      BY <2>1, <2>2 DEF Hello
    <2>3. CASE m.n = taken + 1 /\ taken' = taken + 1
      BY <2>1, <2>3
    <2> QED
      BY <2>2, <2>3
  <1>6. /\ \A t \in Connections : \A i \in 1..Len(link[t]) : link[t][i].n \in Nat /\ link[t][i].n <= taken
        /\ \A t \in Connections : storing[t].n \in Nat /\ storing[t].n <= taken
        /\ \A k \in 1..Len(stored) : stored[k].n \in Nat /\ stored[k].n <= taken /\ stored[k].n # 0
    BY AllNumbered DEF Counted
  <1>7. Counted'
    <2>1. ASSUME NEW t \in Connections, NEW i \in 1..Len(link'[t])
          PROVE  link'[t][i].n <= taken' /\ (link'[t][i].n = 0 => link'[t][i] = Hello)
      BY <1>4, <1>5, <1>6 DEF Counted
    <2>2. \A t \in Connections :
            storing[t].n <= taken' /\ (storing[t].n = 0 => storing[t] = NoReading)
      BY <1>5, <1>6 DEF Counted
    <2>3. \A k \in 1..Len(stored) : stored[k].n <= taken' /\ stored[k].n # 0
      BY <1>5, <1>6
    <2> QED
      BY <2>1, <2>2, <2>3 DEF Counted
  <1>8. ASSUME NEW t \in Connections, NEW u \in Connections,
               NEW i \in 1..Len(link'[t]), NEW j \in 1..Len(link'[u]),
               link'[t][i].n # 0, link'[t][i].n = link'[u][j].n
        PROVE  t = u /\ i = j
    <2>1. CASE /\ i \in 1..Len(link[t]) /\ link'[t][i] = link[t][i]
               /\ j \in 1..Len(link[u]) /\ link'[u][j] = link[u][j]
      BY <1>8, <2>1 DEF InOnePlace
    <2>2. CASE /\ i \in 1..Len(link[t]) /\ link'[t][i] = link[t][i] /\ link'[u][j] = m
      BY <1>5, <1>6, <1>8, <2>2
    <2>3. CASE /\ j \in 1..Len(link[u]) /\ link'[u][j] = link[u][j] /\ link'[t][i] = m
      BY <1>5, <1>6, <1>8, <2>3
    <2> QED
      BY <1>4, <2>1, <2>2, <2>3
  <1>9. ASSUME NEW t \in Connections, NEW i \in 1..Len(link'[t]), link'[t][i].n # 0
        PROVE  /\ \A u \in Connections : link'[t][i].n # storing[u].n
               /\ \A k \in 1..Len(stored) : link'[t][i].n # stored[k].n
    <2>1. CASE i \in 1..Len(link[t]) /\ link'[t][i] = link[t][i]
      BY <1>9, <2>1 DEF InOnePlace
    <2>2. CASE link'[t][i] = m
      BY <1>5, <1>6, <1>9, <2>2
    <2> QED
      BY <1>4, <2>1, <2>2
  <1>10. InOnePlace'
    <2>1. \A t \in Connections : \A i \in 1..Len(link'[t]) : \A k \in 1..Len(stored) :
            link'[t][i].n # stored[k].n
      BY <1>6, <1>9
    <2> QED
      BY <1>8, <1>9, <2>1 DEF InOnePlace
  <1> QED
    BY <1>7, <1>10

\* The receive loop takes a reading from its stream.
LEMMA HandlesStays ==
  ASSUME MetricsTypes, Counted, InOnePlace, NEW s \in Connections, Handles(s)
  PROVE  MetricsTypes' /\ Counted' /\ InOnePlace'
  <1>1. /\ storing[s] = NoReading /\ link[s] # <<>> /\ link[s] \in Seq(Reading)
        /\ storing'[s] = Head(link[s]) /\ \A t \in Connections : t # s => storing'[t] = storing[t]
        /\ link'[s] = Tail(link[s]) /\ \A t \in Connections : t # s => link'[t] = link[t]
        /\ UNCHANGED <<clock, taken, current, minute, stored>>
    BY DEF Handles, MetricsTypes
  <1>2. PICK l \in Nat : l = Len(link[s])
    BY <1>1
  <1>3. /\ Head(link[s]) = link[s][1] /\ Head(link[s]) \in Reading /\ 1 \in 1..Len(link[s])
        /\ Tail(link[s]) \in Seq(Reading) /\ Len(Tail(link[s])) = l - 1
        /\ \A i \in 1..Len(Tail(link[s])) : Tail(link[s])[i] = link[s][i + 1] /\ i + 1 \in 1..Len(link[s])
    BY <1>1, <1>2
  <1>4. MetricsTypes'
    <2>1. link' \in [Connections -> Seq(Reading)]
      BY <1>3 DEF Handles, MetricsTypes
    <2>2. storing' \in [Connections -> Reading]
      BY <1>3 DEF Handles, MetricsTypes
    <2> QED
      BY <1>1, <2>1, <2>2 DEF MetricsTypes
  <1>5. ASSUME NEW t \in Connections, NEW i \in 1..Len(link'[t])
        PROVE  \E j \in 1..Len(link[t]) :
                 link'[t][i] = link[t][j] /\ (t = s => j = i + 1) /\ (t # s => j = i)
    BY <1>1, <1>3
  <1>6. Counted'
    <2>1. ASSUME NEW t \in Connections, NEW i \in 1..Len(link'[t])
          PROVE  link'[t][i].n <= taken /\ (link'[t][i].n = 0 => link'[t][i] = Hello)
      <3>1. PICK j \in 1..Len(link[t]) : link'[t][i] = link[t][j]
        BY <1>5
      <3> QED
        BY <3>1 DEF Counted
    <2>2. \A t \in Connections :
            storing'[t].n <= taken /\ (storing'[t].n = 0 => storing'[t] = NoReading)
      <3>1. /\ \A t \in Connections : storing[t].n <= taken /\ (storing[t].n = 0 => storing[t] = NoReading)
            /\ link[s][1].n <= taken /\ (link[s][1].n = 0 => link[s][1] = Hello)
        BY <1>3 DEF Counted
      <3>2. storing'[s] = link[s][1] /\ Hello = NoReading
        BY <1>1, <1>3 DEF Hello, NoReading
      <3> QED
        BY <1>1, <3>1, <3>2
    <2> QED
      BY <1>1, <2>1, <2>2 DEF Counted
  <1>7. ASSUME NEW t \in Connections, NEW u \in Connections,
               NEW i \in 1..Len(link'[t]), NEW j \in 1..Len(link'[u]),
               link'[t][i].n # 0, link'[t][i].n = link'[u][j].n
        PROVE  t = u /\ i = j
    <2>1. PICK k \in 1..Len(link[t]) : link'[t][i] = link[t][k] /\ (t = s => k = i + 1) /\ (t # s => k = i)
      BY <1>5
    <2>2. PICK h \in 1..Len(link[u]) : link'[u][j] = link[u][h] /\ (u = s => h = j + 1) /\ (u # s => h = j)
      BY <1>5
    <2>3. t = u /\ k = h
      BY <1>7, <2>1, <2>2 DEF InOnePlace
    <2>4. i \in Nat /\ j \in Nat
      <3>1. Len(link'[t]) \in Nat /\ Len(link'[u]) \in Nat
        BY <1>4 DEF MetricsTypes
      <3> QED
        BY <3>1
    <2>5. i = j
      BY <2>1, <2>2, <2>3, <2>4
    <2> QED
      BY <2>3, <2>5
  <1>8. ASSUME NEW t \in Connections, NEW i \in 1..Len(link'[t]), link'[t][i].n # 0,
               NEW u \in Connections
        PROVE  link'[t][i].n # storing'[u].n
    <2>1. PICK k \in 1..Len(link[t]) : link'[t][i] = link[t][k] /\ (t = s => k = i + 1)
      BY <1>5
    <2>2. CASE u # s
      BY <1>1, <1>8, <2>1, <2>2 DEF InOnePlace
    <2>3. CASE u = s
      <3>1. k = 1 => t # s
        <4>1. Len(link'[t]) \in Nat
          BY <1>4 DEF MetricsTypes
        <4>2. i \in Nat \ {0}
          BY <4>1
        <4> QED
          BY <2>1, <4>2
      <3>2. ~(t = s /\ k = 1)
        BY <3>1
      <3> QED
        BY <1>1, <1>3, <1>8, <2>1, <2>3, <3>2 DEF InOnePlace
    <2> QED
      BY <2>2, <2>3
  <1>9. \A t \in Connections : \A i \in 1..Len(link'[t]) : \A k \in 1..Len(stored) :
          link'[t][i].n # stored[k].n
    <2> SUFFICES ASSUME NEW t \in Connections, NEW i \in 1..Len(link'[t]), NEW k \in 1..Len(stored)
                 PROVE  link'[t][i].n # stored[k].n
      OBVIOUS
    <2>1. PICK j \in 1..Len(link[t]) : link'[t][i] = link[t][j]
      BY <1>5
    <2> QED
      BY <2>1 DEF InOnePlace
  <1>10. ASSUME NEW t \in Connections, NEW u \in Connections, storing'[t].n # 0, storing'[t].n = storing'[u].n
         PROVE  t = u
    <2>1. CASE t # s /\ u # s
      BY <1>1, <1>10, <2>1 DEF InOnePlace
    <2>2. CASE t = s /\ u # s
      BY <1>1, <1>3, <1>10, <2>2 DEF InOnePlace
    <2>3. CASE t # s /\ u = s
      BY <1>1, <1>3, <1>10, <2>3 DEF InOnePlace
    <2> QED
      BY <2>1, <2>2, <2>3
  <1>11. \A t \in Connections : \A k \in 1..Len(stored) : storing'[t].n # stored[k].n
    BY <1>1, <1>3 DEF InOnePlace
  <1>12. InOnePlace'
    BY <1>1, <1>7, <1>8, <1>9, <1>10, <1>11 DEF InOnePlace
  <1> QED
    BY <1>4, <1>6, <1>12

\* A reading is stored: it is in no other place, and it is the newest of its bucket.
LEMMA StoresStays ==
  ASSUME MetricsInvariant, NEW s \in Connections, Stores(s)
  PROVE  MetricsInvariant'
  <1>1. MetricsTypes /\ Counted /\ InOnePlace /\ CurrentIsStored /\ MinuteIsItsReadings
    BY DEF MetricsInvariant
  <1>2. PICK x \in Reading : x = storing[s]
    BY <1>1 DEF MetricsTypes
  <1>3. /\ x # NoReading /\ current' = Newer(x) /\ stored' = Append(stored, x)
        /\ minute' = [minute EXCEPT ![BucketOf(x)] = Merge(@, x)]
        /\ storing' = [storing EXCEPT ![s] = NoReading]
        /\ UNCHANGED <<clock, taken, link>>
    BY <1>2 DEF Stores
  <1>4. x.n \in Nat /\ x.n # 0 /\ x.n <= taken /\ x.at \in Nat
    BY <1>1, <1>2, <1>3 DEF Counted, Reading
  <1>5. PICK m \in Nat : m = Len(stored) /\ stored \in Seq(Reading)
    BY <1>1 DEF MetricsTypes
  <1>6. /\ Len(stored') = m + 1 /\ stored'[m + 1] = x /\ \A k \in 1..m : stored'[k] = stored[k]
        /\ stored' \in Seq(Reading) /\ DOMAIN stored' = 1..(m + 1) /\ DOMAIN stored = 1..m
    BY <1>3, <1>5
  <1>7. \A k \in 1..(m + 1) : k \in 1..m \/ k = m + 1
    BY <1>5
  <1>8. /\ storing'[s] = NoReading /\ \A t \in Connections : t # s => storing'[t] = storing[t]
        /\ NoReading.n = 0 /\ NoReading \in Reading
    BY <1>1, <1>3 DEF MetricsTypes, NoReading, Reading
  <1>9. \A k \in 1..m : stored[k].n # x.n
    BY <1>1, <1>2, <1>5 DEF InOnePlace
  <1>10. MetricsTypes'
    <2>1. current' \in Reading
      BY <1>1, <1>3 DEF MetricsTypes, Newer
    <2>2. minute' \in [Buckets -> Seq(Nat)]
      <3>1. ASSUME NEW b \in Seq(Nat)
            PROVE  Merge(b, x) \in Seq(Nat)
        BY <1>4 DEF Merge
      <3> QED
        BY <1>1, <1>3, <3>1 DEF MetricsTypes
    <2>3. storing' \in [Connections -> Reading]
      BY <1>1, <1>3, <1>8 DEF MetricsTypes
    <2> QED
      BY <1>1, <1>3, <1>6, <2>1, <2>2, <2>3 DEF MetricsTypes
  <1>11. Counted'
    <2>1. \A k \in 1..Len(stored') : stored'[k].n <= taken /\ stored'[k].n # 0
      BY <1>1, <1>4, <1>5, <1>6, <1>7 DEF Counted
    <2>2. \A t \in Connections :
            storing'[t].n <= taken /\ (storing'[t].n = 0 => storing'[t] = NoReading)
      <3>1. 0 <= taken
        BY <1>1 DEF MetricsTypes
      <3> QED
        BY <1>1, <1>8, <3>1 DEF Counted
    <2> QED
      BY <1>1, <1>3, <2>1, <2>2 DEF Counted
  <1>12. InOnePlace'
    <2>1. \A t, u \in Connections : \A i \in 1..Len(link[t]) :
            link[t][i].n # 0 => link[t][i].n # storing'[u].n
      BY <1>1, <1>8 DEF InOnePlace
    <2>2. ASSUME NEW t \in Connections, NEW i \in 1..Len(link[t]), NEW k \in 1..Len(stored')
          PROVE  link[t][i].n # stored'[k].n
      <3>1. CASE k \in 1..m
        BY <1>1, <1>5, <1>6, <3>1 DEF InOnePlace
      <3>2. CASE k = m + 1
        BY <1>1, <1>2, <1>4, <1>6, <3>2 DEF InOnePlace
      <3> QED
        BY <1>6, <1>7, <3>1, <3>2
    <2>3. \A t, u \in Connections : storing'[t].n # 0 /\ storing'[t].n = storing'[u].n => t = u
      BY <1>1, <1>8 DEF InOnePlace
    <2>4. ASSUME NEW t \in Connections, NEW k \in 1..Len(stored')
          PROVE  storing'[t].n # stored'[k].n
      <3>1. CASE t = s
        BY <1>1, <1>4, <1>5, <1>6, <1>7, <1>8, <3>1 DEF Counted
      <3>2. CASE t # s /\ k \in 1..m
        BY <1>1, <1>5, <1>6, <1>8, <3>2 DEF InOnePlace
      <3>3. CASE t # s /\ k = m + 1
        BY <1>1, <1>2, <1>4, <1>6, <1>8, <3>3 DEF InOnePlace
      <3> QED
        BY <1>6, <1>7, <3>1, <3>2, <3>3
    <2>5. \A t, u \in Connections : \A i \in 1..Len(link[t]) : \A j \in 1..Len(link[u]) :
            link[t][i].n # 0 /\ link[t][i].n = link[u][j].n => t = u /\ i = j
      BY <1>1 DEF InOnePlace
    <2>6. link' = link
      BY <1>3
    <2> QED
      BY ONLY <2>1, <2>2, <2>3, <2>4, <2>5, <2>6 DEF InOnePlace
  <1>13. CurrentIsStored'
    <2>1. stored' # <<>>
      BY <1>3, <1>5
    <2>2. m + 1 \in DOMAIN stored' /\ \A k \in 1..m : k \in DOMAIN stored'
      BY <1>5, <1>6
    <2>3. current.at \in Nat /\ \A k \in 1..m : stored[k].at \in Nat
      <3>1. \A y \in Reading : y.at \in Nat
        BY DEF Reading
      <3> QED
        BY <1>1, <1>5, <3>1, AllNumbered DEF MetricsTypes
    <2>4. stored = <<>> <=> m = 0
      BY <1>5
    <2>5. CASE stored = <<>>
      <3>1. m = 0 /\ current' = x
        BY <1>1, <1>3, <2>4, <2>5 DEF CurrentIsStored, Newer
      <3>2. \A k \in DOMAIN stored' : k = m + 1
        BY <1>6, <3>1
      <3>3. x.at <= x.at
        BY <1>4
      <3> QED
        BY <1>6, <2>1, <2>2, <3>1, <3>2, <3>3 DEF CurrentIsStored, CurrentIsLatest
    <2>6. CASE stored # <<>>
      <3>1. PICK j \in 1..m : stored[j] = current
        BY <1>1, <1>6, <2>6 DEF CurrentIsStored, CurrentIsLatest
      <3>2. \A k \in 1..m : stored[k].at <= current.at
        BY <1>1, <1>6, <2>6 DEF CurrentIsStored, CurrentIsLatest
      <3>3. current # NoReading
        <4>1. stored[j].n # 0
          BY <1>1, <1>5 DEF Counted
        <4> QED
          BY <1>8, <3>1, <4>1
      <3>4. CASE x.at >= current.at
        <4>1. current' = x
          BY <1>3, <3>4 DEF Newer
        <4>2. \A k \in 1..(m + 1) : stored'[k].at <= x.at
          <5>1. \A k \in 1..m : stored[k].at <= x.at
            BY <1>4, <2>3, <3>2, <3>4
          <5>2. x.at <= x.at
            BY <1>4
          <5> QED
            BY <1>6, <1>7, <5>1, <5>2
        <4> QED
          BY <1>6, <2>1, <2>2, <4>1, <4>2 DEF CurrentIsStored, CurrentIsLatest
      <3>5. CASE ~(x.at >= current.at)
        <4>1. current' = current
          BY <1>3, <3>3, <3>5 DEF Newer
        <4>2. x.at <= current.at
          BY <1>4, <2>3, <3>5
        <4>3. \A k \in 1..(m + 1) : stored'[k].at <= current.at
          BY <1>6, <1>7, <3>2, <4>2
        <4>4. stored'[j] = current /\ j \in DOMAIN stored'
          BY <1>6, <2>2, <3>1
        <4> QED
          BY <1>6, <2>1, <4>1, <4>3, <4>4 DEF CurrentIsStored, CurrentIsLatest
      <3> QED
        BY <3>4, <3>5
    <2> QED
      BY <2>5, <2>6
  <1>14. MinuteIsItsReadings'
    <2> SUFFICES ASSUME NEW b \in Buckets
                 PROVE  /\ ToSet(minute'[b]) = StoredIn(b)'
                        /\ \A i, j \in DOMAIN minute'[b], k, l \in DOMAIN stored' :
                             /\ i < j /\ stored'[k].n = minute'[b][i] /\ stored'[l].n = minute'[b][j]
                             => k > l
      BY DEF MinuteIsItsReadings
    <2>e. StoredIn(b)' = {stored'[k].n : k \in {l \in 1..(m + 1) : BucketOf(stored'[l]) = b}}
      BY <1>6 DEF StoredIn, BucketOf
    <2>f. StoredIn(b) = {stored[k].n : k \in {l \in 1..m : BucketOf(stored[l]) = b}}
      BY <1>6 DEF StoredIn
    <2>1. PICK q \in Seq(Nat) : q = minute[b]
      BY <1>1 DEF MetricsTypes
    <2>2. /\ ToSet(q) = StoredIn(b)
          /\ \A i, j \in DOMAIN q, k, l \in 1..m :
               i < j /\ stored[k].n = q[i] /\ stored[l].n = q[j] => k > l
      <3>1. ToSet(q) = StoredIn(b)
        BY <1>1, <2>1 DEF MinuteIsItsReadings
      <3>2. ASSUME NEW i \in DOMAIN q, NEW j \in DOMAIN q, NEW k \in 1..m, NEW l \in 1..m,
                   i < j, stored[k].n = q[i], stored[l].n = q[j]
            PROVE  k > l
        <4>1. k \in DOMAIN stored /\ l \in DOMAIN stored
          BY <1>6
        <4> QED
          BY <1>1, <2>1, <3>2, <4>1 DEF MinuteIsItsReadings
      <3> QED
        BY <3>1, <3>2
    <2>3. \A i \in DOMAIN q : q[i] # x.n /\ \E k \in 1..m : stored[k].n = q[i]
      <3>1. \A i \in DOMAIN q : q[i] \in StoredIn(b)
        BY <2>2 DEF ToSet
      <3> QED
        BY <1>6, <1>9, <3>1 DEF StoredIn
    <2>4. CASE BucketOf(x) # b
      <3>1. minute'[b] = minute[b]
        BY <1>1, <1>3, <2>4 DEF MetricsTypes
      <3>2. StoredIn(b)' = StoredIn(b)
        <4>1. {l \in 1..(m + 1) : BucketOf(stored'[l]) = b} = {l \in 1..m : BucketOf(stored[l]) = b}
          <5>1. \A l \in 1..m : l \in 1..(m + 1) /\ BucketOf(stored'[l]) = BucketOf(stored[l])
            BY <1>5, <1>6
          <5>2. BucketOf(stored'[m + 1]) # b
            BY <1>6, <2>4
          <5> QED
            BY <1>7, <5>1, <5>2
        <4> QED
          BY <1>6, <2>e, <2>f, <4>1
      <3>3. ASSUME NEW i \in DOMAIN q, NEW j \in DOMAIN q, NEW k \in 1..(m + 1), NEW l \in 1..(m + 1),
                   i < j, stored'[k].n = q[i], stored'[l].n = q[j]
            PROVE  k > l
        <4>1. k \in 1..m /\ l \in 1..m
          BY <1>6, <1>7, <2>3, <3>3
        <4>2. stored'[k] = stored[k] /\ stored'[l] = stored[l]
          BY <1>6, <4>1
        <4> QED
          BY <2>2, <3>3, <4>1, <4>2
      <3> QED
        BY <1>6, <2>1, <2>2, <3>1, <3>2, <3>3
    <2>5. CASE BucketOf(x) = b
      <3>1. minute'[b] = <<x.n>> \o q
        BY <1>1, <1>3, <2>1, <2>5 DEF MetricsTypes, Merge
      <3>2. StoredIn(b)' = StoredIn(b) \cup {x.n}
        <4>1. {l \in 1..(m + 1) : BucketOf(stored'[l]) = b} = {l \in 1..m : BucketOf(stored[l]) = b} \cup {m + 1}
          <5>1. \A l \in 1..m : l \in 1..(m + 1) /\ BucketOf(stored'[l]) = BucketOf(stored[l])
            BY <1>5, <1>6
          <5>2. BucketOf(stored'[m + 1]) = b /\ m + 1 \in 1..(m + 1)
            BY <1>5, <1>6, <2>5
          <5> QED
            BY <1>7, <5>1, <5>2
        <4>2. stored'[m + 1].n = x.n /\ \A l \in 1..m : stored'[l].n = stored[l].n
          BY <1>6
        <4>3. {stored'[l].n : l \in {l \in 1..m : BucketOf(stored[l]) = b} \cup {m + 1}}
                = {stored[l].n : l \in {l \in 1..m : BucketOf(stored[l]) = b}} \cup {x.n}
          BY <4>2
        <4> QED
          BY <2>e, <2>f, <4>1, <4>3
      <3>3. ASSUME NEW c \in Seq(Nat), NEW d, d = <<x.n>> \o c
            PROVE  /\ ToSet(d) = ToSet(c) \cup {x.n} /\ d[1] = x.n
                   /\ \A i \in DOMAIN d : i \in Nat /\ (i = 1 \/ (i - 1 \in DOMAIN c /\ d[i] = c[i - 1]))
        <4>1. PICK o \in Nat : o = Len(c)
          BY <3>3
        <4>2. DOMAIN c = 1..o /\ DOMAIN d = 1..(o + 1)
          BY <1>4, <3>3, <4>1
        <4>3. d[1] = x.n /\ \A i \in 1..o : d[i + 1] = c[i]
          BY <1>4, <3>3, <4>1
        <4>4. \A i \in 1..(o + 1) : i \in Nat /\ (i = 1 \/ (i - 1 \in 1..o /\ d[i] = c[i - 1]))
          <5> SUFFICES ASSUME NEW i \in 1..(o + 1), i # 1
                       PROVE  i - 1 \in 1..o /\ d[i] = c[i - 1]
            BY <4>1
          <5>1. i - 1 \in 1..o /\ (i - 1) + 1 = i
            BY <4>1
          <5> QED
            BY <4>3, <5>1
        <4>5. 1 \in 1..(o + 1) /\ \A i \in 1..o : i + 1 \in 1..(o + 1)
          BY <4>1
        <4>6. ToSet(d) = ToSet(c) \cup {x.n}
          <5>1. ToSet(d) = {d[i] : i \in 1..(o + 1)} /\ ToSet(c) = {c[i] : i \in 1..o}
            BY <4>2 DEF ToSet
          <5>2. ASSUME NEW y \in ToSet(d) PROVE y \in ToSet(c) \cup {x.n}
            <6>1. PICK i \in 1..(o + 1) : y = d[i]
              BY <5>1, <5>2
            <6> QED
              BY <4>3, <4>4, <5>1, <6>1
          <5>3. ASSUME NEW y \in ToSet(c) PROVE y \in ToSet(d)
            <6>1. PICK i \in 1..o : y = c[i]
              BY <5>1, <5>3
            <6> QED
              BY <4>3, <4>5, <5>1, <6>1
          <5>4. x.n \in ToSet(d)
            BY <4>3, <4>5, <5>1
          <5> QED
            BY <5>2, <5>3, <5>4
        <4> QED
          BY <4>2, <4>3, <4>4, <4>6
      <3>4. PICK e : e = minute'[b]
        OBVIOUS
      <3>5. /\ e[1] = x.n
            /\ \A i \in DOMAIN e : i \in Nat /\ (i = 1 \/ (i - 1 \in DOMAIN q /\ e[i] = q[i - 1]))
        BY <3>1, <3>3, <3>4
      <3>6. ASSUME NEW i \in DOMAIN e, NEW j \in DOMAIN e, NEW k \in 1..(m + 1), NEW l \in 1..(m + 1),
                   i < j, stored'[k].n = e[i], stored'[l].n = e[j]
            PROVE  k > l
        <4>1. j # 1 /\ i \in Nat /\ j \in Nat
          <5>1. i \in Nat /\ j \in Nat
            BY <3>5
          <5>2. i # 0
            <6>1. i = 1 \/ i - 1 \in DOMAIN q
              BY <3>5
            <6>2. DOMAIN q = 1..Len(q) /\ Len(q) \in Nat
              BY <2>1
            <6> QED
              BY <6>1, <6>2
          <5> QED
            BY <3>6, <5>1, <5>2
        <4>2. j - 1 \in DOMAIN q /\ e[j] = q[j - 1]
          BY <3>5, <4>1
        <4>3. l \in 1..m /\ stored'[l] = stored[l]
          BY <1>6, <1>7, <2>3, <3>6, <4>2
        <4>4. CASE i = 1
          <5>1. k = m + 1
            BY <1>6, <1>7, <1>9, <3>5, <3>6, <4>4
          <5> QED
            BY <1>5, <4>3, <5>1
        <4>5. CASE i # 1
          <5>1. i - 1 \in DOMAIN q /\ e[i] = q[i - 1]
            BY <3>5, <4>5
          <5>2. k \in 1..m /\ stored'[k] = stored[k]
            BY <1>6, <1>7, <2>3, <3>6, <5>1
          <5>3. i - 1 < j - 1
            BY <3>6, <4>1
          <5> QED
            BY <2>2, <3>6, <4>2, <4>3, <5>1, <5>2, <5>3
        <4> QED
          BY <4>4, <4>5
      <3>7. ToSet(minute'[b]) = StoredIn(b)'
        BY <2>1, <2>2, <3>1, <3>2, <3>3
      <3> QED
        BY <1>6, <3>4, <3>6, <3>7
    <2> QED
      BY <2>4, <2>5
  <1> QED
    BY <1>10, <1>11, <1>12, <1>13, <1>14 DEF MetricsInvariant

\* The steps that take nothing from a stream and put nothing on one, and those that only take.
LEMMA TakingStays ==
  ASSUME MetricsInvariant, NEW s \in Connections,
         link' = link \/ link' = [link EXCEPT ![s] = <<>>] \/ (link[s] # <<>> /\ link' = [link EXCEPT ![s] = Tail(@)]),
         storing' = storing \/ storing' = [storing EXCEPT ![s] = NoReading],
         clock' \in Nat, taken' \in Nat, taken <= taken',
         UNCHANGED <<current, minute, stored>>
  PROVE  MetricsInvariant'
  <1>1. MetricsTypes /\ Counted /\ InOnePlace /\ CurrentIsStored /\ MinuteIsItsReadings
    BY DEF MetricsInvariant
  <1>2. \A t \in Connections : link[t] \in Seq(Reading)
    BY <1>1 DEF MetricsTypes
  <1>3. /\ <<>> \in Seq(Reading) /\ NoReading \in Reading
        /\ link[s] # <<>> => Tail(link[s]) \in Seq(Reading)
    BY <1>2 DEF NoReading, Reading
  <1>4. link' \in [Connections -> Seq(Reading)]
    BY <1>1, <1>3 DEF MetricsTypes
  <1>5. storing' \in [Connections -> Reading]
    BY <1>1, <1>3 DEF MetricsTypes
  <1>6. MetricsTypes'
    BY <1>1, <1>4, <1>5 DEF MetricsTypes
  <1>7. \A t \in Connections : Rest(link'[t], link[t])
    BY <1>1, <1>2, RestOfItself DEF MetricsTypes
  <1>8. \A t \in Connections : storing'[t] = storing[t] \/ storing'[t] = NoReading
    BY <1>1 DEF MetricsTypes
  <1>9. Counted' /\ InOnePlace'
    BY <1>1, <1>4, <1>7, <1>8, FewerReadings
  <1> QED
    BY <1>1, <1>6, <1>9, TablesStay DEF MetricsInvariant

\* The steps that send a message.
LEMMA SendingStays ==
  ASSUME MetricsInvariant, NEW s \in Connections, Greets(s) \/ Publishes(s)
  PROVE  MetricsInvariant'
  <1>1. MetricsTypes /\ Counted /\ InOnePlace /\ CurrentIsStored /\ MinuteIsItsReadings
    BY DEF MetricsInvariant
  <1>2. taken \in Nat /\ clock \in Nat
    BY <1>1 DEF MetricsTypes
  <1>3. UNCHANGED <<clock, storing, current, minute, stored>>
    BY DEF Greets, Publishes
  <1>4. PICK m \in Reading :
          /\ SendTo(s, m)
          /\ \/ m = Hello /\ taken' = taken
             \/ m.n = taken + 1 /\ taken' = taken + 1
    <2>1. CASE Greets(s)
      <3>1. Hello \in Reading
        BY DEF Hello, Reading
      <3>2. SendTo(s, Hello) /\ taken' = taken
        BY <2>1 DEF Greets
      <3> QED
        BY <3>1, <3>2
    <2>2. CASE Publishes(s)
      <3>1. [n |-> taken + 1, at |-> clock] \in Reading
        BY <1>2 DEF Reading
      <3> QED
        BY <2>2, <3>1 DEF Publishes
    <2> QED
      BY <2>1, <2>2
  <1>5. taken' \in Nat /\ taken <= taken'
    BY <1>2, <1>4
  <1>6. CASE link' = link
    BY <1>1, <1>2, <1>3, <1>5, <1>6, TakingStays
  <1>7. CASE link' = [link EXCEPT ![s] = Append(@, m)]
    <2>1. Counted' /\ InOnePlace'
      BY <1>1, <1>3, <1>4, <1>7, OneMoreMessage
    <2>2. link' \in [Connections -> Seq(Reading)]
      BY <1>1, <1>7 DEF MetricsTypes
    <2>3. MetricsTypes'
      BY <1>1, <1>3, <1>5, <2>2 DEF MetricsTypes
    <2> QED
      BY <1>1, <1>3, <2>1, <2>3, TablesStay DEF MetricsInvariant
  <1> QED
    BY <1>4, <1>6, <1>7 DEF SendTo

\* The inductive invariant of the readings holds in every reachable state.
THEOREM MetricsInvariantAlways == MetricsSpec => []MetricsInvariant
  <1>1. MetricsInvariant /\ [MetricsNext]_metricsVars => MetricsInvariant'
    <2> SUFFICES ASSUME MetricsInvariant, [MetricsNext]_metricsVars PROVE MetricsInvariant'
      OBVIOUS
    <2>1. clock \in Nat /\ taken \in Nat /\ taken <= taken
      BY DEF MetricsInvariant, MetricsTypes
    <2>2. CASE UNCHANGED metricsVars \/ ClockMoves
      <3>1. clock' \in Nat /\ UNCHANGED <<taken, link, storing, current, minute, stored>>
        BY <2>1, <2>2, MetricsAssumption DEF metricsVars, ClockMoves
      <3>2. MetricsTypes'
        BY <3>1 DEF MetricsInvariant, MetricsTypes
      <3>3. Counted' /\ InOnePlace'
        BY <3>1 DEF MetricsInvariant, Counted, InOnePlace
      <3> QED
        BY <3>1, <3>2, <3>3, TablesStay DEF MetricsInvariant
    <2>3. ASSUME NEW s \in Connections, Connects(s) \/ CollectFails(s) \/ PublisherWakes(s)
          PROVE  MetricsInvariant'
      <3>1. UNCHANGED <<clock, taken, link, storing, current, minute, stored>>
        BY <2>3 DEF Connects, CollectFails, PublisherWakes
      <3> QED
        BY <2>1, <3>1, TakingStays
    <2>4. ASSUME NEW s \in Connections, ReceivesFirst(s) \/ StoreFails(s) \/ Breaks(s)
          PROVE  MetricsInvariant'
      <3>1. UNCHANGED <<clock, taken, current, minute, stored>>
        BY <2>4 DEF ReceivesFirst, StoreFails, Breaks
      <3>2. storing' = storing \/ storing' = [storing EXCEPT ![s] = NoReading]
        BY <2>4 DEF ReceivesFirst, StoreFails, Breaks
      <3>3. \/ link' = [link EXCEPT ![s] = <<>>]
            \/ link[s] # <<>> /\ link' = [link EXCEPT ![s] = Tail(@)]
        BY <2>4 DEF ReceivesFirst, StoreFails, Breaks, EndStream
      <3> QED
        BY <2>1, <3>1, <3>2, <3>3, TakingStays
    <2>5. ASSUME NEW s \in Connections, Handles(s)
          PROVE  MetricsInvariant'
      <3>1. UNCHANGED <<current, minute, stored>>
        BY <2>5 DEF Handles
      <3> QED
        BY <2>5, <3>1, HandlesStays, TablesStay DEF MetricsInvariant
    <2> QED
      BY <2>2, <2>3, <2>4, <2>5, SendingStays, StoresStays DEF MetricsNext
  <1> QED
    BY MetricsStarts, <1>1, PTL DEF MetricsSpec

\* TablesOfStored holds in every reachable state, for any streams and readings: metrics_current
\* is the latest reading that was stored, and every bucket of metrics_minute is made of the
\* readings of its minute, each once.
THEOREM TablesAreOfStored == MetricsSpec => []TablesOfStored
  <1>1. MetricsInvariant => TablesOfStored
    BY DEF MetricsInvariant, CurrentIsStored, TablesOfStored
  <1> QED
    BY MetricsInvariantAlways, <1>1, PTL

-----------------------------------------------------------------------------
(* Readings.                                                               *)

\* Induction over the turns of a loop: what holds before the first, and after a turn when it
\* held before, holds after each.
LEMMA UpTo ==
  ASSUME NEW N \in Nat, NEW G, 0 \in G, \A k \in 1..N : k - 1 \in G => k \in G
  PROVE  \A k \in 0..N : k \in G
  <1> DEFINE R == {ss \in Nat \X Nat : ss[1] < ss[2]}
  <1> DEFINE T == {k \in 0..N : k \notin G}
  <1>1. SUFFICES ASSUME T # {} PROVE FALSE
    OBVIOUS
  <1>2. IsWellFoundedOn(R, Nat)
    BY NatLessThanWellFounded DEF OpToRel
  <1>3. T \subseteq Nat
    OBVIOUS
  <1>4. PICK x \in T : \A y \in T : ~(<<y, x>> \in R)
    <2> HIDE DEF R, T
    <2> QED
      BY <1>1, <1>2, <1>3, WFMin
  <1>5. x \in 1..N /\ x - 1 \in 0..N /\ x - 1 \in Nat /\ x \in Nat /\ x - 1 < x
    BY <1>4
  <1>6. <<x - 1, x>> \in R
    BY <1>5
  <1>7. x - 1 \in G
    BY <1>4, <1>5, <1>6
  <1> QED
    BY <1>4, <1>5, <1>7

\* t is what a loop of N turns from a on computes, where g[n] is what the n-th makes of a value.
IsLoop(t, N, S, a, g) ==
  t \in [0..N -> S] /\ t[0] = a /\ \A n \in 1..N : t[n] = g[n][t[n - 1]]

\* A loop whose turns stay in a set has a value after each turn.
LEMMA LoopHasValues ==
  ASSUME NEW N \in Nat, NEW S, NEW a \in S, NEW g \in [1..N -> [S -> S]]
  PROVE  \E t : IsLoop(t, N, S, a, g)
  <1> DEFINE G == {m \in 0..N : \E t : IsLoop(t, m, S, a, g)}
  <1>1. 0 \in G
    <2>1. IsLoop([n \in 0..0 |-> a], 0, S, a, g)
      BY DEF IsLoop
    <2>2. 0 \in 0..N
      OBVIOUS
    <2> QED
      BY <2>1, <2>2
  <1>2. ASSUME NEW m \in 1..N, m - 1 \in G PROVE m \in G
    <2>1. PICK t : IsLoop(t, m - 1, S, a, g)
      BY <1>2
    <2> DEFINE u == [n \in 0..m |-> IF n = m THEN g[m][t[m - 1]] ELSE t[n]]
    <2>2. \A n \in 0..m : n # m => n \in 0..(m - 1)
      OBVIOUS
    <2>3. t \in [0..(m - 1) -> S] /\ t[m - 1] \in S
      BY <2>1 DEF IsLoop
    <2>4. u \in [0..m -> S]
      BY <2>2, <2>3
    <2>5. u[0] = a
      BY <2>1 DEF IsLoop
    <2>6. ASSUME NEW n \in 1..m PROVE u[n] = g[n][u[n - 1]]
      <3>1. n - 1 \in 0..(m - 1) /\ n - 1 \in 0..m /\ n - 1 # m /\ u[n - 1] = t[n - 1]
        OBVIOUS
      <3>2. CASE n = m
        BY <3>1, <3>2
      <3>3. CASE n # m
        <4>1. n \in 1..(m - 1) /\ u[n] = t[n]
          BY <3>3
        <4> QED
          BY <2>1, <3>1, <4>1 DEF IsLoop
      <3> QED
        BY <3>2, <3>3
    <2> HIDE DEF u
    <2>7. IsLoop(u, m, S, a, g) /\ m \in 0..N
      BY <2>4, <2>5, <2>6 DEF IsLoop
    <2> QED
      BY <2>7
  <1> HIDE DEF G
  <1>3. \A k \in 1..N : k - 1 \in G => k \in G
    BY <1>2
  <1>4. \A k \in 0..N : k \in G
    BY <1>1, <1>3, UpTo
  <1>5. N \in 0..N
    OBVIOUS
  <1> QED
    BY <1>4, <1>5 DEF G

\* A loop stays in a set that no turn leaves.
LEMMA LoopStays ==
  ASSUME NEW N \in Nat, NEW S, NEW t, DOMAIN t = 0..N, t = [k \in 0..N |-> t[k]], t[0] \in S,
         \A k \in 1..N : t[k - 1] \in S => t[k] \in S
  PROVE  t \in [0..N -> S]
  <1> DEFINE G == {k \in 0..N : t[k] \in S}
  <1>1. 0 \in G /\ \A k \in 1..N : k - 1 \in G => k \in G
    OBVIOUS
  <1>2. \A k \in 0..N : k \in G
    <2> HIDE DEF G
    <2> QED
      BY <1>1, UpTo
  <1>3. \A k \in 0..N : t[k] \in S
    BY <1>2
  <1> QED
    BY <1>3

USE ReadingsAssumption

\* The lists of n members of a set.
Lists(n, V) == [1..n -> V]

\* ParseCPU's loop, turn by turn.
LEMMA AddingTurns ==
  ASSUME NEW N \in Nat, NEW values \in Lists(N, Counter)
  PROVE  LET t == After(AddCounter, 0, values) IN
         /\ Len(values) = N /\ t \in [0..N -> Counter \cup {Overflow}] /\ t[0] = 0
         /\ \A n \in 1..N : t[n] = AddCounter(t[n - 1], values[n])
  <1> DEFINE S == Counter \cup {Overflow}
             g == [n \in 1..N |-> [x \in S |-> AddCounter(x, values[n])]]
             t == After(AddCounter, 0, values)
  <1>1. Len(values) = N /\ values \in [1..N -> Counter]
    BY DEF Lists
  <1>2. 0 \in S /\ \A x \in S : \A v \in Counter : AddCounter(x, v) \in S
    BY DEF Counter, AddCounter, Overflow, Wrap
  <1>3. g \in [1..N -> [S -> S]] /\ \A x \in S : \A n \in 1..N : g[n][x] = AddCounter(x, values[n])
    <2> HIDE DEF S
    <2> QED
      BY <1>1, <1>2
  <1> HIDE DEF S, g
  <1>4. PICK u : IsLoop(u, N, S, 0, g)
    BY <1>2, <1>3, LoopHasValues
  <1>5. u = [n \in 0..N |-> IF n = 0 THEN 0 ELSE AddCounter(u[n - 1], values[n])]
    <2>1. u \in [0..N -> S] /\ u[0] = 0 /\ \A n \in 1..N : u[n] = g[n][u[n - 1]]
      BY <1>4 DEF IsLoop
    <2>2. ASSUME NEW n \in 1..N PROVE u[n] = AddCounter(u[n - 1], values[n])
      <3>1. u[n - 1] \in S
        BY <2>1
      <3> QED
        BY <1>3, <2>1, <3>1
    <2>3. \A n \in 0..N : n # 0 => n \in 1..N
      OBVIOUS
    <2> QED
      BY <2>1, <2>2, <2>3
  <1>6. t = [n \in 0..N |-> IF n = 0 THEN 0 ELSE AddCounter(t[n - 1], values[n])]
    BY <1>1, <1>5, Zenon DEF After
  <1> HIDE DEF t
  <1>7. t[0] = 0 /\ \A n \in 1..N : t[n] = AddCounter(t[n - 1], values[n])
    BY <1>6
  <1>8. t \in [0..N -> S]
    <2>1. DOMAIN t = 0..N /\ t = [n \in 0..N |-> t[n]]
      BY <1>6
    <2>2. t[0] \in S /\ \A n \in 1..N : t[n - 1] \in S => t[n] \in S
      BY <1>1, <1>2, <1>7
    <2> QED
      BY <2>1, <2>2, LoopStays
  <1> QED
    BY <1>1, <1>7, <1>8 DEF t, S

\* The same sum without a width.
LEMMA SummingTurns ==
  ASSUME NEW N \in Nat, NEW values \in Lists(N, Counter)
  PROVE  LET t == After(Plus, 0, values) IN
         /\ Len(values) = N /\ t \in [0..N -> Nat] /\ t[0] = 0
         /\ \A n \in 1..N : t[n] = Plus(t[n - 1], values[n])
  <1> DEFINE S == Nat
             g == [n \in 1..N |-> [x \in S |-> Plus(x, values[n])]]
             t == After(Plus, 0, values)
  <1>1. Len(values) = N /\ values \in [1..N -> Counter]
    BY DEF Lists
  <1>2. 0 \in S /\ \A x \in S : \A v \in Counter : Plus(x, v) \in S
    BY DEF Counter, Plus
  <1>3. g \in [1..N -> [S -> S]] /\ \A x \in S : \A n \in 1..N : g[n][x] = Plus(x, values[n])
    <2> HIDE DEF S
    <2> QED
      BY <1>1, <1>2
  <1> HIDE DEF S, g
  <1>4. PICK u : IsLoop(u, N, S, 0, g)
    BY <1>2, <1>3, LoopHasValues
  <1>5. u = [n \in 0..N |-> IF n = 0 THEN 0 ELSE Plus(u[n - 1], values[n])]
    <2>1. u \in [0..N -> S] /\ u[0] = 0 /\ \A n \in 1..N : u[n] = g[n][u[n - 1]]
      BY <1>4 DEF IsLoop
    <2>2. ASSUME NEW n \in 1..N PROVE u[n] = Plus(u[n - 1], values[n])
      <3>1. u[n - 1] \in S
        BY <2>1
      <3> QED
        BY <1>3, <2>1, <3>1
    <2>3. \A n \in 0..N : n # 0 => n \in 1..N
      OBVIOUS
    <2> QED
      BY <2>1, <2>2, <2>3
  <1>6. t = [n \in 0..N |-> IF n = 0 THEN 0 ELSE Plus(t[n - 1], values[n])]
    BY <1>1, <1>5, Zenon DEF After
  <1> HIDE DEF t
  <1>7. t[0] = 0 /\ \A n \in 1..N : t[n] = Plus(t[n - 1], values[n])
    BY <1>6
  <1>8. t \in [0..N -> S]
    <2>1. DOMAIN t = 0..N /\ t = [n \in 0..N |-> t[n]]
      BY <1>6
    <2>2. t[0] \in S /\ \A n \in 1..N : t[n - 1] \in S => t[n] \in S
      BY <1>1, <1>2, <1>7
    <2> QED
      BY <2>1, <2>2, LoopStays
  <1> QED
    BY <1>1, <1>7, <1>8 DEF t, S

\* The loops over interfaces and mounts.
LEMMA KeepingTurns ==
  ASSUME NEW N \in Nat, NEW V, NEW values \in Lists(N, V)
  PROVE  LET t == After(Keep, <<>>, values) IN
         /\ Len(values) = N /\ t \in [0..N -> Seq(V)] /\ t[0] = <<>>
         /\ \A n \in 1..N : t[n] = Keep(t[n - 1], values[n])
  <1> DEFINE S == Seq(V)
             g == [n \in 1..N |-> [x \in S |-> Keep(x, values[n])]]
             t == After(Keep, <<>>, values)
  <1>1. Len(values) = N /\ values \in [1..N -> V]
    BY DEF Lists
  <1>2. <<>> \in S /\ \A x \in S : \A v \in V : Keep(x, v) \in S
    BY DEF Keep
  <1>3. g \in [1..N -> [S -> S]] /\ \A x \in S : \A n \in 1..N : g[n][x] = Keep(x, values[n])
    <2> HIDE DEF S
    <2> QED
      BY <1>1, <1>2
  <1> HIDE DEF S, g
  <1>4. PICK u : IsLoop(u, N, S, <<>>, g)
    BY <1>2, <1>3, LoopHasValues
  <1>5. u = [n \in 0..N |-> IF n = 0 THEN <<>> ELSE Keep(u[n - 1], values[n])]
    <2>1. u \in [0..N -> S] /\ u[0] = <<>> /\ \A n \in 1..N : u[n] = g[n][u[n - 1]]
      BY <1>4 DEF IsLoop
    <2>2. ASSUME NEW n \in 1..N PROVE u[n] = Keep(u[n - 1], values[n])
      <3>1. u[n - 1] \in S
        BY <2>1
      <3> QED
        BY <1>3, <2>1, <3>1
    <2>3. \A n \in 0..N : n # 0 => n \in 1..N
      OBVIOUS
    <2> QED
      BY <2>1, <2>2, <2>3
  <1>6. t = [n \in 0..N |-> IF n = 0 THEN <<>> ELSE Keep(t[n - 1], values[n])]
    BY <1>1, <1>5, Zenon DEF After
  <1> HIDE DEF t
  <1>7. t[0] = <<>> /\ \A n \in 1..N : t[n] = Keep(t[n - 1], values[n])
    BY <1>6
  <1>8. t \in [0..N -> S]
    <2>1. DOMAIN t = 0..N /\ t = [n \in 0..N |-> t[n]]
      BY <1>6
    <2>2. t[0] \in S /\ \A n \in 1..N : t[n - 1] \in S => t[n] \in S
      BY <1>1, <1>2, <1>7
    <2> QED
      BY <2>1, <2>2, LoopStays
  <1> QED
    BY <1>1, <1>7, <1>8 DEF t, S

\* What Push has left in the buffer.
LEMMA PushingTurns ==
  ASSUME NEW N \in Nat, NEW V, NEW values \in Lists(N, V)
  PROVE  LET t == After(Push, <<>>, values) IN
         /\ Len(values) = N /\ t \in [0..N -> Seq(V)] /\ t[0] = <<>>
         /\ \A n \in 1..N : t[n] = Push(t[n - 1], values[n])
  <1> DEFINE S == Seq(V)
             g == [n \in 1..N |-> [x \in S |-> Push(x, values[n])]]
             t == After(Push, <<>>, values)
  <1>1. Len(values) = N /\ values \in [1..N -> V]
    BY DEF Lists
  <1>2. <<>> \in S /\ \A x \in S : \A v \in V : Push(x, v) \in S
    BY DEF Push
  <1>3. g \in [1..N -> [S -> S]] /\ \A x \in S : \A n \in 1..N : g[n][x] = Push(x, values[n])
    <2> HIDE DEF S
    <2> QED
      BY <1>1, <1>2
  <1> HIDE DEF S, g
  <1>4. PICK u : IsLoop(u, N, S, <<>>, g)
    BY <1>2, <1>3, LoopHasValues
  <1>5. u = [n \in 0..N |-> IF n = 0 THEN <<>> ELSE Push(u[n - 1], values[n])]
    <2>1. u \in [0..N -> S] /\ u[0] = <<>> /\ \A n \in 1..N : u[n] = g[n][u[n - 1]]
      BY <1>4 DEF IsLoop
    <2>2. ASSUME NEW n \in 1..N PROVE u[n] = Push(u[n - 1], values[n])
      <3>1. u[n - 1] \in S
        BY <2>1
      <3> QED
        BY <1>3, <2>1, <3>1
    <2>3. \A n \in 0..N : n # 0 => n \in 1..N
      OBVIOUS
    <2> QED
      BY <2>1, <2>2, <2>3
  <1>6. t = [n \in 0..N |-> IF n = 0 THEN <<>> ELSE Push(t[n - 1], values[n])]
    BY <1>1, <1>5, Zenon DEF After
  <1> HIDE DEF t
  <1>7. t[0] = <<>> /\ \A n \in 1..N : t[n] = Push(t[n - 1], values[n])
    BY <1>6
  <1>8. t \in [0..N -> S]
    <2>1. DOMAIN t = 0..N /\ t = [n \in 0..N |-> t[n]]
      BY <1>6
    <2>2. t[0] \in S /\ \A n \in 1..N : t[n - 1] \in S => t[n] \in S
      BY <1>1, <1>2, <1>7
    <2> QED
      BY <2>1, <2>2, LoopStays
  <1> QED
    BY <1>1, <1>7, <1>8 DEF t, S

\* Of two numbers Min takes the smaller.
LEMMA MinIs ==
  ASSUME NEW a \in Int, NEW b \in Int
  PROVE  Min({a, b}) = IF a <= b THEN a ELSE b
  <1> DEFINE c == IF a <= b THEN a ELSE b
  <1>1. c \in {a, b} /\ \A y \in {a, b} : c <= y
    OBVIOUS
  <1>2. \A x \in {a, b} : (\A y \in {a, b} : x <= y) => x = c
    OBVIOUS
  <1> QED
    BY <1>1, <1>2 DEF Min

\* What fits a counter does not wrap.
LEMMA WrapIs ==
  ASSUME NEW n \in Counter PROVE Wrap(n) = n
  BY DEF Wrap, Counter

\* Whether a product fits, asked by a division.
LEMMA ProductFits ==
  ASSUME NEW n \in Nat, NEW u \in Nat \ {0}
  PROVE  n > MaxCounter \div u <=> n * u > MaxCounter
  OBVIOUS

\* A product grows with its first factor, and a difference may be taken before or after.
LEMMA ProductGrows ==
  ASSUME NEW a \in Nat, NEW b \in Nat, NEW u \in Nat, a <= b
  PROVE  a * u \in Nat /\ b * u \in Nat /\ a * u <= b * u /\ (b * u) - (a * u) = (b - a) * u
  OBVIOUS

\* ParseCPU's total is the sum as long as that fits, and Overflow from then on.
LEMMA TotalIsSum ==
  ASSUME NEW N \in Nat, NEW values \in Lists(N, Counter), NEW k \in 0..N
  PROVE  LET t == After(AddCounter, 0, values)
             s == After(Plus, 0, values)
         IN t[k] = IF s[k] > MaxCounter THEN Overflow ELSE s[k]
  <1> DEFINE t == After(AddCounter, 0, values)
             s == After(Plus, 0, values)
             G == {n \in 0..N : t[n] = IF s[n] > MaxCounter THEN Overflow ELSE s[n]}
  <1>1. /\ t[0] = 0 /\ \A n \in 1..N : t[n] = AddCounter(t[n - 1], values[n])
        /\ s \in [0..N -> Nat] /\ s[0] = 0 /\ \A n \in 1..N : s[n] = Plus(s[n - 1], values[n])
    BY AddingTurns, SummingTurns
  <1> HIDE DEF t, s
  <1>2. 0 \in G
    <2>1. 0 \in 0..N /\ ~(0 > MaxCounter)
      OBVIOUS
    <2> QED
      BY <1>1, <2>1
  <1>3. ASSUME NEW n \in 1..N, n - 1 \in G PROVE n \in G
    <2>1. PICK before \in Nat, v \in Counter : before = s[n - 1] /\ v = values[n]
      <3>1. s[n - 1] \in Nat /\ values[n] \in Counter
        BY <1>1 DEF Lists
      <3> QED
        BY <3>1
    <2>2. s[n] = before + v /\ t[n] = AddCounter(t[n - 1], v)
      BY <1>1, <2>1 DEF Plus
    <2>3. t[n - 1] = IF before > MaxCounter THEN Overflow ELSE before
      BY <1>3, <2>1
    <2>4. v \in Nat
      BY <2>1 DEF Counter
    <2>5. CASE before > MaxCounter
      <3>1. t[n] = Overflow /\ s[n] > MaxCounter
        BY <2>2, <2>3, <2>4, <2>5 DEF AddCounter
      <3> QED
        BY <3>1
    <2>6. CASE before <= MaxCounter /\ MaxCounter - before < v
      <3>1. t[n] = Overflow /\ s[n] > MaxCounter
        BY <2>2, <2>3, <2>4, <2>6 DEF AddCounter
      <3> QED
        BY <3>1
    <2>7. CASE before <= MaxCounter /\ before + v <= MaxCounter
      <3>1. before # Overflow /\ before + v \in Counter
        BY <2>4, <2>7 DEF Overflow, Counter
      <3>2. t[n] = before + v
        BY <2>2, <2>3, <2>4, <2>7, <3>1, WrapIs DEF AddCounter
      <3> QED
        BY <2>2, <2>4, <2>7, <3>2
    <2> QED
      BY <2>4, <2>5, <2>6, <2>7
  <1> HIDE DEF G
  <1>4. \A n \in 1..N : n - 1 \in G => n \in G
    BY <1>3
  <1>5. k \in G
    BY <1>2, <1>4, UpTo
  <1> QED
    BY <1>5 DEF G, t, s

\* A sum of counters only grows.
LEMMA SumGrows ==
  ASSUME NEW N \in Nat, NEW values \in Lists(N, Counter), NEW i \in 0..N
  PROVE  After(Plus, 0, values)[i] <= After(Plus, 0, values)[N]
  <1> DEFINE s == After(Plus, 0, values)
             G == {n \in 0..N : i <= n => s[i] <= s[n]}
  <1>1. s \in [0..N -> Nat] /\ s[0] = 0 /\ \A n \in 1..N : s[n] = Plus(s[n - 1], values[n])
    BY SummingTurns
  <1> HIDE DEF s
  <1>2. 0 \in G
    BY <1>1
  <1>3. ASSUME NEW n \in 1..N, n - 1 \in G PROVE n \in G
    <2>1. s[n - 1] \in Nat /\ s[n] \in Nat /\ s[i] \in Nat /\ values[n] \in Nat
      BY <1>1 DEF Counter, Lists
    <2>2. s[n - 1] <= s[n]
      BY <1>1, <2>1 DEF Plus
    <2> QED
      BY <1>3, <2>1, <2>2
  <1> HIDE DEF G
  <1>4. \A n \in 1..N : n - 1 \in G => n \in G
    BY <1>3
  <1>5. N \in 0..N
    OBVIOUS
  <1>6. N \in G
    BY <1>2, <1>4, <1>5, UpTo
  <1> QED
    BY <1>6 DEF G, s

\* The rows of one kind among the first n.
Seen(rows, kind, n) == Cardinality({k \in 1..n : rows[k] = kind})

\* They are finitely many, and one more if the next is.
LEMMA CountGrows ==
  ASSUME NEW rows, NEW kind, NEW n \in Nat
  PROVE  /\ Seen(rows, kind, n) \in Nat
         /\ Seen(rows, kind, n + 1) = Seen(rows, kind, n) + (IF rows[n + 1] = kind THEN 1 ELSE 0)
  <1> DEFINE met(m) == {k \in 1..m : rows[k] = kind}
  <1>1. IsFiniteSet(met(n)) /\ Cardinality(met(n)) \in Nat
    <2>1. IsFiniteSet(1..n)
      BY FS_Interval
    <2>2. met(n) \subseteq 1..n
      OBVIOUS
    <2>3. IsFiniteSet(met(n))
      BY <2>1, <2>2, FS_Subset
    <2> QED
      BY <2>3, FS_CardinalityType
  <1>2. n + 1 \notin met(n)
    OBVIOUS
  <1>3. CASE rows[n + 1] = kind
    <2>1. met(n + 1) = met(n) \cup {n + 1}
      BY <1>3
    <2>2. Cardinality(met(n) \cup {n + 1}) = Cardinality(met(n)) + 1
      BY <1>1, <1>2, FS_AddElement
    <2> QED
      BY <1>1, <1>3, <2>1, <2>2 DEF Seen
  <1>4. CASE rows[n + 1] # kind
    <2>1. met(n + 1) = met(n)
      BY <1>4
    <2> QED
      BY <1>1, <1>4, <2>1 DEF Seen
  <1> QED
    BY <1>3, <1>4

\* Of the rows of the kind that is kept, the loop has the first Limit.
LEMMA KeptAreFirst ==
  ASSUME NEW N \in Nat, NEW V, NEW kind \in V, V \cap {"eth", "disk"} = {kind},
         NEW rows \in Lists(N, V)
  PROVE  Len(After(Keep, <<>>, rows)[N]) = Min({Limit, Count(rows, kind)})
  <1> DEFINE out == After(Keep, <<>>, rows)
             count(n) == Seen(rows, kind, n)
             G == {n \in 0..N : Len(out[n]) = IF Limit <= count(n) THEN Limit ELSE count(n)}
  <1>1. /\ out \in [0..N -> Seq(V)] /\ out[0] = <<>>
        /\ \A n \in 1..N : out[n] = Keep(out[n - 1], rows[n])
    BY ONLY N \in Nat, rows \in Lists(N, V), KeepingTurns
  <1>2. \A n \in 0..N : count(n) \in Nat
    BY CountGrows
  <1>3. \A n \in 1..N : count(n) = count(n - 1) + (IF rows[n] = kind THEN 1 ELSE 0)
    <2>1. ASSUME NEW n \in 1..N
          PROVE  count(n) = count(n - 1) + (IF rows[n] = kind THEN 1 ELSE 0)
      <3>1. n - 1 \in Nat /\ (n - 1) + 1 = n
        OBVIOUS
      <3> QED
        BY <3>1, CountGrows
    <2> QED
      BY <2>1
  <1>4. count(0) = 0
    <2>1. {k \in 1..0 : rows[k] = kind} = {}
      OBVIOUS
    <2> QED
      BY <2>1, FS_EmptySet DEF Seen
  <1> HIDE DEF out, count
  <1>5. 0 \in G
    <2>1. 0 \in 0..N /\ Len(<<>>) = 0 /\ ~(Limit <= 0)
      OBVIOUS
    <2> QED
      BY <1>1, <1>4, <2>1
  <1>6. ASSUME NEW n \in 1..N, n - 1 \in G PROVE n \in G
    <2>r. n - 1 \in 0..N /\ rows[n] \in V
      BY DEF Lists
    <2>1. n - 1 \in 0..N /\ out[n - 1] \in Seq(V) /\ out[n] = Keep(out[n - 1], rows[n]) /\ rows[n] \in V
      BY <1>1, <2>r
    <2>2. Len(out[n]) = IF Len(out[n - 1]) < Limit /\ rows[n] = kind
                        THEN Len(out[n - 1]) + 1 ELSE Len(out[n - 1])
      BY <2>1 DEF Keep
    <2>3. PICK c \in Nat : c = count(n - 1)
      BY <1>2, <2>1
    <2>4. Len(out[n - 1]) = IF Limit <= c THEN Limit ELSE c
      BY <1>6, <2>3
    <2>5. count(n) = c + (IF rows[n] = kind THEN 1 ELSE 0)
      BY <1>3, <2>3
    <2> QED
      BY <2>2, <2>4, <2>5
  <1> HIDE DEF G
  <1>7. N \in G
    <2>1. N \in 0..N /\ \A n \in 1..N : n - 1 \in G => n \in G
      BY <1>6
    <2> QED
      BY <1>5, <2>1, UpTo
  <1>8. count(N) = Count(rows, kind) /\ count(N) \in Nat
    <2>1. N \in 0..N /\ DOMAIN rows = 1..N
      BY DEF Lists
    <2> QED
      BY <1>2, <2>1 DEF count, Count, Seen
  <1>9. Min({Limit, count(N)}) = IF Limit <= count(N) THEN Limit ELSE count(N)
    BY <1>8, MinIs
  <1> QED
    BY <1>7, <1>8, <1>9 DEF G, out

\* The items are the last Limit of N values, in their order.
AreLast(items, values, N) ==
  /\ Len(items) = Min({Limit, N})
  /\ \A k \in 1..Len(items) : items[k] = values[N - Len(items) + k]

\* The buffer has the last Limit values that were pushed, in their order.
LEMMA BufferedAreLast ==
  ASSUME NEW N \in Nat, NEW V, NEW values \in Lists(N, V)
  PROVE  AreLast(Drain(values), values, N)
  <1> DEFINE b == After(Push, <<>>, values)
             Trails(n) == /\ Len(b[n]) = IF Limit <= n THEN Limit ELSE n
                          /\ \A k \in 1..Len(b[n]) : b[n][k] = values[n - Len(b[n]) + k]
             G == {n \in 0..N : Trails(n)}
  <1>1. /\ b \in [0..N -> Seq(V)] /\ b[0] = <<>>
        /\ \A n \in 1..N : b[n] = Push(b[n - 1], values[n])
    BY ONLY N \in Nat, values \in Lists(N, V), PushingTurns
  <1>d. Drain(values) = b[N]
    BY DEF Drain, Lists
  <1> HIDE DEF b
  <1>2. 0 \in G
    <2>1. 0 \in 0..N /\ ~(Limit <= 0) /\ 1..0 = {}
      OBVIOUS
    <2>2. Len(b[0]) = 0
      BY <1>1
    <2>3. Trails(0)
      <3>1. Len(b[0]) = IF Limit <= 0 THEN Limit ELSE 0
        BY ONLY <2>1, <2>2
      <3>2. \A k \in 1..Len(b[0]) : b[0][k] = values[0 - Len(b[0]) + k]
        BY ONLY <2>1, <2>2
      <3> QED
        BY ONLY <3>1, <3>2
    <2> QED
      BY ONLY <2>1, <2>3
  <1>3. ASSUME NEW n \in 1..N, Trails(n - 1) PROVE Trails(n)
    <2>1. PICK p \in Seq(V), v \in V : p = b[n - 1] /\ v = values[n]
      <3>0. n - 1 \in 0..N
        OBVIOUS
      <3>1. b[n - 1] \in Seq(V)
        BY ONLY <1>1, <3>0
      <3>2. values[n] \in V
        BY ONLY values \in Lists(N, V), n \in 1..N DEF Lists
      <3> QED
        BY <3>1, <3>2
    <2>2. b[n] = Append(IF Len(p) = Limit THEN Tail(p) ELSE p, v)
      BY <1>1, <2>1 DEF Push
    <2>3. PICK l \in Nat : l = Len(p)
      OBVIOUS
    <2>4. l = (IF Limit <= n - 1 THEN Limit ELSE n - 1) /\ \A k \in 1..l : p[k] = values[(n - 1) - l + k]
      BY <1>3, <2>1, <2>3
    <2>5. CASE l = Limit
      <3>1. Len(b[n]) = l /\ b[n][l] = v /\ \A k \in 1..(l - 1) : b[n][k] = p[k + 1]
        <4>d. l # 0 /\ l - 1 \in Nat /\ Len(<<>>) = 0
          BY <2>3, <2>5
        <4>e. p # <<>>
          BY <2>3, <4>d
        <4>t. Tail(p) \in Seq(V)
          BY <4>e
        <4>1. PICK q \in Seq(V) : q = Tail(p)
          BY <4>t
        <4>2. Len(q) = l - 1 /\ \A k \in 1..(l - 1) : q[k] = p[k + 1]
          BY <2>3, <4>d, <4>e, <4>1
        <4>3. b[n] = Append(q, v)
          BY <2>2, <2>3, <2>5, <4>1
        <4>4. Len(b[n]) = l /\ b[n][(l - 1) + 1] = v /\ \A k \in 1..(l - 1) : b[n][k] = q[k]
          BY <2>3, <4>d, <4>2, <4>3
        <4> QED
          BY <2>3, <4>2, <4>4
      <3>2. ASSUME NEW k \in 1..l PROVE b[n][k] = values[n - l + k]
        <4>1. CASE k = l
          BY <2>1, <3>1, <4>1
        <4>2. CASE k # l
          <5>1. k \in 1..(l - 1) /\ k + 1 \in 1..l /\ (n - 1) - l + (k + 1) = n - l + k
            BY <4>2
          <5> QED
            BY <2>4, <3>1, <5>1
        <4> QED
          BY <4>1, <4>2
      <3>3. Len(b[n]) = IF Limit <= n THEN Limit ELSE n
        BY <2>4, <2>5, <3>1
      <3>4. \A k \in 1..Len(b[n]) : b[n][k] = values[n - Len(b[n]) + k]
        BY <3>1, <3>2
      <3> QED
        BY <3>3, <3>4
    <2>6. CASE l # Limit
      <3>1. l = n - 1 /\ n <= Limit
        BY <2>4, <2>6
      <3>2. Len(b[n]) = n /\ b[n][n] = v /\ \A k \in 1..(n - 1) : b[n][k] = p[k]
        <4>1. b[n] = Append(p, v) /\ Len(p) = n - 1
          BY <2>2, <2>3, <2>6, <3>1
        <4> QED
          BY <4>1
      <3>3. ASSUME NEW k \in 1..n PROVE b[n][k] = values[n - n + k]
        <4>1. n - n + k = k /\ (n - 1) - l + k = k
          BY <3>1
        <4>2. CASE k = n
          BY <2>1, <3>2, <4>1, <4>2
        <4>3. CASE k # n
          <5>1. k \in 1..(n - 1) /\ k \in 1..l
            BY <3>1, <4>3
          <5> QED
            BY <2>4, <3>2, <4>1, <5>1
        <4> QED
          BY <4>2, <4>3
      <3>4. Len(b[n]) = IF Limit <= n THEN Limit ELSE n
        BY <3>1, <3>2
      <3>5. \A k \in 1..Len(b[n]) : b[n][k] = values[n - Len(b[n]) + k]
        BY <3>2, <3>3
      <3> QED
        BY <3>4, <3>5
    <2> QED
      BY <2>5, <2>6
  <1> HIDE DEF Trails
  <1>4. Trails(N)
    <2>1. N \in 0..N /\ \A n \in 1..N : n - 1 \in G => n \in G
      BY <1>3
    <2>2. N \in G
      <3> HIDE DEF G
      <3> QED
        BY <1>2, <2>1, UpTo
    <2> QED
      BY <2>2
  <1>5. Min({Limit, N}) = IF Limit <= N THEN Limit ELSE N
    BY MinIs
  <1>6. /\ Len(b[N]) = IF Limit <= N THEN Limit ELSE N
        /\ \A k \in 1..Len(b[N]) : b[N][k] = values[N - Len(b[N]) + k]
    BY <1>4 DEF Trails
  <1> QED
    BY <1>5, <1>6, <1>d DEF AreLast

\* A cpu line is refused when it is short or its sum does not fit, and exact otherwise.
LEMMA CPUIsExact ==
  ASSUME NEW N \in Nat, NEW values \in Lists(N, Counter)
  PROVE  IF ParseCPU(values) = Panics THEN Len(values) = 4
         ELSE IF ParseCPU(values) = Refused THEN Len(values) < 4 \/ Sum(values) > MaxCounter
         ELSE ParseCPU(values) = [total |-> Sum(values), idle |-> values[4] + values[5]]
  <1> DEFINE t == After(AddCounter, 0, values)
             s == After(Plus, 0, values)
  <1>1. /\ Len(values) = N /\ Sum(values) = s[N] /\ s \in [0..N -> Nat]
        /\ \A n \in 1..N : s[n] = Plus(s[n - 1], values[n])
    BY SummingTurns DEF Sum
  <1>2. N \in 0..N /\ s[N] \in Nat /\ t[N] = IF s[N] > MaxCounter THEN Overflow ELSE s[N]
    BY <1>1, TotalIsSum
  <1>3. Panics # Refused /\ \A x, y : [total |-> x, idle |-> y] \notin {Panics, Refused}
    BY DEF Panics, Refused
  <1> HIDE DEF t, s
  <1>4. ParseCPU(values) = IF N < 4 \/ t[N] = Overflow THEN Refused
                           ELSE IF N = 4 THEN Panics
                           ELSE [total |-> t[N], idle |-> Wrap(values[4] + values[5])]
    BY <1>1 DEF ParseCPU, t
  <1>5. ASSUME N >= 5, s[N] <= MaxCounter
        PROVE  Wrap(values[4] + values[5]) = values[4] + values[5]
    <2>1. 3 \in 0..N /\ 4 \in 1..N /\ 5 \in 1..N /\ 5 \in 0..N
      BY <1>5
    <2>c. \A n \in 1..N : values[n] \in Counter
      BY DEF Lists
    <2>n. \A n \in 0..N : s[n] \in Nat
      BY <1>1
    <2>2. values[4] \in Nat /\ values[5] \in Nat /\ s[3] \in Nat /\ s[5] \in Nat
      BY <2>c, <2>n, <2>1 DEF Counter
    <2>3. s[4] = s[3] + values[4] /\ s[5] = s[4] + values[5]
      BY <1>1, <2>1 DEF Plus
    <2>4. s[5] <= s[N]
      BY <2>1, SumGrows DEF s
    <2>5. values[4] + values[5] \in Counter
      <3>1. s[5] = s[3] + values[4] + values[5]
        BY <2>2, <2>3
      <3> QED
        BY <1>2, <1>5, <2>2, <2>4, <3>1 DEF Counter
    <2> QED
      BY <2>5, WrapIs
  <1>6. s[N] <= MaxCounter => t[N] # Overflow /\ t[N] = s[N]
    BY <1>2 DEF Overflow
  <1>7. CASE N < 4 \/ s[N] > MaxCounter
    BY <1>1, <1>2, <1>3, <1>4, <1>7
  <1>8. CASE N = 4 /\ s[N] <= MaxCounter
    BY <1>1, <1>3, <1>4, <1>6, <1>8
  <1>9. CASE N >= 5 /\ s[N] <= MaxCounter
    <2>1. ParseCPU(values) = [total |-> s[N], idle |-> values[4] + values[5]]
      BY <1>4, <1>5, <1>6, <1>9
    <2> QED
      BY <1>1, <1>3, <2>1
  <1> QED
    BY <1>2, <1>7, <1>8, <1>9

\* Memory is refused when a line is missing, more is available than there is, or the bytes do
\* not fit, and exact otherwise.
LEMMA MemoryIsExact ==
  ASSUME NEW total \in Counter, NEW available \in Counter
  PROVE  IF ParseMeminfo(total, available) = Refused
         THEN total = 0 \/ available > total \/ total * Unit > MaxCounter
         ELSE ParseMeminfo(total, available) =
                [total |-> total * Unit, used |-> (total - available) * Unit]
  <1>1. total \in Nat /\ available \in Nat /\ Unit \in Nat
    BY DEF Counter
  <1>2. \A x, y : [total |-> x, used |-> y] # Refused
    BY DEF Refused
  <1>3. CASE total = 0 \/ available > total \/ total * Unit > MaxCounter
    <2>1. CASE total = 0
      BY <1>2, <2>1 DEF ParseMeminfo
    <2>2. CASE total * Unit > MaxCounter
      BY <1>1, <1>2, <2>2, ProductFits DEF ParseMeminfo
    <2>3. CASE total # 0 /\ available > total /\ total * Unit <= MaxCounter
      <3>1. CASE available * Unit > MaxCounter
        BY <1>1, <3>1, <2>3, ProductFits DEF ParseMeminfo
      <3>2. CASE available * Unit <= MaxCounter
        <4>1. total * Unit \in Counter /\ available * Unit \in Counter
          BY <1>1, <2>3, <3>2, ProductGrows DEF Counter
        <4>2. available * Unit > total * Unit
          <5>1. (available * Unit) - (total * Unit) = (available - total) * Unit
            BY <1>1, <2>3, ProductGrows
          <5>2. PICK d \in Nat \ {0} : d = available - total
            BY <1>1, <2>3
          <5>3. d * Unit >= 1
            OBVIOUS
          <5>4. total * Unit \in Int /\ available * Unit \in Int
            BY <1>1
          <5> QED
            BY <5>1, <5>2, <5>3, <5>4
        <4>3. Wrap(total * Unit) = total * Unit /\ Wrap(available * Unit) = available * Unit
          BY <4>1, WrapIs
        <4> QED
          BY <2>3, <4>2, <4>3 DEF ParseMeminfo
      <3>3. available * Unit \in Int
        BY <1>1
      <3> QED
        BY <3>1, <3>2, <3>3
    <2>4. total * Unit \in Int
      BY <1>1
    <2> QED
      BY <1>3, <2>1, <2>2, <2>3, <2>4
  <1>4. CASE total # 0 /\ available <= total /\ total * Unit <= MaxCounter
    <2>1. /\ total * Unit \in Nat /\ available * Unit \in Nat /\ available * Unit <= total * Unit
          /\ (total * Unit) - (available * Unit) = (total - available) * Unit
      BY <1>1, <1>4, ProductGrows
    <2>2. total * Unit \in Counter /\ available * Unit \in Counter
      BY <1>4, <2>1 DEF Counter
    <2>3. Wrap(total * Unit) = total * Unit /\ Wrap(available * Unit) = available * Unit
      BY <2>2, WrapIs
    <2>4. ~(total > MaxCounter \div Unit) /\ ~(available > MaxCounter \div Unit)
      <3>1. total > MaxCounter \div Unit <=> total * Unit > MaxCounter
        BY <1>1, ProductFits
      <3>2. available > MaxCounter \div Unit <=> available * Unit > MaxCounter
        BY <1>1, ProductFits
      <3> QED
        BY <1>4, <2>1, <3>1, <3>2
    <2>5. ~(available * Unit > total * Unit)
      BY <2>1
    <2>6. ParseMeminfo(total, available) = [total |-> total * Unit, used |-> (total - available) * Unit]
      BY <1>4, <2>1, <2>3, <2>4, <2>5 DEF ParseMeminfo
    <2> QED
      BY <1>2, <2>6
  <1>5. total * Unit \in Int
    BY <1>1
  <1> QED
    BY <1>1, <1>3, <1>4, <1>5

\* A file system is refused when more is available than there is or its bytes do not fit, and
\* exact otherwise.
LEMMA DiskIsExact ==
  ASSUME NEW blocks \in Counter, NEW available \in Counter, NEW size \in Counter
  PROVE  LET usage == UsageFromBlocks(blocks, available, size) IN
         IF usage = Refused THEN available > blocks \/ blocks * size > MaxCounter
         ELSE usage = [total |-> blocks * size, used |-> (blocks - available) * size]
  <1>1. blocks \in Nat /\ available \in Nat /\ size \in Nat /\ blocks * size \in Nat
    BY DEF Counter
  <1>2. \A x, y : [total |-> x, used |-> y] # Refused
    BY DEF Refused
  <1>3. size # 0 => (blocks > MaxCounter \div size <=> blocks * size > MaxCounter)
    BY <1>1, ProductFits
  <1>4. CASE available > blocks
    BY <1>4 DEF UsageFromBlocks
  <1>5. CASE blocks * size > MaxCounter
    <2>1. size # 0
      BY <1>1, <1>5
    <2> QED
      BY <1>3, <1>5, <2>1 DEF UsageFromBlocks
  <1>6. CASE available <= blocks /\ blocks * size <= MaxCounter
    <2>1. /\ available * size \in Nat /\ available * size <= blocks * size
          /\ (blocks * size) - (available * size) = (blocks - available) * size
      BY <1>1, <1>6, ProductGrows
    <2>2. /\ blocks * size \in Counter /\ available * size \in Counter
          /\ (blocks * size) - (available * size) \in Counter
      BY <1>1, <1>6, <2>1 DEF Counter
    <2>3. /\ Wrap(blocks * size) = blocks * size /\ Wrap(available * size) = available * size
          /\ Wrap((blocks * size) - (available * size)) = (blocks * size) - (available * size)
      BY <2>2, WrapIs
    <2>4. UsageFromBlocks(blocks, available, size) =
            [total |-> blocks * size, used |-> (blocks - available) * size]
      <3>1. ~(available > blocks \/ (size # 0 /\ blocks > MaxCounter \div size))
        BY <1>1, <1>3, <1>6
      <3>2. UsageFromBlocks(blocks, available, size) =
              [total |-> Wrap(blocks * size),
               used |-> Wrap(Wrap(blocks * size) - Wrap(available * size))]
        BY <3>1 DEF UsageFromBlocks
      <3> QED
        BY <2>1, <2>3, <3>2
    <2> QED
      BY <1>2, <2>4
  <1> QED
    BY <1>1, <1>4, <1>5, <1>6

\* A table is a list.
LEMMA TablesAreLists ==
  ASSUME NEW kinds, NEW rows \in Tables(kinds)
  PROVE  \E n \in Nat : rows \in Lists(n, kinds) /\ Len(rows) = n
  <1>1. PICK n \in 0..MaxRows : rows \in [1..n -> kinds]
    BY DEF Tables
  <1>2. n \in Nat /\ Len(rows) = n
    BY <1>1
  <1> QED
    BY <1>1, <1>2 DEF Lists

\* A stored snapshot keeps at most Limit metrics and of each at most Limit labels.
LEMMA BoundIsBounded ==
  ASSUME NEW metrics \in Tables(0..MaxRows)
  PROVE  LET rows == Bound(metrics).rows IN
         /\ Len(rows) <= Limit
         /\ \A k \in DOMAIN rows : rows[k] <= Min({Limit, metrics[k]})
  <1>1. PICK n \in Nat : Len(metrics) = n /\ \A k \in 1..n : metrics[k] \in Nat
    <2>1. PICK n \in Nat : metrics \in Lists(n, 0..MaxRows) /\ Len(metrics) = n
      BY TablesAreLists
    <2> QED
      BY <2>1 DEF Lists
  <1>2. PICK m \in Nat : m = Min({Limit, n}) /\ m <= Limit /\ m <= n
    BY MinIs
  <1>3. Bound(metrics).rows = [k \in 1..m |-> Min({Limit, metrics[k]})]
    BY <1>1, <1>2 DEF Bound
  <1>4. \A k \in 1..m : Min({Limit, metrics[k]}) <= Min({Limit, metrics[k]})
    <2>1. ASSUME NEW k \in 1..m PROVE Min({Limit, metrics[k]}) \in Int
      <3>1. metrics[k] \in Int
        BY <1>1, <1>2
      <3> QED
        BY <3>1, MinIs
    <2> QED
      BY <2>1
  <1>5. Len(Bound(metrics).rows) = m
    BY <1>3
  <1> QED
    BY <1>2, <1>3, <1>4, <1>5

\* Whatever is read next, what is made of it is exact.
LEMMA ReadingStaysExact == ReadingNext => ReadingsAreExact'
  <1> SUFFICES ASSUME ReadingNext PROVE ReadingsAreExact'
    OBVIOUS
  <1>1. ASSUME NEW values \in CPULines, input' = <<"cpu", values>>, reading' = ParseCPU(values)
        PROVE  ReadingsAreExact'
    <2>1. PICK n \in Nat : values \in Lists(n, Counter)
      BY DEF CPULines, Lists
    <2>2. IF reading' = Panics THEN Len(values) = 4
          ELSE IF reading' = Refused THEN Len(values) < 4 \/ Sum(values) > MaxCounter
          ELSE reading' = [total |-> Sum(values), idle |-> values[4] + values[5]]
      BY <1>1, <2>1, CPUIsExact
    <2>3. input'[1] = "cpu" /\ input'[2] = values
      BY <1>1
    <2> QED
      BY <2>2, <2>3 DEF ReadingsAreExact
  <1>2. ASSUME NEW total \in Counter, NEW available \in Counter,
               input' = <<"memory", total, available>>, reading' = ParseMeminfo(total, available)
        PROVE  ReadingsAreExact'
    <2>1. input'[1] = "memory" /\ input'[2] = total /\ input'[3] = available
      BY <1>2
    <2>2. IF reading' = Refused THEN total = 0 \/ available > total \/ total * Unit > MaxCounter
          ELSE reading' = [total |-> total * Unit, used |-> (total - available) * Unit]
      BY <1>2, MemoryIsExact
    <2> QED
      BY <2>1, <2>2 DEF ReadingsAreExact
  <1>3. ASSUME NEW blocks \in Counter, NEW available \in Counter, NEW size \in Counter,
               input' = <<"disk", blocks, available, size>>,
               reading' = UsageFromBlocks(blocks, available, size)
        PROVE  ReadingsAreExact'
    <2>1. input'[1] = "disk" /\ input'[2] = blocks /\ input'[3] = available /\ input'[4] = size
      BY <1>3
    <2>2. IF reading' = Refused THEN available > blocks \/ blocks * size > MaxCounter
          ELSE reading' = [total |-> blocks * size, used |-> (blocks - available) * size]
      BY <1>3, DiskIsExact
    <2> QED
      BY <2>1, <2>2 DEF ReadingsAreExact
  <1>4. ASSUME NEW previous \in Counter, NEW now \in Counter, NEW elapsed \in Counter,
               input' = <<"rate", previous, now, elapsed>>, reading' = Rate(previous, now, elapsed)
        PROVE  ReadingsAreExact'
    <2>1. input'[1] = "rate"
      BY <1>4
    <2>2. reading' # Refused => reading'.gained >= 0 /\ reading'.over > 0
      <3>1. previous \in Int /\ now \in Int /\ elapsed \in Int
        BY DEF Counter
      <3>2. CASE now < previous \/ elapsed <= 0
        BY <1>4, <3>2 DEF Rate
      <3>3. CASE ~(now < previous \/ elapsed <= 0)
        <4>1. reading' = [gained |-> now - previous, over |-> elapsed]
          BY <1>4, <3>3 DEF Rate
        <4> QED
          BY <3>1, <3>3, <4>1
      <3> QED
        BY <3>2, <3>3
    <2> QED
      BY <2>1, <2>2 DEF ReadingsAreExact
  <1>5. ASSUME NEW rows \in Tables({"lo", "eth", "short"}),
               input' = <<"network", rows>>, reading' = ParseNetwork(rows)
        PROVE  ReadingsAreExact'
    <2>1. input'[1] = "network" /\ input'[2] = rows
      BY <1>5
    <2>2. PICK n \in Nat : rows \in Lists(n, {"lo", "eth", "short"}) /\ Len(rows) = n
      BY TablesAreLists
    <2>3. Len(After(Keep, <<>>, rows)[n]) = Min({Limit, Count(rows, "eth")})
      <3>1. {"lo", "eth", "short"} \cap {"eth", "disk"} = {"eth"}
        OBVIOUS
      <3> QED
        BY <2>2, <3>1, KeptAreFirst
    <2>4. reading' # Refused => reading' = [rows |-> After(Keep, <<>>, rows)[n]]
      BY <1>5, <2>2 DEF ParseNetwork
    <2>5. reading' # Refused => Len(reading'.rows) = Min({Limit, Count(rows, "eth")})
      BY <2>3, <2>4
    <2> QED
      BY <2>1, <2>5 DEF ReadingsAreExact
  <1>6. ASSUME NEW rows \in Tables({"disk", "proc", "short"}),
               input' = <<"mounts", rows>>, reading' = ParseMounts(rows)
        PROVE  ReadingsAreExact'
    <2>1. input'[1] = "mounts" /\ input'[2] = rows
      BY <1>6
    <2>2. PICK n \in Nat : rows \in Lists(n, {"disk", "proc", "short"}) /\ Len(rows) = n
      BY TablesAreLists
    <2>3. Len(After(Keep, <<>>, rows)[n]) = Min({Limit, Count(rows, "disk")})
      <3>1. {"disk", "proc", "short"} \cap {"eth", "disk"} = {"disk"}
        OBVIOUS
      <3> QED
        BY <2>2, <3>1, KeptAreFirst
    <2>4. reading' = [rows |-> After(Keep, <<>>, rows)[n]]
      BY <1>6, <2>2 DEF ParseMounts
    <2>5. Len(reading'.rows) = Min({Limit, Count(rows, "disk")})
      BY <2>3, <2>4
    <2> QED
      BY <2>1, <2>5 DEF ReadingsAreExact
  <1>7. ASSUME NEW values \in Tables(Counter), input' = <<"pushes", values>>,
               reading' = [rows |-> Drain(values)]
        PROVE  ReadingsAreExact'
    <2>1. input'[1] = "pushes" /\ input'[2] = values
      BY <1>7
    <2>2. PICK n \in Nat : values \in Lists(n, Counter) /\ Len(values) = n
      BY TablesAreLists
    <2>3. AreLast(Drain(values), values, n)
      BY <2>2, BufferedAreLast
    <2>4. reading'.rows = Drain(values)
      BY <1>7
    <2> QED
      BY <2>1, <2>2, <2>3, <2>4 DEF ReadingsAreExact, AreLast
  <1>8. ASSUME NEW metrics \in Tables(0..MaxRows), input' = <<"bound", metrics>>,
               reading' = Bound(metrics)
        PROVE  ReadingsAreExact'
    <2>1. input'[1] = "bound" /\ input'[2] = metrics
      BY <1>8
    <2>2. /\ Len(reading'.rows) <= Limit
          /\ \A k \in DOMAIN reading'.rows : reading'.rows[k] <= Min({Limit, metrics[k]})
      BY <1>8, BoundIsBounded
    <2> QED
      BY <2>1, <2>2 DEF ReadingsAreExact
  <1>9. CASE ReadsCPU \/ ReadsMemory \/ ReadsDisk \/ ReadsRate
    BY <1>1, <1>2, <1>3, <1>4, <1>9 DEF ReadsCPU, ReadsMemory, ReadsDisk, ReadsRate
  <1>10. CASE ReadsNetwork \/ ReadsMounts \/ Buffers \/ BoundsSnapshot
    BY <1>5, <1>6, <1>7, <1>8, <1>10 DEF ReadsNetwork, ReadsMounts, Buffers, BoundsSnapshot
  <1> QED
    BY <1>9, <1>10 DEF ReadingNext

\* ReadingsAreExact holds in every reachable state: for any width of the counters, any number
\* of fields, rows and values and any limit, no sum or product of a reading wraps, and tables
\* and buffers keep what they should.
THEOREM ArithmeticIsExact == ReadingSpec => []ReadingsAreExact
  <1>1. ReadingInit => ReadingsAreExact
    BY DEF ReadingInit, ReadingsAreExact
  <1>2. ReadingsAreExact /\ [ReadingNext]_readingVars => ReadingsAreExact'
    <2>1. ReadingsAreExact /\ UNCHANGED readingVars => ReadingsAreExact'
      BY DEF readingVars, ReadingsAreExact
    <2> QED
      BY <2>1, ReadingStaysExact
  <1> QED
    BY <1>1, <1>2, PTL DEF ReadingSpec

=============================================================================
