----------------------------- MODULE MCMachines -----------------------------
(***************************************************************************)
(* Instances for TLC of what goes on between the validator and one machine *)
(* and on the machine: SshSessions, TunnelData, Host, MetricsPipeline,     *)
(* Readings and PanelMigration.  They share no step, so a behaviour is one *)
(* of a part that is chosen at its start: the states are the sum of        *)
(* theirs, not the product.                                                *)
(***************************************************************************)
EXTENDS SshSessions, TunnelData, Host, MetricsPipeline, Readings, PanelMigration, TLC

VARIABLE part

sshVars == <<manager, expiry, callers, links, file>>
machineVars ==
  <<part, sshVars, tunnelVars, hostVars, metricsVars, readingVars, migrationVars>>

MachinesInit ==
  /\ part \in {"ssh", "tunnel", "host", "metrics", "readings", "migration"}
  /\ Init /\ TunnelInit /\ HostInit /\ MetricsInit /\ ReadingInit /\ MigrationInit
  \* One initial state of the parts that do not move.
  /\ part = "migration" \/ (overwrite = {} /\ source /\ ~project)

MachinesNext ==
  /\ UNCHANGED part
  /\ \/ part = "ssh" /\ Next
     \/ part # "ssh" /\ UNCHANGED sshVars
  /\ \/ part = "tunnel" /\ TunnelNext
     \/ part # "tunnel" /\ UNCHANGED tunnelVars
  /\ \/ part = "host" /\ HostNext
     \/ part # "host" /\ UNCHANGED hostVars
  /\ \/ part = "metrics" /\ MetricsNext
     \/ part # "metrics" /\ UNCHANGED metricsVars
  /\ \/ part = "readings" /\ ReadingNext
     \/ part # "readings" /\ UNCHANGED readingVars
  /\ \/ part = "migration" /\ MigrationNext
     \/ part # "migration" /\ UNCHANGED migrationVars

MachinesSpec == MachinesInit /\ [][MachinesNext]_machineVars

TwoPorts == 1..2

\* Sessions and migrations have the same names, streams and connections have.
Symmetry == Permutations(Sessions) \cup Permutations(Connections)
=============================================================================
