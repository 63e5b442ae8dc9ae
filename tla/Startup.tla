------------------------------ MODULE Startup ------------------------------
(***************************************************************************)
(* How a validator comes up and what it leaves behind: `validator init`    *)
(* (internal/validatorinit), RunValidator (internal/runtime/validator.go)  *)
(* from opening the database to serving and its graceful stop, and the     *)
(* database file (internal/store): migrations, the write-ahead log and     *)
(* Backup.                                                                 *)
(*                                                                         *)
(* A transaction writes two pages, the fewest of which a torn copy can     *)
(* mix two transactions.                                                   *)
(***************************************************************************)
EXTENDS Naturals

CONSTANTS
  Inits,        \* runs of `validator init`
  Validators,   \* validator processes; each starts once
  LastVersion,  \* the number of migration scripts
  MaxCommits,   \* bound on transactions
  Nil           \* no value

ASSUME StartupAssumption ==
  /\ Nil \notin Inits \cup Validators
  /\ LastVersion \in Nat \ {0} /\ MaxCommits \in Nat

VARIABLES
  written,   \* each file of the configuration directory: the init that wrote it last
  whole,     \* validator.env has all its lines
  left,      \* the files an init has yet to write; Nil before and after it runs
  mixed,     \* history: two inits ran side by side
  stage,     \* where a validator process is in RunValidator
  port,      \* the process listening on the TCP address
  listening, \* the processes whose local listener is open
  socket,    \* the process whose local listener the path of the socket leads to
  schema,    \* schema_migrations and the scripts that took effect
  log,       \* the last committed transaction; commits beyond the main file are in the WAL
  page,      \* the transaction each page of the main file is of
  backup,    \* where Backup is, what it had to copy, what it has copied
  shared     \* history: another process had the database open while Backup ran

config == <<written, whole, left, mixed>>
validators == <<stage, port, listening, socket>>
database == <<schema, log, page, backup, shared>>
startupVars == <<config, validators, database>>

-----------------------------------------------------------------------------
Files == {"server.crt", "server.key", "agent-ca.key", "validator.env"}
ASSUME NilIsNoSet == \A S \in SUBSET Files : S # Nil

StartupInit ==
  /\ written = [f \in Files |-> Nil] /\ whole = FALSE
  /\ left = [i \in Inits |-> Nil] /\ mixed = FALSE
  /\ stage = [p \in Validators |-> "new"]
  /\ port = Nil /\ listening = {} /\ socket = Nil
  /\ schema = [recorded |-> 0, script |-> 0]
  /\ log = 0 /\ page = <<0, 0>>
  /\ backup = [at |-> "idle", begun |-> 0, copy |-> <<0, 0>>]
  /\ shared = FALSE

-----------------------------------------------------------------------------
(* validator init                                                          *)

Running == {i \in Inits : left[i] # Nil}

\* validator.env is looked for once, before anything else.
InitStart(i) ==
  /\ i \notin Running /\ written["validator.env"] = Nil
  /\ left' = [left EXCEPT ![i] = Files]
  /\ mixed' = (mixed \/ Running # {})
  /\ UNCHANGED <<written, whole, validators, database>>

\* Variant: the files are written in any order.
NextFilesUnordered(i) == left[i]

\* The certificate and its key in either order, the CA, the environment file.
NextFiles(i) ==
  LET pair == left[i] \cap {"server.crt", "server.key"} IN
  IF pair # {} THEN pair ELSE
  IF "agent-ca.key" \in left[i] THEN {"agent-ca.key"} ELSE {"validator.env"}

\* os.WriteFile truncates or creates the file and then writes it; a file that is not whole
\* matters only where another init looks for it.
InitWrites(i, f) ==
  /\ i \in Running /\ f \in left[i] \cap NextFiles(i)
  /\ written' = [written EXCEPT ![f] = i]
  /\ whole' = (whole /\ f # "validator.env")
  /\ left' = [left EXCEPT ![i] = @ \ {f}]
  /\ UNCHANGED <<mixed, validators, database>>

InitEnds(i) ==
  /\ left[i] = {}
  /\ whole' = TRUE
  /\ left' = [left EXCEPT ![i] = Nil]
  /\ UNCHANGED <<written, mixed, validators, database>>

\* A file cannot be written, or the command is interrupted.
InitStops(i) ==
  /\ i \in Running
  /\ left' = [left EXCEPT ![i] = Nil]
  /\ UNCHANGED <<written, whole, mixed, validators, database>>

-----------------------------------------------------------------------------
(* RunValidator                                                            *)

Move(p, from, to) == stage[p] = from /\ stage' = [stage EXCEPT ![p] = to]
HasOpen(p) == stage[p] \notin {"new", "exited"}

\* The environment is parsed, the database opened.
Open(p) ==
  /\ whole
  /\ Move(p, "new", "opened")
  /\ shared' = (shared \/ backup.at \notin {"idle", "done"})
  /\ UNCHANGED <<config, port, listening, socket, schema, log, page, backup>>

\* Variant: the script runs before the transaction that records it.
MigrateOutside ==
  \/ /\ schema.script < LastVersion /\ schema.script = schema.recorded
     /\ schema' = [schema EXCEPT !.script = @ + 1]
  \/ /\ schema.recorded < schema.script
     /\ schema' = [schema EXCEPT !.recorded = @ + 1]

\* One transaction runs the next script and records its version.
Migrate ==
  /\ schema.recorded < LastVersion
  /\ schema' = [recorded |-> schema.recorded + 1, script |-> schema.recorded + 1]

ValidatorMigrates(p) ==
  /\ stage[p] = "opened" /\ Migrate
  /\ UNCHANGED <<config, validators, log, page, backup, shared>>

\* A transaction that changes no row leaves no trace.
Commit ==
  \/ UNCHANGED log
  \/ log < MaxCommits /\ log' = log + 1

\* BootstrapAdmin and MarkAllOffline, whoever else serves from this database.
MarkAllOffline(p) ==
  /\ schema.recorded = LastVersion
  /\ Move(p, "opened", "offline") /\ Commit
  /\ UNCHANGED <<config, port, listening, socket, schema, page, backup, shared>>

\* The certificate must match its key, and the passphrase in the environment the CA.
Loads(p) ==
  /\ written["server.crt"] = written["server.key"]
  /\ written["agent-ca.key"] = written["validator.env"]
  /\ Move(p, "offline", "loaded")
  /\ UNCHANGED <<config, port, listening, socket, database>>

TakesSocket(p) == listening' = listening \cup {p} /\ socket' = p

\* Variant: the socket is made before the port is known to be free.
ListensOnBoth(p) ==
  /\ Move(p, "loaded", "listening")
  /\ port' = IF port = Nil THEN p ELSE port
  /\ TakesSocket(p)
  /\ UNCHANGED <<config, database>>

Listens(p) ==
  /\ port = Nil /\ port' = p
  /\ Move(p, "loaded", "listening")
  /\ UNCHANGED <<config, listening, socket, database>>

\* Manager.Reconcile closes what the last process left open.
Reconciles(p) ==
  /\ Move(p, "listening", "reconciled") /\ Commit
  /\ UNCHANGED <<config, port, listening, socket, schema, page, backup, shared>>

\* The socket of whoever had it is removed and made anew; then both servers serve.
Serves(p) ==
  /\ Move(p, "reconciled", "serving") /\ TakesSocket(p)
  /\ UNCHANGED <<config, port, database>>

\* A handler commits; a commit may checkpoint.
Handles(p) ==
  /\ stage[p] = "serving" /\ Commit
  /\ UNCHANGED <<config, validators, schema, page, backup, shared>>

\* SIGTERM: two goroutines stop the two servers, each when it gets to it; the calls and
\* streams in progress hold up the process, not the listeners.
Stops(p) ==
  /\ Move(p, "serving", "stopping")
  /\ UNCHANGED <<config, port, listening, socket, database>>

ClosesPort(p) ==
  /\ stage[p] = "stopping" /\ port = p /\ port' = Nil
  /\ UNCHANGED <<config, stage, listening, socket, database>>

\* Closing a Unix listener removes its path, to whatever listener that leads by now.
ClosesSocket(p) ==
  /\ stage[p] = "stopping" /\ p \in listening
  /\ listening' = listening \ {p} /\ socket' = Nil
  /\ UNCHANGED <<config, stage, port, database>>

\* A step failed, the calls have returned, or the process was killed.
Exits(p) ==
  /\ HasOpen(p)
  /\ stage' = [stage EXCEPT ![p] = "exited"]
  /\ port' = IF port = p THEN Nil ELSE port
  /\ listening' = listening \ {p}
  /\ socket' = IF socket = p THEN Nil ELSE socket
  /\ UNCHANGED <<config, database>>

-----------------------------------------------------------------------------
(* The database file and store.Backup.                                     *)

Others == \E p \in Validators : HasOpen(p)

\* A checkpoint moves pages from the WAL to the main file one by one.
Checkpoints(k) ==
  /\ Others /\ page[k] < log
  /\ page' = [page EXCEPT ![k] = log]
  /\ UNCHANGED <<config, validators, schema, log, backup, shared>>

\* Open, migrations included: it waits for the next step until they are done.
BackupOpens ==
  /\ backup.at = "idle"
  /\ backup' = [backup EXCEPT !.at = "opened", !.begun = log]
  /\ shared' = Others
  /\ UNCHANGED <<config, validators, schema, log, page>>

BackupMigrates ==
  /\ backup.at = "opened" /\ Migrate
  /\ UNCHANGED <<config, validators, log, page, backup, shared>>

\* PRAGMA wal_checkpoint(TRUNCATE); that it was kept from finishing is a row nobody reads.
BackupCheckpoints ==
  /\ backup.at = "opened" /\ schema.recorded = LastVersion
  /\ backup' = [backup EXCEPT !.at = "checkpointed"]
  /\ \/ page' = <<log, log>>
     \/ Others /\ UNCHANGED page
  /\ UNCHANGED <<config, validators, schema, log, shared>>

\* io.Copy, from the first page to the last; the destination must not exist.
BackupCopies ==
  /\ \/ /\ backup.at = "checkpointed"
        /\ backup' = [backup EXCEPT !.at = "half", !.copy[1] = page[1]]
     \/ /\ backup.at = "half"
        /\ backup' = [backup EXCEPT !.at = "done", !.copy[2] = page[2]]
  /\ UNCHANGED <<config, validators, schema, log, page, shared>>

\* The copy fails and what there is of it is removed.
BackupFails ==
  /\ backup.at \in {"opened", "checkpointed", "half"}
  /\ backup' = [backup EXCEPT !.at = "idle", !.copy = <<0, 0>>]
  /\ UNCHANGED <<config, validators, schema, log, page, shared>>

-----------------------------------------------------------------------------
StartupNext ==
  \/ \E i \in Inits : \/ InitStart(i) \/ InitEnds(i) \/ InitStops(i)
                      \/ \E f \in Files : InitWrites(i, f)
  \/ \E p \in Validators :
       \/ Open(p) \/ ValidatorMigrates(p) \/ MarkAllOffline(p) \/ Loads(p) \/ Listens(p)
       \/ Reconciles(p) \/ Serves(p) \/ Handles(p) \/ Stops(p) \/ ClosesPort(p)
       \/ ClosesSocket(p) \/ Exits(p)
  \/ \E k \in 1..2 : Checkpoints(k)
  \/ BackupOpens \/ BackupMigrates \/ BackupCheckpoints \/ BackupCopies \/ BackupFails

StartupSpec == StartupInit /\ [][StartupNext]_startupVars
-----------------------------------------------------------------------------
(* Properties.                                                             *)

\* Where validator.env is, `init` refuses to run again and the service starts from it: so,
\* unless two inits overlapped, all files are there and of one init, wherever an init before
\* it was interrupted.
EnvMeansComplete ==
  written["validator.env"] # Nil /\ ~mixed =>
    \A f \in Files : written[f] = written["validator.env"]

\* A validator started beside one that serves fails without taking the socket from it: the
\* path is lost only to one that was serving before and closes its listener late.
SocketKept ==
  [][\A p \in Validators : stage[p] = "serving" /\ stage'[p] = "serving" =>
       /\ port = p
       /\ socket = p /\ socket' # p => \E q \in Validators \ {p} : stage[q] = "stopping"]_startupVars

\* The recorded version is the one whose script took effect, whoever migrates and wherever it
\* dies.
RecordedIsApplied == schema.recorded = schema.script

\* "Stop writes or place validator in maintenance mode" (docs/storage.md): a backup nobody
\* shared the database with has every transaction that was committed when it began, the ones
\* a killed validator left in the WAL included.
BackupComplete ==
  backup.at = "done" /\ ~shared => backup.copy = <<backup.begun, backup.begun>>

\* What a validator or a backup dies in the middle of is undone by whoever opens the database
\* next: its schema is the recorded one and no committed transaction is missing from a backup.
DatabaseSurvives == RecordedIsApplied /\ BackupComplete
=============================================================================
