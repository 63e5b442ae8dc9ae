---------------------------- MODULE StartupProofs ----------------------------
(***************************************************************************)
(* Proofs about Startup for any number of inits, validator processes,      *)
(* migration scripts and transactions.                                     *)
(***************************************************************************)
EXTENDS Startup, TLAPS

StartupTypes ==
  /\ written \in [Files -> Inits \cup {Nil}]
  /\ left \in [Inits -> (SUBSET Files) \cup {Nil}]
  /\ mixed \in BOOLEAN
  /\ stage \in [Validators -> {"new", "opened", "offline", "loaded", "listening", "reconciled",
                            "serving", "stopping", "exited"}]
  /\ port \in Validators \cup {Nil}
  /\ log \in Nat
  /\ page \in [1..2 -> Nat]
  /\ backup \in [at : {"idle", "opened", "checkpointed", "half", "done"}, begun : Nat,
                 copy : [1..2 -> Nat]]
  /\ shared \in BOOLEAN

\* Without overlap one init runs: it found no environment file and has written every file it
\* has not left to write; nothing is left once the environment file, the last one, is there.
OneInit ==
  ~mixed => \A i \in Inits : left[i] # Nil =>
    /\ \A k \in Inits : left[k] # Nil => k = i
    /\ \A f \in Files \ left[i] : written[f] = i
    /\ IF "validator.env" \in left[i] THEN written["validator.env"] = Nil ELSE left[i] = {}

\* The port is held from Listens to Stops.
PortHeld ==
  \A p \in Validators : stage[p] \in {"listening", "reconciled", "serving"} => port = p

\* A backup that shares the database with nobody sees neither commits nor checkpoints; what it
\* has copied is of the transaction it began with.
BackupAlone ==
  ~shared =>
    /\ backup.at \in {"opened", "checkpointed", "half"} => ~Others /\ log = backup.begun
    /\ backup.at \in {"checkpointed", "half"} => page[1] = log /\ page[2] = log
    /\ backup.at = "half" => backup.copy[1] = backup.begun
    /\ backup.at = "done" => backup.copy[1] = backup.begun /\ backup.copy[2] = backup.begun

IInv == /\ StartupTypes /\ OneInit /\ EnvMeansComplete /\ PortHeld /\ BackupAlone
        /\ RecordedIsApplied

USE StartupAssumption, NilIsNoSet
USE DEF config, validators, database

ProcessStep(p) ==
  \/ Open(p) \/ ValidatorMigrates(p) \/ MarkAllOffline(p) \/ Loads(p) \/ Listens(p)
  \/ Reconciles(p) \/ Serves(p) \/ Handles(p) \/ Stops(p) \/ ClosesPort(p)
  \/ ClosesSocket(p) \/ Exits(p)
InitStep(i) ==
  InitStart(i) \/ InitEnds(i) \/ InitStops(i) \/ \E f \in Files : InitWrites(i, f)
BackupStep ==
  \/ \E k \in 1..2 : Checkpoints(k)
  \/ BackupOpens \/ BackupMigrates \/ BackupCheckpoints \/ BackupCopies \/ BackupFails

\* Every step is of an init, of a process or of the backup.
LEMMA NextIs ==
  StartupNext <=> \/ \E i \in Inits : InitStep(i)
                  \/ \E p \in Validators : ProcessStep(p)
                  \/ BackupStep
  BY DEF StartupNext, InitStep, ProcessStep, BackupStep

-----------------------------------------------------------------------------
(* validator init                                                          *)

\* The order of the files: the environment file is the last.
LEMMA EnvIsLast ==
  ASSUME NEW i, NEW f \in Files, f \in NextFiles(i), f = "validator.env", left[i] \in SUBSET Files
  PROVE  left[i] \subseteq {"validator.env"}
  BY DEF NextFiles, Files

\* A run of init keeps the invariant.
LEMMA InitKeeps ==
  ASSUME IInv, NEW i \in Inits, InitStep(i)
  PROVE  IInv'
<1>1. UNCHANGED <<validators, database>>
  BY DEF InitStep, InitStart, InitEnds, InitStops, InitWrites
<1>2. BackupAlone' /\ PortHeld' /\ RecordedIsApplied'
  BY <1>1 DEF IInv, BackupAlone, PortHeld, RecordedIsApplied, Others, HasOpen
<1>3. StartupTypes /\ "validator.env" \in Files
  BY DEF IInv, Files
<1>4. CASE InitStart(i)
  <2>1. /\ left' = [left EXCEPT ![i] = Files] /\ written["validator.env"] = Nil /\ left[i] = Nil
        /\ mixed' = (mixed \/ Running # {}) /\ written' = written
    BY <1>4 DEF InitStart, Running
  <2>2. StartupTypes'
    BY <1>1, <1>3, <2>1 DEF StartupTypes
  <2>3. ~mixed' => ~mixed /\ \A k \in Inits : left[k] = Nil
    BY <2>1 DEF Running
  <2>4. \A k \in Inits : left'[k] = IF k = i THEN Files ELSE left[k]
    BY <1>3, <2>1 DEF StartupTypes
  <2>5. OneInit'
    BY <1>3, <2>1, <2>3, <2>4 DEF OneInit
  <2>6. EnvMeansComplete'
    BY <2>1 DEF EnvMeansComplete
  <2>7. QED
    BY <1>2, <2>2, <2>5, <2>6 DEF IInv
<1>5. CASE InitEnds(i) \/ InitStops(i)
  <2>1. left' = [left EXCEPT ![i] = Nil] /\ UNCHANGED <<written, mixed>>
    BY <1>5 DEF InitEnds, InitStops
  <2>2. \A k \in Inits : left'[k] = IF k = i THEN Nil ELSE left[k]
    BY <1>3, <2>1 DEF StartupTypes
  <2>3. StartupTypes'
    BY <1>1, <1>3, <2>1 DEF StartupTypes
  <2>4. OneInit' /\ EnvMeansComplete'
    BY <2>1, <2>2 DEF IInv, OneInit, EnvMeansComplete
  <2>5. QED
    BY <1>2, <2>3, <2>4 DEF IInv
<1>6. ASSUME NEW f \in Files, InitWrites(i, f) PROVE IInv'
  <2>1. /\ left[i] # Nil /\ f \in left[i] /\ f \in NextFiles(i) /\ mixed' = mixed
        /\ written' = [written EXCEPT ![f] = i] /\ left' = [left EXCEPT ![i] = left[i] \ {f}]
    BY <1>6 DEF InitWrites, Running
  <2>2. left[i] \in SUBSET Files
    BY <1>3, <2>1 DEF StartupTypes
  <2>3. /\ \A k \in Inits : left'[k] = IF k = i THEN left[i] \ {f} ELSE left[k]
        /\ \A g \in Files : written'[g] = IF g = f THEN i ELSE written[g]
    BY <1>3, <2>1 DEF StartupTypes
  <2>4. StartupTypes'
    BY <1>1, <1>3, <2>1, <2>2 DEF StartupTypes
  <2>5. left[i] \ {f} # Nil /\ i # Nil
    BY <2>2
  <2>6. CASE mixed
    BY <1>2, <2>1, <2>4, <2>6 DEF IInv, OneInit, EnvMeansComplete
  <2>7. CASE ~mixed
    <3>1. /\ \A k \in Inits : left[k] # Nil => k = i
          /\ \A g \in Files \ left[i] : written[g] = i
          /\ "validator.env" \in left[i] /\ written["validator.env"] = Nil
      BY <2>1, <2>7 DEF IInv, OneInit
    <3>2. CASE f = "validator.env"
      <4>1. left[i] \ {f} = {} /\ \A g \in Files : written'[g] = i
        BY <2>1, <2>2, <2>3, <3>1, <3>2, EnvIsLast
      <4>2. OneInit'
        BY <2>3, <2>5, <3>1, <3>2, <4>1 DEF OneInit
      <4>3. EnvMeansComplete'
        BY <1>3, <4>1 DEF EnvMeansComplete
      <4>4. QED
        BY <1>2, <2>4, <4>2, <4>3 DEF IInv
    <3>3. CASE f # "validator.env"
      <4>1. written'["validator.env"] = Nil
        BY <1>3, <2>3, <3>1, <3>3
      <4>2. OneInit'
        BY <2>2, <2>3, <2>5, <3>1, <3>3, <4>1 DEF OneInit
      <4>3. EnvMeansComplete'
        BY <4>1 DEF EnvMeansComplete
      <4>4. QED
        BY <1>2, <2>4, <4>2, <4>3 DEF IInv
    <3>4. QED
      BY <3>2, <3>3
  <2>8. QED
    BY <2>6, <2>7
<1>7. QED
  BY <1>4, <1>5, <1>6 DEF InitStep

-----------------------------------------------------------------------------
(* RunValidator                                                            *)

\* What the steps of a process have in common: it has the database open after all but its
\* last one, and before all but its first one, which a backup notices.
LEMMA ProcessIs ==
  ASSUME StartupTypes, NEW p \in Validators, ProcessStep(p)
  PROVE  /\ UNCHANGED <<config, page, backup>>
         /\ stage' \in [Validators -> {"new", "opened", "offline", "loaded", "listening",
                                    "reconciled", "serving", "stopping", "exited"}]
         /\ \A q \in Validators : q # p => stage'[q] = stage[q]
         /\ log' \in Nat
         /\ shared' \in BOOLEAN
         /\ \/ Others /\ shared' = shared
            \/ log' = log /\ shared' = (shared \/ backup.at \notin {"idle", "done"})
<1>1. CASE Open(p)
  BY <1>1 DEF Open, Move, StartupTypes
<1>2. CASE ProcessStep(p) /\ ~Open(p)
  <2>1. Others /\ shared' = shared
    BY <1>2 DEF ProcessStep, Others, HasOpen, Move, ValidatorMigrates, MarkAllOffline, Loads,
                Listens, Reconciles, Serves, Handles, Stops, ClosesPort, ClosesSocket, Exits
  <2>2. log' \in Nat /\ UNCHANGED <<config, page, backup>>
    BY <1>2 DEF ProcessStep, Commit, StartupTypes, ValidatorMigrates, MarkAllOffline, Loads,
                Listens, Reconciles, Serves, Handles, Stops, ClosesPort, ClosesSocket, Exits
  <2>3. \/ stage' = stage
        \/ \E x \in {"offline", "loaded", "listening", "reconciled", "serving", "stopping", "exited"} :
             stage' = [stage EXCEPT ![p] = x]
    BY <1>2 DEF ProcessStep, Move, ValidatorMigrates, MarkAllOffline, Loads, Listens,
                Reconciles, Serves, Handles, Stops, ClosesPort, ClosesSocket, Exits
  <2>4. /\ stage' \in [Validators -> {"new", "opened", "offline", "loaded", "listening",
                                   "reconciled", "serving", "stopping", "exited"}]
        /\ \A q \in Validators : q # p => stage'[q] = stage[q]
    BY <2>3 DEF StartupTypes
  <2>5. QED
    BY <2>1, <2>2, <2>4 DEF StartupTypes
<1>3. QED
  BY <1>1, <1>2

\* A validator keeps it.
LEMMA ProcessKeeps ==
  ASSUME IInv, NEW p \in Validators, ProcessStep(p)
  PROVE  IInv'
<1>0. StartupTypes
  BY DEF IInv
<1>1. /\ UNCHANGED <<config, page, backup>>
      /\ stage' \in [Validators -> {"new", "opened", "offline", "loaded", "listening",
                                 "reconciled", "serving", "stopping", "exited"}]
      /\ \A q \in Validators : q # p => stage'[q] = stage[q]
      /\ log' \in Nat
      /\ shared' \in BOOLEAN
      /\ \/ Others /\ shared' = shared
         \/ log' = log /\ shared' = (shared \/ backup.at \notin {"idle", "done"})
  BY <1>0, ProcessIs
<1>2. /\ port' \in Validators \cup {Nil}
      /\ stage'[p] \in {"listening", "reconciled", "serving"} => port' = p
      /\ port' = port \/ port = p \/ port = Nil
  BY DEF ProcessStep, Move, IInv, StartupTypes, PortHeld, Open, ValidatorMigrates,
         MarkAllOffline, Loads, Listens, Reconciles, Serves, Handles, Stops, ClosesPort,
         ClosesSocket, Exits
<1>3. StartupTypes'
  BY <1>0, <1>1, <1>2 DEF StartupTypes
<1>4. PortHeld'
  BY <1>1, <1>2 DEF IInv, PortHeld
<1>5. OneInit' /\ EnvMeansComplete'
  BY <1>1 DEF IInv, OneInit, EnvMeansComplete
<1>6. RecordedIsApplied'
  BY DEF ProcessStep, IInv, RecordedIsApplied, Open, ValidatorMigrates, Migrate,
         MarkAllOffline, Loads, Listens, Reconciles, Serves, Handles, Stops, ClosesPort,
         ClosesSocket, Exits
<1>7. BackupAlone'
  <2>1. CASE Others /\ shared' = shared
    BY <1>1, <2>1 DEF IInv, BackupAlone
  <2>2. CASE log' = log /\ shared' = (shared \/ backup.at \notin {"idle", "done"})
    BY <1>1, <2>2 DEF IInv, BackupAlone
  <2>3. QED
    BY <1>1, <2>1, <2>2
<1>8. QED
  BY <1>3, <1>4, <1>5, <1>6, <1>7 DEF IInv

-----------------------------------------------------------------------------
(* store.Backup                                                            *)

\* The backup keeps it.
LEMMA BackupKeeps == ASSUME IInv, BackupStep PROVE IInv'
<1>0. StartupTypes /\ 1 \in 1..2 /\ 2 \in 1..2
  BY DEF IInv
<1>1. UNCHANGED <<config, validators, log>>
  BY DEF BackupStep, Checkpoints, BackupOpens, BackupMigrates, BackupCheckpoints, BackupCopies,
         BackupFails
<1>2. OneInit' /\ EnvMeansComplete' /\ PortHeld' /\ (Others' <=> Others)
  BY <1>1 DEF IInv, OneInit, EnvMeansComplete, PortHeld, Others, HasOpen
<1>3. RecordedIsApplied'
  BY DEF BackupStep, IInv, RecordedIsApplied, Checkpoints, BackupOpens, BackupMigrates, Migrate,
         BackupCheckpoints, BackupCopies, BackupFails
<1>4. ASSUME NEW k \in 1..2, Checkpoints(k) PROVE StartupTypes' /\ BackupAlone'
  <2>1. Others /\ page' = [page EXCEPT ![k] = log] /\ UNCHANGED <<backup, shared>>
    BY <1>4 DEF Checkpoints
  <2>2. StartupTypes'
    BY <1>0, <1>1, <2>1 DEF StartupTypes
  <2>3. BackupAlone'
    BY <1>1, <2>1 DEF IInv, BackupAlone
  <2>4. QED
    BY <2>2, <2>3
<1>5. ASSUME BackupOpens PROVE StartupTypes' /\ BackupAlone'
  <2>1. /\ backup' = [backup EXCEPT !.at = "opened", !.begun = log] /\ shared' = Others
        /\ page' = page
    BY <1>5 DEF BackupOpens
  <2>2. backup'.at = "opened" /\ backup'.begun = log
    BY <1>0, <2>1 DEF StartupTypes
  <2>3. StartupTypes'
    BY <1>0, <1>1, <2>1 DEF StartupTypes, Others
  <2>4. BackupAlone'
    BY <1>1, <1>2, <2>1, <2>2 DEF BackupAlone
  <2>5. QED
    BY <2>3, <2>4
<1>6. ASSUME BackupMigrates PROVE StartupTypes' /\ BackupAlone'
  BY <1>0, <1>1, <1>2, <1>6 DEF IInv, BackupMigrates, BackupAlone, StartupTypes
<1>7. ASSUME BackupCheckpoints PROVE StartupTypes' /\ BackupAlone'
  <2>1. /\ backup.at = "opened" /\ backup' = [backup EXCEPT !.at = "checkpointed"]
        /\ (page' = <<log, log>> \/ (Others /\ page' = page))
        /\ shared' = shared
    BY <1>7 DEF BackupCheckpoints
  <2>2. backup'.at = "checkpointed" /\ backup'.begun = backup.begun
    BY <1>0, <2>1 DEF StartupTypes
  <2>3. page' \in [1..2 -> Nat]
    BY <1>0, <2>1 DEF StartupTypes
  <2>4. StartupTypes'
    BY <1>0, <1>1, <2>1, <2>3 DEF StartupTypes
  <2>5. BackupAlone'
    BY <1>1, <1>2, <2>1, <2>2 DEF IInv, BackupAlone
  <2>6. QED
    BY <2>4, <2>5
<1>8. ASSUME BackupCopies PROVE StartupTypes' /\ BackupAlone'
  <2>1. page' = page /\ shared' = shared
    BY <1>8 DEF BackupCopies
  <2>2. CASE backup.at = "checkpointed"
    <3>1. backup' = [backup EXCEPT !.at = "half", !.copy[1] = page[1]]
      BY <1>8, <2>2 DEF BackupCopies
    <3>2. /\ backup'.at = "half" /\ backup'.begun = backup.begun /\ backup'.copy[1] = page[1]
          /\ backup' \in [at : {"idle", "opened", "checkpointed", "half", "done"}, begun : Nat,
                          copy : [1..2 -> Nat]]
      BY <1>0, <3>1 DEF StartupTypes
    <3>3. StartupTypes' /\ BackupAlone'
      BY <1>0, <1>1, <1>2, <2>1, <2>2, <3>2 DEF IInv, StartupTypes, BackupAlone
    <3>4. QED
      BY <3>3
  <2>3. CASE backup.at = "half"
    <3>1. backup' = [backup EXCEPT !.at = "done", !.copy[2] = page[2]]
      BY <1>8, <2>3 DEF BackupCopies
    <3> DEFINE c == [backup.copy EXCEPT ![2] = page[2]]
    <3>5. backup.copy \in [1..2 -> Nat] /\ page[2] \in Nat
      BY <1>0 DEF StartupTypes
    <3>6. c \in [1..2 -> Nat] /\ c[2] = page[2] /\ c[1] = backup.copy[1]
      BY <3>5
    <3>7. backup' = [backup EXCEPT !.at = "done", !.copy = c]
      BY <3>1
    <3> HIDE DEF c
    <3>2. /\ backup'.at = "done" /\ backup'.begun = backup.begun /\ backup'.copy[2] = page[2]
          /\ backup'.copy[1] = backup.copy[1]
          /\ backup' \in [at : {"idle", "opened", "checkpointed", "half", "done"}, begun : Nat,
                          copy : [1..2 -> Nat]]
      BY <1>0, <3>6, <3>7 DEF StartupTypes
    <3>3. StartupTypes' /\ BackupAlone'
      BY <1>0, <1>1, <1>2, <2>1, <2>3, <3>2 DEF IInv, StartupTypes, BackupAlone
    <3>4. QED
      BY <3>3
  <2>4. QED
    BY <1>8, <2>2, <2>3 DEF BackupCopies
<1>9. ASSUME BackupFails PROVE StartupTypes' /\ BackupAlone'
  <2>1. /\ backup' = [backup EXCEPT !.at = "idle", !.copy = <<0, 0>>] /\ UNCHANGED <<page, shared>>
    BY <1>9 DEF BackupFails
  <2>2. <<0, 0>> \in [1..2 -> Nat]
    OBVIOUS
  <2>3. backup'.at = "idle"
    BY <1>0, <2>1 DEF StartupTypes
  <2>4. StartupTypes'
    BY <1>0, <1>1, <2>1, <2>2 DEF StartupTypes
  <2>5. BackupAlone'
    BY <2>3 DEF BackupAlone
  <2>6. QED
    BY <2>4, <2>5
<1>10. QED
  BY <1>2, <1>3, <1>4, <1>5, <1>6, <1>7, <1>8, <1>9 DEF IInv, BackupStep

-----------------------------------------------------------------------------
(* The invariant.                                                          *)

\* It holds of a host on which nothing was run.
LEMMA InitIInv == StartupInit => IInv
<1> SUFFICES ASSUME StartupInit PROVE IInv
  OBVIOUS
<1>1. <<0, 0>> \in [1..2 -> Nat] /\ "validator.env" \in Files
  BY DEF Files
<1>2. StartupTypes
  BY <1>1 DEF StartupInit, StartupTypes
<1>3. OneInit /\ EnvMeansComplete /\ PortHeld /\ RecordedIsApplied
  BY <1>1 DEF StartupInit, OneInit, EnvMeansComplete, PortHeld, RecordedIsApplied
<1>4. BackupAlone
  BY DEF StartupInit, BackupAlone
<1>5. QED
  BY <1>2, <1>3, <1>4 DEF IInv

\* No step breaks it.
LEMMA NextIInv == IInv /\ [StartupNext]_startupVars => IInv'
<1>1. ASSUME IInv, UNCHANGED startupVars PROVE IInv'
  BY <1>1 DEF startupVars, IInv, StartupTypes, OneInit, EnvMeansComplete, PortHeld, BackupAlone,
              Others, HasOpen, RecordedIsApplied
<1>2. QED
  BY <1>1, NextIs, InitKeeps, ProcessKeeps, BackupKeeps

\* It holds throughout.
LEMMA IInvAlways == StartupSpec => []IInv
  BY InitIInv, NextIInv, PTL DEF StartupSpec

\* The socket of a process that serves is lost to one that is stopping only.
LEMMA SocketStep ==
  ASSUME IInv, [StartupNext]_startupVars, NEW p \in Validators,
         stage[p] = "serving", stage'[p] = "serving"
  PROVE  /\ port = p
         /\ socket = p /\ socket' # p => \E q \in Validators \ {p} : stage[q] = "stopping"
<1>1. port = p /\ p # Nil
  BY DEF IInv, PortHeld
<1>2. ASSUME NEW q \in Validators, ProcessStep(q), socket = p, socket' # p
      PROVE  q # p /\ stage[q] = "stopping"
  <2>1. Serves(q) \/ ClosesSocket(q) \/ Exits(q)
    BY <1>2 DEF ProcessStep, Open, ValidatorMigrates, MarkAllOffline, Loads, Listens,
                Reconciles, Handles, Stops, ClosesPort
  <2>2. ~Serves(q)
    BY <1>1, <1>2 DEF Serves, Move, TakesSocket, IInv, PortHeld
  <2>3. ~Exits(q)
    BY <1>2 DEF Exits, IInv, StartupTypes
  <2>4. QED
    BY <2>1, <2>2, <2>3 DEF ClosesSocket
<1>3. ASSUME ~\E q \in Validators : ProcessStep(q) PROVE socket' = socket
  BY <1>3, NextIs DEF startupVars, InitStep, InitStart, InitEnds, InitStops, InitWrites, BackupStep,
         Checkpoints, BackupOpens, BackupMigrates, BackupCheckpoints, BackupCopies, BackupFails
<1>4. QED
  BY <1>1, <1>2, <1>3

-----------------------------------------------------------------------------
(* Theorems.                                                               *)

\* validatorinit.Run writes the environment file last: where it is, everything is there and of
\* the same run, wherever earlier ones were interrupted.
THEOREM EnvIsComplete == StartupSpec => []EnvMeansComplete
<1>1. IInv => EnvMeansComplete
  BY DEF IInv
<1>2. QED
  BY <1>1, IInvAlways, PTL

\* Migrations are recorded as they take effect, and Backup copies all that was committed,
\* whatever dies in the middle.
THEOREM DatabaseIsWhole == StartupSpec => []DatabaseSurvives
<1>1. IInv => DatabaseSurvives
  <2> SUFFICES ASSUME IInv, backup.at = "done", ~shared
               PROVE  backup.copy = <<backup.begun, backup.begun>>
    BY DEF IInv, DatabaseSurvives, BackupComplete
  <2>1. backup.copy \in [1..2 -> Nat] /\ backup.copy[1] = backup.begun /\ backup.copy[2] = backup.begun
    BY DEF IInv, StartupTypes, BackupAlone
  <2>2. backup.copy = [n \in 1..2 |-> backup.begun]
    BY <2>1
  <2>3. [n \in 1..2 |-> backup.begun] = <<backup.begun, backup.begun>>
    OBVIOUS
  <2>4. QED
    BY <2>2, <2>3
<1>2. QED
  BY <1>1, IInvAlways, PTL

\* RunValidator takes the TCP port before the socket: a process started beside one that serves
\* fails before it could take its socket.
THEOREM SocketIsKept == StartupSpec => SocketKept
<1>1. IInv /\ [StartupNext]_startupVars
        => [\A p \in Validators : stage[p] = "serving" /\ stage'[p] = "serving" =>
              /\ port = p
              /\ socket = p /\ socket' # p => \E q \in Validators \ {p} : stage[q] = "stopping"]_startupVars
  BY SocketStep
<1>2. QED
  BY <1>1, IInvAlways, PTL DEF StartupSpec, SocketKept

=============================================================================
