----------------------------- MODULE CommandLine -----------------------------
(***************************************************************************)
(* `silent-devops-client WORDS`: which words it takes (main.go, Validate), *)
(* which it wants confirmed (cli.go), and which calls of the fleet they    *)
(* turn into (Adapter.Call).  Three functions read the same words, each by *)
(* rules of its own.                                                       *)
(*                                                                         *)
(* A word is a keyword, or Other: an agent, a unit, a path, a number.      *)
(***************************************************************************)
EXTENDS Access, Sequences, SequencesExt

Other == "other"
Keywords == {"list", "show", "create", "revoke", "add", "delete", "status", "start", "stop",
  "restart", "close", "preview", "run", "detect", "projects", "token", "migrate", "job"}
Known == {"login", "logout", "agents", "stats", "services", "logs", "cleanup", "reboot", "exec",
  "ssh", "enroll-token", "users", "ssh-keys", "audit", "easypanel", "tui"}

Without(args, flags) == SelectSeq(args, LAMBDA w : w \notin flags)
Word(args, k) == IF k <= Len(args) THEN args[k] ELSE ""

-----------------------------------------------------------------------------
(* Validate, over the words without flags.                                 *)

Validate(args) ==
  LET n == Len(args)
      command == Word(args, 1)
      second == Word(args, 2)
      third == Word(args, 3)
  IN \/ command \in {"logout", "audit", "tui"} /\ n = 1
     \/ command \in {"stats", "reboot"} /\ n = 2
     \/ command \in {"login", "logs", "ssh"} /\ n = 3
     \/ command = "enroll-token" /\ n <= 2 /\ second \in {"", "create", "list"}
     \/ command = "enroll-token" /\ n = 3 /\ second = "revoke"
     \/ command = "agents" /\ <<n, second>> \in {<<2, "list">>, <<3, "show">>}
     \/ command = "services" /\ n = 3 /\ second = "list"
     \/ command = "services" /\ n = 4 /\ second \in {"status", "start", "stop", "restart"}
     \/ command = "cleanup" /\ n >= 4 /\ second = "preview"
     \/ command = "cleanup" /\ n = 4 /\ second = "run"
     \/ command = "exec" /\ n >= 3
     \/ command = "easypanel" /\ n >= 3 /\ third \in {"detect", "projects", "token", "migrate"}
     \/ command = "easypanel" /\ n >= 4 /\ third = "job"
     \/ command = "users" /\ n <= 2 /\ second \in {"", "list"}
     \/ command = "ssh-keys"

-----------------------------------------------------------------------------
(* Run: confirmation, and the call.                                        *)

\* destructive is given the words with the command in front: the second word of an easypanel
\* command is its agent.
Destructive(args) ==
  \/ Word(args, 1) \in {"reboot", "exec"}
  \/ Word(args, 1) = "easypanel" /\ Word(args, 2) = "migrate"
  \/ Word(args, 1) = "cleanup" /\ Word(args, 2) = "run"
  \/ Word(args, 1) = "services" /\ Word(args, 2) \in {"start", "stop", "restart"}

ServiceCalls == [status |-> "GetService", start |-> "StartService", stop |-> "StopService",
                 restart |-> "RestartService"]

\* Adapter.services: the words after "services".
Services(args) ==
  IF Len(args) >= 2 /\ args[1] = "list" THEN {"ListServices"}
  ELSE IF Len(args) = 3 /\ args[1] \in DOMAIN ServiceCalls THEN {ServiceCalls[args[1]]}
  ELSE {}

\* Adapter.Call: what it may ask of the fleet, nothing when it refuses the words.  A
\* migration asks about the target agent too.
Asks(args) ==
  LET rest == Tail(args)
      n == Len(rest)
      first == Word(rest, 1)
      On(command, condition, calls) == IF args[1] = command /\ condition THEN calls ELSE {}
  IN UNION {
       On("agents", n = 2 /\ first = "show", {"GetAgent"}),
       On("agents", ~(n = 2 /\ first = "show"), {"ListAgents"}),
       On("stats", n = 1, {"GetMetrics"}),
       On("services", TRUE, Services(rest)),
       On("logs", n = 2, {"ReadLogs"}),
       On("cleanup", n >= 3 /\ first = "preview", {"PreviewCleanup"}),
       On("reboot", n >= 1, {"Reboot"}),
       On("easypanel", n >= 3 /\ rest[2] = "job", {"StreamJobOutput"}),
       On("easypanel", n >= 2 /\ rest[2] # "job", {"Exec", "StreamJobOutput"}),
       On("easypanel", n >= 2 /\ rest[2] = "migrate", {"GetAgent"}),
       On("exec", n >= 1, {"Exec", "StreamJobOutput"}),
       On("enroll-token", n = 0 \/ first = "create", {"CreateEnrollmentToken"}),
       On("enroll-token", first = "list", {"ListEnrollmentTokens"}),
       On("enroll-token", n = 2 /\ first = "revoke", {"RevokeEnrollmentToken"}),
       On("users", n = 0 \/ first = "list", {"ListUsers"}),
       On("ssh-keys", n = 0 \/ first = "list", {"ListSshKeys"}),
       On("ssh-keys", n = 3 /\ first = "add", {"AddSshKey"}),
       On("ssh-keys", n = 2 /\ first = "delete", {"DeleteSshKey"}),
       On("audit", TRUE, {"ListAudit"}),
       On("ssh", n = 2 /\ first = "status", {"GetSshSession"}),
       On("ssh", n = 2 /\ first = "close", {"CloseSsh"}),
       On("ssh", n = 2 /\ first \notin {"status", "close"}, {"PrepareSsh"})}

\* main and Run: --no-color is out of Validate's way only; --json and --yes are taken out
\* wherever they stand, of a command for `exec` too.
Confirmed(args) == "--yes" \in ToSet(args) \/ ~Destructive(Without(args, {"--json", "--yes"}))
Program(args) ==
  IF Validate(Without(args, {"--json", "--yes", "--no-color"})) /\ Confirmed(args)
  THEN Asks(Without(args, {"--json", "--yes"})) ELSE {}

-----------------------------------------------------------------------------
(* Facts, over every command with up to three words.                       *)

Words == Keywords \cup {Other}
Commands == {<<c>> : c \in Known} \cup {<<c, a>> : c \in Known, a \in Words}
  \cup {<<c, a, b>> : c \in Known, a, b \in Words}
  \cup {<<c, a, b, Other>> : c \in Known, a, b \in Words}
Yes(args) == Append(args, "--yes")

\* What can be asked for is exactly the client's calls; a tunnel has a command of its own.
ASSUME CallsAreReachable ==
  UNION {Program(Yes(args)) : args \in Commands} = ClientCalls \ {"BridgeSsh"}

\* "migrate mutates a remote panel and requires --yes" (docs/easypanel-migrate.md): every
\* start, stop, restart, reboot and command does, but those of easypanel, migrations among
\* them, for an agent of any other name than "migrate".
ASSUME UnconfirmedIsEasypanel ==
  LET changing == {"StartService", "StopService", "RestartService", "Reboot", "Exec"}
      unconfirmed == {args \in Commands : Program(args) \cap changing # {}}
  IN /\ {args[1] : args \in unconfirmed} = {"easypanel"}
     /\ <<"easypanel", Other, "migrate", Other>> \in unconfirmed
     /\ <<"easypanel", "migrate", "detect">> \notin unconfirmed

\* Words that pass Validate and are then refused, but for login, logout and tui: a cleanup run,
\* and what ssh-keys does not know.
ASSUME ValidButRefused ==
  {<<args[1], Word(args, 2)>> : args \in {a \in Commands : Validate(a) /\ Asks(a) = {}}}
    = {<<"login", w>> : w \in Words} \cup {<<"logout", "">>, <<"tui", "">>, <<"cleanup", "run">>}
      \cup {<<"ssh-keys", w>> : w \in Words \ {"list"}}

\* "[--json] [--yes] [--no-color]" (Usage): with the last one, commands that count their words
\* are refused by the call after Validate had accepted them, and `agents show` lists.
ASSUME ColorCountsAsWord ==
  LET Coloured(args) == Program(Append(Yes(args), "--no-color"))
      changed == {args \in Commands : Coloured(args) # Program(Yes(args))}
  IN {args[1] : args \in changed}
       = {"agents", "stats", "services", "logs", "ssh", "enroll-token", "users", "ssh-keys"}
=============================================================================
