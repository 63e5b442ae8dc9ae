# Silent DevOps: a TLA+ model of the control plane

Silent DevOps has three programs. *Agents* run as root on managed hosts and keep one outbound
mTLS gRPC stream each to the *validator*; *clients* call the validator's fleet API. The
validator keeps everything durable in one SQLite file (one connection, so statements and
transactions are serial) and everything live in memory: the registry of streams, their queues,
SSH binding tokens and pending tunnels. This directory models the three programs, checks the
models with TLC on small instances and proves part of them with TLAPS for all instances. Paths
below are relative to `src/`.

## Inventory

| Component | State | Operations | Hard because | What makes it correct |
|---|---|---|---|---|
| Agent stream registry: `internal/registry/{registry,service,persistence}.go`, `internal/server/enrollment_admin.go` | `Registry.entries`, generation counter, one bounded queue per session; tables `agents` (revoked), `connections` | `Connect` (authorize, hello, `Acquire`, `Online`, send loop, receive loop, deferred `Offline`, `Release`), `Dispatch`, `Enqueue`, `Heartbeat`, `Disconnect`, `Expire`, `RevokeAgent`, restart | two goroutines per stream with deferred calls; the second stream of an agent arrives while the first is being released; a queue is closed by one goroutine and sent to by another | one holder per identity; late releases, heartbeats and `Offline` of an old stream leave its successor alone; a dispatch is delivered at most once, and not after an error |
| Job lifecycle: `internal/server/{jobs,unsafe,cancel,output}.go`, `internal/registry/messages.go`, `internal/agent/{handler,stream}.go` | table `jobs` (state, UNIQUE key); `Handler.seen`; the running command | submit (transaction, dispatch, repair), `CancelJob`, execution, `JobResult` | the record, the message and the command are three things on two machines; streams break and both sides crash in between | a key takes effect at most once; a refused submission never takes effect; a recorded result is the real one and final |
| SSH sessions: `internal/ssh/{session,keys}.go`, `internal/server/ssh.go`, `internal/agent/ssh.go` | table `ssh_sessions` (state, UNIQUE port), `Manager.tokens`, the agent's `authorized_keys` | `Create` with `allocatePort`, `Ready`, `Close`, `Reconcile`; agent `Prepare`, `Close`, `Reconcile` | expiry, cancellation, disconnection and restarts of both sides around a three-way exchange; the file is rewritten without a lock | ports unique and returned; ready means the key is there; tokens used once |
| Tunnel relay: `internal/tunnel/relay.go`, `BridgeSsh`, `OpenTunnel`, `Pipe`, `internal/agent/ssh.go` | `Relay.pending` by session id, one-place channel and `done` per registration; the bytes under way | `Register`, `Cancel`, `Serve`, `Attach`, `remove`, the pumps and splices | two RPCs with their own contexts meet through a map keyed by session, not by registration; three places where the first of two copiers ends both | no session is locked out; both calls end together; last words arrive |
| Identity: `internal/pki/*.go`, `internal/server/enrollment.go`, `internal/agentjoin`, `internal/agent/stream.go` (`Reconnect`) | `enrollment_tokens`, `agents`, the credential directory, the back-off | create, consume and revoke a join code; sign, register, renew, revoke; join, load, connect | code consumed before the certificate exists; revocation during renewal; files replaced one by one | a code enrolls at most one agent; revoked is final; a stream is under one identity |
| Accounts: `internal/server/{client_invitation,auth,fleet,read}.go`, `internal/auth` | `users`, `client_invitations`, `ssh_keys`, tokens, the limiter's buckets | `Login`, redeem, create, revoke, `SetUserRole`, keys, bootstrap, `client join` | redemption races with revocation; tokens outlive a change of role | one user per consumed invitation; tokens carry roles that were granted; only administrators administer |
| Access: `internal/auth/{service,endpoints,stream,policy}.go`, `internal/localcontrol` | tables of methods | which peer and role a method needs | tables in four places | no method without an entry, nothing without a token |
| Metrics: `internal/metrics/*.go`, `internal/agent/metrics.go` | `metrics_current`, `metrics_minute` | collect, publish, `Bound`, `Store`, merge into minutes | late and reordered snapshots, clocks set back, counters near their width | tables tell exactly what was stored; readings are exact or refused |
| Start, storage: `internal/runtime/validator.go`, `internal/validatorinit`, `internal/store`, `cmd/validator` | configuration files, schema version, WAL, listeners, socket path | `init`, migrate, start, serve, stop, `Backup` | interruption between two files; crash between migrations; two processes | an environment file means a complete directory; nothing committed is lost |
| Host: `internal/maintenance/*.go`, `internal/adminexec` | processes, output, previews, confirmations | `Dispatch`, `Runner.Run`, `Execute`, preview and confirm | process groups and pipes; one-time consents under concurrency | what returned is over; what ran is audited; consents used once |
| Client: `internal/clientapi`, `internal/clientcli`, `cmd/client` | screen and overlays, pins, tokens | commands, event loop, migrate form, SSH | results come in any order, after the operator has moved on | selection in range; what was confirmed is sent |
| EasyPanel migration: `internal/easypanel`, `cmd/easypanel-migrate`, `clientapi` | panels that others use | detect, token, preflight, migrate, follow | check-then-act against somebody else's panel, three timeouts | overwrites only what came later; ok means transferred |
| Protocol: `api/devops/v1` | enumerations, payloads, limits | who sends and reads what | state numbers written as literals in SQL | literals mean the states, what is sent is read |
| Packaging, `cmd/integration-helper` | - | - | scripts | - |

Components meet at three places: the *stream* (registry queue, FIFO per stream, at most one
stream per agent), which carries jobs, cancellations, SSH preparation and their answers; the
*database*, through which handlers race; and the *relay*, which joins two RPCs.

## Modules

| Module | Models | Built on |
|---|---|---|
| `AgentLease` | abstract: an identity is held by one stream at a time and passes on only when free | |
| `AgentRegistry` | the registry and everything that drives it | implements `AgentLease` |
| `AgentRegistryProofs` | theorems about `AgentRegistry` | `TLAPS` |
| `JobPromise` | abstract: what a job's record and its effect on the agent may do | |
| `JobLifecycle` | submission, cancellation, execution, result | implements `JobPromise` |
| `JobProofs` | theorems about `JobLifecycle` | `TLAPS` |
| `SshPromise` | abstract: a session's row, its port and its line in `authorized_keys` | |
| `SshSessions` | sessions, ports, tokens, `authorized_keys` | implements `SshPromise` |
| `SshProofs` | theorems about `SshSessions` | `TLAPS` |
| `TunnelRelay` | the rendezvous of `BridgeSsh` and `OpenTunnel` | |
| `TunnelData` | the bytes of a tunnel, end to end | |
| `TunnelProofs` | theorems about `TunnelRelay` and `TunnelData` | `TLAPS` |
| `Identity` | join codes, enrollment, renewal, revocation, `agent join`, credential files, the agent that connects with them | |
| `IdentityProofs` | theorems about `Identity` | `TLAPS` |
| `Access` | tables: methods, roles, policies, interceptors, what the programs ask for | |
| `Accounts` | users, invitations, keys, tokens, rate limiter | `Access` |
| `AccountsProofs` | theorems about `Accounts` | `TLAPS` |
| `Startup` | `validator init`, the start sequence, socket and port, database file and backup | |
| `StartupProofs` | theorems about `Startup` | `TLAPS` |
| `Protocol` | tables: states, payloads, operations, limits | |
| `Host` | the agent's commands, the executor, one-time consents | `Protocol` |
| `MetricsPipeline` | readings from the agent to the tables | |
| `Readings` | the arithmetic of a reading | |
| `PanelMigration` | moving a service between two panels | |
| `CommandLine` | the words of a client command and the call they become | `Access` |
| `Dashboard` | the terminal interface's event loop | |
| `MachineProofs` | theorems about `PanelMigration`, `Host`, `Dashboard`, `MetricsPipeline` and `Readings`, which share nothing but the file | `TLAPS` |
| `MC*` | instances for TLC; `MCValidator`, `MCLiveness`, `MCOperators`, `MCControl` and `MCMachines` hold several parts | |

### How the models correspond to the code

A step is a stretch of code between two points at which another goroutine or machine can act: a
section under a mutex, one SQL statement or transaction, one channel operation, one message
sent or received. What the code does between two such points is one action, error paths
included. A definition marked "Variant" is a plausible bug kept beside the code's own form: no
specification uses it, and putting it in the place of the definition after it makes a property
fail.

*AgentRegistry.* `pc[s]` is the line of the `Connect` handler (`authorized` after `Authorize`,
`acquired` after `Acquire`, ... `closing`, `releasing`, `closequeue` for the deferred calls in
the order they run: `Offline`, then `release` under the mutex, then `close(queue)`); `sender`
and `receiver` are its two goroutines. `entries[a]` is the map entry, with `stale` for a
`lastSeen` further back than the timeout, so that time needs no numbers. `Release` leaves
`entry.session` in place, as the code does. A panic of any goroutine ends the process (no
handler recovers), which `process` records. `Expire` is modelled although nothing calls it in
production: it is an exported operation of the registry with tests of its own. `evicted` and
`sent` are history and no action reads them. `RevokeAgent` is its UPDATE; the agent is then in
`revoking` until `Disconnect`, which ends what is in the registry by then.

*JobLifecycle.* One agent whose streams behave as `AgentRegistry` shows: one open at a time, a
message on at most one of them. Queue and transport are one FIFO. A stream that breaks leaves
the agent a prefix of what was sent to it, loses the results under way, and its receive loop
may go on with that prefix. `record[j]` is `jobs.state`, `effect[j]` is what happened on the
host. The deadline is a step that may happen at any time after submission. `Handler.seen` is
in the model; since each job is dispatched once it never rejects anything there, and
at-most-once execution rests on the UNIQUE key and on there being no redelivery.
`cleanup_preview`, `cleanup_run` and malformed operations are the "rejected" outcome. The agent
reports `JOB_STATE_CANCELLED` itself when it is stopped (`AgentStops`): its context kills the
running command, or keeps the next job from being begun, the result is "stopped" and is sent or
lost, and the process exits. The record it makes is the one of a cancellation, and final.

*SshSessions.* `port` and `state` are the columns of `ssh_sessions`, `tokens` the map of the
manager. The two sides read one expiry differently. The validator compares milliseconds: `late`
holds the sessions past `expires_unix_ms`. The file has whole seconds, rounded down, and
`Reconcile` keeps a line of a later second than this one only: `ending` holds the sessions whose
second has come, `LastSecond` is the step in which that happens before `late`, and
`AgentReconciles` drops their lines. A rewrite of `authorized_keys` is two
steps, reading (an element of `edits`) and `rename`: `KeyStore` has no lock, and the receive
loop of an old stream, that of the current one, and `Reconcile` before a new one do it
concurrently. `raced` is history. `SshReady` carries no port, so its check is the token's.
`SshPromise` leaves calls, tokens, streams and rewrites out: `Asked` maps a `PrepareSsh` that
waits in a queue or in a rewrite to the one question, which is open until it is answered or lost.
A line may still come after the close when `PrepareSsh` waited longer than `CloseSsh` took; it
then stays until its second has come and a stream begins, or `CloseSsh` is called again.

*TunnelRelay.* One session id: entries for different ids do not touch. A registration and its
tunnel are named by the `BridgeSsh` call that made them (the token is 32 random bytes). `Serve`
looks the entry up a second time, as the code does, so a call can be attached (`at`) to another
call's registration. `remove` takes the session's entry whoever's it is. A splice has two pumps,
either of which may be `held`: flow control keeps it in `Send` to an end whose peer is there and
does not read (`SendBlocks`, `PeerReads`). `EndSplice` is the return of the first pump: a side
has closed (`SpliceCloses`, by a pump that is not held), or a stream has failed (`SpliceBreaks`:
a `Recv` from it fails unless the pump that reads it is held by the other end, a `Send` to it
fails as soon as there is one).

*TunnelData* is what happens inside the splice: at the client, the validator and the agent two
copiers each, of which the first to return ends the other. After the handlers have returned an
end learns of it in one of two ways: `Recv` gives the frames that had been sent and then the
status (`HubHasReturned`), or `Send` gives `io.EOF` as soon as the status has arrived, although
`Recv` has frames left (`SendEnds`, which `cut` records). Until then what it sends goes nowhere
without an error. `Tears` is a connection that breaks or a process that ends with unsent frames;
the client's does so right after `Pipe` returns.

*Identity.* A join makes one key and asks for one identity, so both are named by it. `code` and
`row` are the tables, `enroll`, `renew` and `join` the places of the three calls, `files` says
which join wrote each credential file. `SaveFile` renames one file in any order, since the code
ranges over a map. A stream comes up in two steps, `AuthorizeConnection` (the row is read) and,
when the hello has come, `Acquire` (hello and certificate are compared, the row is not read
again); so does a revocation, `RevokeAgent` (the UPDATE; `revoking`) and `Disconnect` (the stream
that is open by then). `overtaken` is history: a `Disconnect` that came between the two steps of
the stream. `delay` is the back-off: nothing resets it, because `RunConnection` never
returns nil.

*Accounts.* A token is named by the call that issued it; `stale` holds what is past its expiry.
The tables of `Access` decide on every call: `Admitted` for a token, `Anonymous` without one,
`AskLocally` for the socket. A request of administration is let in (`Ask`) and writes later
(`CreateUser`, ...): in between a password is hashed and the one connection waited for, and the
token may expire or its user lose the role, which nothing looks at again. A redemption likewise
takes the time it will compare the expiry with (`RedeemBegins`) before it waits for the
connection; its SQL transaction is one action. Hashing, between reading the role and
issuing the token, is where a role can change. What `client join` writes on the operator's machine are the last
places of a call, "saved" and "joined". Pins are left out but for their comparison's outcome.

*Startup.* `pc[p]` follows `RunValidator`; each file write of `init`, each migration and each
listener is a step. The main database file has two pages and a log: a commit is in the log,
checkpoints move pages one by one, `Backup` copies them one by one. `validator.env` is there or
not: a partly written one, and what `fsync` has to do with it, are left out. A migration and its
record are one transaction and one action (`Migrate`), so that the first half of
`DatabaseSurvives` (`RecordedIsApplied`) says little more than that; its other half is the
backup's.

*Host.* A command is a leader and at most one child, in the process group (`group`) or out of it
(`strays`), holding the pipe or not; `Wait` returns when the leader is gone and the pipe free.
`connection` is the command whose transaction holds the only database connection.

*MetricsPipeline.* The publisher runs beside `RunConnection`, so its first reading may precede
the hello. `storing` is a reading inside `Store`, which goes on when its stream has ended. The
row of a minute is that of one metric without labels: since `merge` never finds its key again,
it lists the values one by one (`Merge`). The values with labels do meet, in a mean that weighs
later readings more than earlier ones; that entry is left out.
*Readings* gives every input of a small width to the parsers and compares with arithmetic
without a width.

*PanelMigration.* All migrations want the same service of the same target, others edit both
panels meanwhile, and client, tool and panel each give up on their own.

*CommandLine* is the words of a command line up to the call they become (`Validate` before the
program strips flags for the call, `Destructive`, `Asks`). *Dashboard* is `Update`: one action
per kind of message, requests answered in any order; agents are ranks, since listings are
ordered by random ids and new ones may come anywhere. Three panels stand for the seven, one per
way of handling (text, table, EasyPanel).

*Access* and *Protocol* are tables with facts that TLC evaluates (below).

## Runs

| Run | Instance | Shows |
|---|---|---|
| `validator` | `AgentRegistry`: 1 agent, 2 streams, 2 dispatching calls, queue depth 1; `Startup`: 2 inits, 2 validators, 2 migrations, 2 commits | identity, queue and table invariants, the refinement of `AgentLease`; initialisation, database, backup and socket |
| `liveness` | `AgentRegistry`: 1 agent, 1 stream, 2 calls; `JobLifecycle`: 2 jobs, 1 cancellation, 1 stream; `TunnelRelay`: 2 bridges of one session | a vanished peer's identity is released, blocked dispatches return; on a stream that holds every job is handled and its result recorded; no lock-out, every call returns, both ends of a splice end together |
| `registry_panic` (violation) | 1 agent, 2 streams | a revocation can close a closed queue: the validator dies |
| `registry_revoked` (violation) | 1 agent, 2 streams | an agent revoked between its check and `Acquire` is served |
| `operators` | `JobLifecycle`: 3 jobs of which 2 share a key, 1 cancellation, 2 streams; `Dashboard`: 3 agents, pages of 2, 2 requests | at most one effect per key, refusals are final, results are real, refinement of `JobPromise`; what the terminal selects and requests |
| `jobs_resolved` (violation) | 1 job, 2 streams | a job can stay `DISPATCHED` for ever |
| `ssh_keys` (violation) | 2 sessions, 2 ports, 2 streams | overlapping rewrites lose the key of a ready session |
| `ssh_ports` (violation) | 1 session | an expired session keeps its port |
| `relay_awaited` (violation) | 2 bridges | the end of one bridge removes the registration of the next |
| `metrics_minute` (violation) | 1 stream, 2 readings of a minute | a minute keeps both values of a metric without labels |
| `control` | `Identity`: 2 codes, 2 joins, 1 renewal; `Accounts`: 2 users, 1 invitation, 2 calls, 1 request, 1 key, roles viewer and administrator | identities and accounts |
| `machines` | `SshSessions`: 2 sessions, 2 ports, 2 streams; `TunnelData`: 2 chunks a side; `Host`: 1 command, 2 cleanups, 1 preview of 2 paths, 1 reboot; `MetricsPipeline`: 2 streams, 3 readings; `Readings`: counters up to 3, 5 fields, lists of up to 4, limit 2; `PanelMigration`: 2 migrations, 1 edit | tokens, keys unless rewrites overlap, refinement of `SshPromise`; bytes, commands, readings and migrations |

*Sums.* `validator`, `liveness`, `operators`, `control` and `machines` each hold several modules
that share no step. A variable
`part`, chosen at the start and never changed, says which of them moves; the others stay as
they began. A behaviour of the run is a behaviour of one part, the states are the sum of the
parts' and not their product, and every property is checked in every part.

*Bounds.* The hazards are about one actor that is late and one that has replaced it, so two
streams (the old and the new), two joins, two validators, two migrations show them; a third adds
only a further replacement. Depth 1 is the smallest queue that can be full, two callers the
fewest of which one waits for the other. Two jobs under one key give the race and the retry, the
third job stands behind or between them. Two sessions compete for the first port while a second
is free. Two pages are the fewest of which a torn copy can mix two transactions, two paths the
fewest between which a cleanup can stop, two chunks the fewest whose order can change; width 2
has every carry, with lists two longer than the limit. A page of two among three agents lets
listings grow, shift and differ. One request of administration is let in at a time:
what it can meet between its check and its write are logins, redemptions, expiries and the other
call's token. In the runs of jobs the deadline of one job passes at most (`OneExpires`; without
symmetry it is the first's, `FirstExpires`): nothing compares deadlines. In `control` one
invitation or token expires and two codes or certificates do (`FewLapse`): nothing compares the
expiries of more. In `operators` the agent that is last in the listings is the first of the fleet
(`LastIsFirst`): those that enroll after it come before it, which is what shifts a listing. Every RPC and stream is used once; the numbers that
grow (readings, ticks, edits, commits, requests) are bounded by the constant named after them, and
the queue positions and the generation by the streams. `MinDelay = MaxDelay = 1` in `control`:
the back-off takes part in no property there. Deadlock checking is off in all runs: once all
calls are used up the models stop, and a system nobody calls may stop.

*Symmetry* is used only in runs without liveness properties. In the sums several parts name
their actors alike (streams and validators, callers and inits; joins and calls; sessions and
migrations), so that one permutation
serves all parts; no two parts that share a name share a step.

*Facts.* Tables have no states to explore; what they must satisfy is stated as an `ASSUME`,
which TLC evaluates in every run above them:

- `Access`: `TableIsComplete` (every fleet method has a role), `NothingByDefault` (no fleet
  method without a token, nothing without an address), `Unasked` (four methods no program calls).
- `Protocol`: `LiteralsMeanStates` (the numbers in the SQL are the states they are meant to be),
  `ReportsAreFinal`, `CancelledInNameOnly`, `SentIsRead` (which payloads are sent but never
  read), `AskedIsRun` (which operations the agent runs), `NegotiatedNeverHigher`.
- `CommandLine`: `CallsAreReachable`, `UnconfirmedIsEasypanel`, `ValidButRefused`,
  `ColorCountsAsWord`; `PanelMigration`: `QueryFindsMethod`.

## Fairness

Only what the Go scheduler, gRPC and systemd give is assumed, and only in the runs about liveness
(`liveness`, `jobs_resolved`, `ssh_ports`). It is weak fairness but for one action:

- a handler, goroutine or deferred call that can take its next step takes it (`HandlerStep`,
  `CallStep`, `BridgeStep`, `TunnelStep`, `SubmitStep`, `CancelStep`, ...);
- `Recv` fails once the peer is known to be gone. When that is noticed is not assumed: no
  keepalive is configured, so `gone` is a step of the environment that need not happen;
- in `AgentRegistry`, `Send` to a peer that reads, or is known to be gone, returns
  (`SenderStep`): the properties there are about peers that do;
- in `TunnelRelay` nothing is assumed of a `Send` to a live end: a pump may be held in it for
  ever. Strong fairness of `SpliceBreaks` says that a pump which is held again and again, and each
  time let go, comes to the end of a stream that is over, since what such a stream still has to
  give is finite;
- a killed validator is started again (`Restart=on-failure` in the unit file);
- commands end, since the agent kills their process group after an hour;
- only in `jobs_resolved` and `ssh_ports`, so that nobody can say it was for want of it: the agent
  reconnects (`FairSpec`).

`EndsTogether`, and `CallsReturn` for `OpenTunnel`, are therefore conditional: they speak of
splices of which it is not true for ever that one end is over while the pump that would notice is
held by the other (`[]<>~Unnoticed`). Where it is true for ever (a client that is stopped and
keeps its connection, say), `OpenTunnel` and the agent's or the client's end of the tunnel stay.
`CallsReturn` for `BridgeSsh` needs no condition.

Callers, clients and operators owe nothing: no connection, heartbeat, close, expiry or crash is
fair. `Host` shows why the assumption on commands is one: after the kill `Run` waits without a
deadline for a pipe that a process outside the group may hold, which is why `ReturnedIsOver`
speaks of what has returned and not of returning.

## What is proved

`AgentRegistryProofs` has seven theorems about `Spec` of `AgentRegistry`, for any sets of
agents, streams and callers and any queue depth, from `RegistryAssumption` alone (each stream
has one agent, the depth is positive, `NoStream` is not a stream): `TypeCorrect`,
`HolderCorrect` (`HolderIsOnline`), `NoGhost` (`OnlineHasHolder`), `OneStream` (of two streams of
an agent between `Acquire` and `Release` one was evicted), `ImplementsLease`
(`Spec => LeaseSpec`), `ServedIsOnline` (`ServedRowOnline`) and `AtMostOnce`
(`DispatchAtMostOnce`).

`HolderIsOnline` and `OnlineHasHolder` are not inductive, not even together: they say nothing
of the stale session an offline entry still points to, or of the generation a stream that has
not reached `Acquire` will get. `Generations` adds that: generations are at most the counter
and never shared, a stream before `Acquire` has none and has not been evicted, and an entry's
session is of its own agent and generation. The invariant `IInv` is `TypeOK`, `Generations` and
the two properties. Most actions are `Quiet`: they change neither generations nor who holds
what, and one lemma covers them all; `Acquire`, `Release`, `CloseQueue`, `Disconnect`, `Expire`
and death of the process have a lemma each. `OneStream` follows from `HolderIsOnline`: two
unevicted holders would both be the session of one entry. For the refinement every step is
either a grant (`Acquire`) or shrinks the set of held identities (everything else).
`ServedRowOnline` is inductive with `IInv` once it is added that a process that is down serves
nobody (`Served`): whose row `PersistOnline` replaces, an evicted stream's or nobody's that is
served, follows from `HolderIsOnline`. `DispatchAtMostOnce` counts copies and
deliveries; what is inductive names the places instead (`Single`: a message has one place in one
queue or was sent on one stream, and one whose `Dispatch` did not return nil has none), and
`SingleCounts` counts them.

`IdentityProofs` has six theorems about `IdentitySpec`, for any number of codes, joins and
renewals and any bounds of the delay, from `IdentityAssumption` and `NoneIsNoRecord` (that `None`
is no record): `IdentityTypes`, `OneIdentityPerCode` (`CodesEnrollOnce`), `StoredHasRow`
(`StoredIsRegistered`), `StreamHasOneIdentity` (`OnlineIsOneIdentity`), `RevocationStays`
(`RevokedIsFinal`) and `MixtureTakesTwo` (`MixedTakesTwo`). Its `IInv` adds to the three
invariants and the types what each place of a call means: `Enrolling` (no row before `Register`,
one after it and while a join saves; a join that has not started has sent nothing), without which
a second `Register` could replace a revoked row and a join could save an identity without one;
`Renewing` (an authorized renewal is of an identity with a row); and `Loading` (what the agent
has loaded is a matching pair, and only an agent has a stream), without which `Acquire` could
bring up a mixture. `OnlineIsOneIdentity` says of an open stream that its identity is not revoked
but for two windows, each named by a variable: the `RevokeAgent` has yet to come to its
`Disconnect` (`revoking`), or that came while the stream was authorized and not yet open
(`overtaken`), which is what `registry_revoked` shows. For that the invariant says that an
authorized stream is of an identity that is not revoked, is about to be disconnected, or was
overtaken. Each group of steps has a lemma for the types and one for the rest;
`RevocationStays` follows from `Enrolling` and the guards of the two UPDATEs. `MixedTakesTwo`
needs the other half of the story, about the joins that were neither interrupted nor overtaken
(`Alone`): such a join is the only one at work, has written every file it no longer has to write
over what was there, and when it has ended no other has started since. That finitely many joins
have started (`Started`) is what lets "more than one" be counted.

`JobProofs` has four theorems about `Spec` of `JobLifecycle`, for any number of jobs, keys,
streams and cancellations, from `JobAssumption` (`NoJob` is no job, streams are numbered) and
`FiniteJobs`: `KeyActsOnce` (`OneEffectPerKey`), `RefusedNeverActs` (`RefusedHasNoEffect`),
`ResultsAreExpected` (`ResultsUnderWay`) and `ImplementsPromise` (`Spec => PromiseSpec`). That
two submissions with one key do not both act follows from the unique index (`OneRow`) only
because every effect is of an accepted submission and every accepted one has a row; that one
submission acts once needs the channels: a job in an agent's queue has had no effect
(`QueuedFresh`) and is in one place of one queue (`QueuedOnce`), a running one has started and
runs once (`RunningOnce`), and a result in a channel is what happened, once, and finds its record
unfilled (`UpFresh`, `UpOnce`). Most steps forget messages and let submissions and their
rows proceed without a new effect or result (`Ledger`), and one lemma covers them; each of the
others has its own.

`AccountsProofs` has three theorems about `AccountsSpec`, for any number of users, invitations,
calls, requests and addresses and any limits, from `AccountsAssumption` and `NobodyIsNoValue`
(that `Nobody` is no record): `RedemptionIsWhole` (`ConsumedIsUser`), `TokensCarryRole`
(`TokensMatchRole`) and `AdministrationIsAdmins` (`AdministeredByAdmins`). `ConsumedIsUser` is
split into its two directions, each naming the row of the other (`Made`, `Consumed`); `Known`
says that the name a call has read is a user's, since no user is ever removed, and that a
redemption that has begun was shown an invitation that exists. For the third `Trusted` carries
what the interceptor saw over to the write: a request that waits is of the socket or of a call
whose user's row has said Admin, and so has that of every token, or login under way, that says
so. It also covers names that have no row yet, and says of every change of the three tables
which of three ways it came. Most steps are of calls alone (`CallsFollow`). What the theorems do
not say: that whoever writes is an administrator still. Nothing takes a token back, so
`TokensMatchRole` leaves out the calls that read a role before it changed (`outdated`) and
`AdministeredByAdmins` accepts everybody who was one (`admins`).

`TunnelProofs` has a theorem about each half of the relay. `NeverLockedOut` (`NoStuckEntry`, from
`RelayAssumption`, for any number of bridges of one session): `NoStuckEntry` names somebody who
is still there; the invariant `Owned` says who it is for this entry: the call that registered it,
one that found it, or its splice, and that the client waiting in its channel, and whoever closes
it, is one of those. (That they come to remove it is `CallsReturn`, under its condition.)
`AllLastWordsArrive` (`LastWordsArrive`, for any number of chunks): the
chunks at the far end, those in the two channels and those read are one sequence of numbers
(`Numbered`, `Continues`), unless something was torn; only the end of a program, or a `Send` that
met the end of the stream, ends a copy (`Ending`), and the close of an end that hung up alone is
behind everything it said, wherever it is (`CloseFollows`). Last words are promised to a side
that is not itself sending when the stream ends: one that is may return on its `io.EOF` first.

`StartupProofs` has three theorems about `StartupSpec`, for any number of inits, processes,
scripts and transactions, from `StartupAssumption` and `NilIsNoSet` (that `Nil` is no set of files): `EnvIsComplete`
(`EnvMeansComplete`), `DatabaseIsWhole` (`DatabaseSurvives`) and `SocketIsKept` (`SocketKept`).
`OneInit` says what the one running init has written and has left; `PortHeld` that the port is
held from `Listens` to `Stops`, which is what keeps a second process from the socket;
`BackupAlone` what page and copy are at each place of a backup nobody disturbs.

`SshProofs` has four theorems about `Spec` of `SshSessions`, for any number of sessions, ports,
calls and streams, from `SshAssumption` (ports are numbers, `NoPort` is none of them):
`LiveSessionsHavePorts` (`PortsOfLiveSessions`, which the refinement of `SshPromise` implies and
no run lists by itself), `ReadyWasAwaited` (`ReadyIsExpected`) and
`KeyIsThereWhenReady` (`ReadyHasKeyUnlessRaced`), and `ImplementsSshPromise`
(`Spec => SshPromiseSpec`). `IInv` follows a session's one `PrepareSsh`
along its places: in a queue, in a rewrite of the file that has begun, as an `SshReady` going
back. It is in one of them, once (`Once`); there it is because the call has returned, and on a
stream that is still open the token or a close is there (`Expected`). `Rows` says what a token
and the places of the two calls mean for the row, `Closes` that a `CloseSsh` under way is of a
row that is over, `Rewrites` that each rewrite adds or removes its session's line alone and that
the one before a stream drops lines in their last second only, `KeysThere` that the line is there from before
`SshReady` leaves. A message that is taken or lost is a shift of the channel (`DownKeeps`,
`UpKeeps`), and one lemma (`Kept`) covers all steps that add nothing. `allocatePort` needs that a
set of numbers has a least one (`LeastOf`). For the refinement `IInv` says where the one question
is; `Lines` adds that the file, and what a rewrite read of it, has only lines whose question is
settled, and that a rewrite adds none but the one that it is for: that is why even overlapping
rewrites bring no line that was not asked for. A step that adds no question is a loss of some or
none (`Forgotten`).

`MachineProofs` has theorems about five modules, each from the assumption its module states:

- `PanelMigration`: `OverwritesAreAllowed` (`OverwritesOnlyWhatCameLater`) and `OkIsTransferred`
  (`SaidOkIsTransferred`) from `MigrationInvariant`, the order of a migration's steps over
  client, job, tool and panel, for any number of migrations with edits between them.
- `Host`: `ReturnedStaysOver` (`ReturnedIsOver`) and `ExecutedStaysAudited`
  (`ExecutedIsAudited`) from `HostInvariant`, for any commands and output limit: which processes
  a command can have at each place (`CommandProcesses`: none before the start, no leader and no
  writer after `Run` returned, nothing of the group after the kill, and who holds the pipe is
  alive) and what its row says (`CommandRow`). `ConsentIsUsedOnce` (`ConsentUsedOnce`) from
  `ConsentInvariant`: a consent that can still be taken has not been used.
- `Dashboard`: `SelectedStaysInRange` (`SelectedInRange`), where every listing, also one in a
  result not taken yet, is a list with a length (`SelectionInvariant`; that `ListAgents` answers
  one is `PageIsList`); and `DispatchedStaysAsConfirmed` (`DispatchedAsConfirmed`), where a form
  that asks for the second enter has the focus on submit and still shows what was promised
  (`FormInvariant`).
- `MetricsPipeline`: `TablesAreOfStored` (`TablesOfStored`) for any streams, readings and
  minutes: numbers are counted (`Counted`), a reading is in one place, on a stream, with a
  receive loop or stored (`InOnePlace`), so that no minute merges one twice.
- `Readings`: `ArithmeticIsExact` (`ReadingsAreExact`) for counters of any width, tables, lines
  and buffers of any length, any unit and any limit, from `ReadingsAssumption`. A loop of the code
  is a function of the turns taken (`After`); that it has a value after every turn
  (`LoopHasValues`), and what that is, is shown by induction over the turns, which here is that
  a first turn that fails would follow one that does not (`UpTo`). So the guarded sum of
  the cpu line is the sum without a width or `Overflow` (`TotalIsSum`), a table keeps the first
  rows of its kind (`KeptAreFirst`), and the buffer what was pushed last (`BufferedAreLast`).

The inductive invariants of this section were checked by TLC on the instances of the runs when
they were first stated; what is said of every natural number there was said of those that occur.

Only model-checked: the facts of the tables, which TLC evaluates, and all liveness
(`DispatchReturns`, `DeadPeerReleases`, `ResultArrives`, `CallsReturn`, `EndsTogether`), which is
out of the prover's reach, as is `ENABLED`. Every safety invariant, action property and
refinement that a passing run checks is a theorem. Each leaf is proved in a fifth of the time
the provers are given by default, so that the proofs do not hang on a fast machine.

## Disagreements met

The violation runs are listed with their quotes under "findings" in `PROJECT.json`. In short:
`RevokeAgent` for an agent that has disconnected before panics the validator; an agent that is
revoked between its check and its `Acquire` is served until its stream breaks; jobs whose outcome
was lost are never resolved to `UNKNOWN_RESULT`; rewrites of `authorized_keys` race; expired
sessions keep their ports, and since `allocatePort` skips them while the index does not, every
`Create` then fails until the row is closed or the validator restarts; the relay removes
registrations by session id, so that one bridge's end can take away the next one's registration;
and a minute of metrics lists the values without labels where the plan says aggregates.

Other places where the code does something else than a reader would expect, part of the
models unless it is said that they are not (the module is named where it matters):

- *AgentRegistry*: `Offline` runs on the stream's own context: when the peer broke the stream,
  the row stays `online` until the next connection or restart.
- *SshSessions*: a line in `authorized_keys` counts for whole seconds, rounded down
  (`internal/ssh/keys.go:28,50`): in the last part of a second of its time a session that is
  ready loses its line when the agent reconnects.
- *TunnelRelay*: a pump held in `Send` to an end that does not read keeps the splice, its entry
  and the other end's call for as long as that lasts.
- *Identity*: no agent calls `Renew`, and `SignAgentCSR` accepts only an empty common name
  (`docs/operations.md:34` describes renewal). A join code that was consumed is not given back
  when signing, the insert or the answer fails. The directory that `join` fills is replaced file
  by file. The back-off never returns to its minimum.
- *Accounts*: `validator init` prints the pin without padding and the client compares the padded
  form (`docs/installation.md:65`, `internal/clientapi/pin.go:32`; an observation, pins are not
  modelled). Roles are those of the token for up to 15 minutes, and a request that was let in
  writes after its token has expired. `users.disabled` is never written. The limiter's keys carry the peer's
  port, so every new connection has a bucket of its own, and buckets are never removed. Callers
  of the local socket have no row in `users`, so what refers to one fails for them.
- *Startup*: a second validator marks all agents offline before it finds the port taken; the
  late close of a local listener removes its successor's socket. `store.Cleanup` is never
  called.
- *Host*: `CleanupManager`, `RebootManager` and `adminexec` have no caller but tests; the
  agent rejects cleanup jobs, and the text that confirms a reboot may be anything. When
  `Execute` is cancelled its row stays `RUNNING`; an early return keeps the only connection.
  `ExecutedIsAudited` holds with both and would not tell if they were mended.
- *MetricsPipeline*: a reading before the hello ends the stream; the first failed `Collect` or
  `Send` ends the publisher until the next connection; values without labels are keyed `{}` and
  `null`, never meet, and grow a "null" in their name with every merge; a clock set back freezes `metrics_current`. *Readings*: a cpu line of
  exactly four counters panics.
- *TunnelData*: there is no half-close. The side that closes first is heard to its last word
  unless the other is writing just then, whose `Send` ends it before it has read everything; what
  the other was saying is lost.
- *PanelMigration*: a service that somebody creates after the preflight is replaced without
  `--overwrite-remote-service`, which `OverwritesOnlyWhatCameLater` permits; the output of a failing `token` is taken for the token; the client gives up
  while panel and tool go on; a project it created stays after a failure; a `--timeout` of more
  than 60 minutes is refused by the validator.
- *CommandLine*: `easypanel AGENT migrate` needs no `--yes`, because `destructive` looks at the
  word after the agent (`docs/easypanel-migrate.md:137` says it requires `--yes`, and so does
  `cli.go:103`); `--no-color` is removed for `Validate` only, so commands that count their words
  are refused by the call; `--yes` and `--json` are removed from an `exec` command's own words;
  `cleanup run` passes `Validate` and is refused by `Call`.
- *Protocol*: `CancelJob` answers "cancelled" for jobs whose row stays as it is; the agent
  ignores limits and the connection state; output and `cancel_ack` payloads are never sent; the
  queue is as deep as the validator's own limit, not the negotiated one.
- *Dashboard*: results name no agent, so a panel may show what was asked about the one selected
  before; `startSSH` holds up the event loop; the login goroutine writes the overlay's fields
  beside the loop; a late refusal wipes a password being typed.
- *Access*: `SetUserRole`, `CancelJob`, `ListProcesses` and `RunCleanup` are asked for by no
  program.

## Plan

Done, most important behaviour first: the registry, jobs, SSH sessions, the relay; then
identity, accounts, the start, the host, metrics, migrations and the client; and the proofs of
all their safety properties and of the three refinements. What is left is the composition of
`AgentRegistry` with `SshSessions` and `JobLifecycle`: their environment of streams that follow
one another as a consequence of the registry.

## Not modelled

- Presentation: `view.go`, `tables.go`, `theme.go`, `keys.go`, printing and the help.
- Wire formats, certificates, signatures and password hashes: a certificate, token, code or pin
  is a name; only where two encodings of one pin are compared are they two values.
- Queries that read one table in one statement (`ListAudit`, `ListUsers`, `GetAgent`, ...): they
  change nothing and promise nothing across calls. Who may make them is in `Access`.
- Code only its tests use: `store.Cleanup`, `metrics.Run`, `auth.UnaryInterceptor`,
  `NewBackoff`.
- Generated accessors and marshalling, packaging, `cmd/integration-helper`.
- Reading `/proc`, `statfs` and the panel's LMDB store: an outcome.
