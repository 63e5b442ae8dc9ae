------------------------------ MODULE Identity ------------------------------
(***************************************************************************)
(* How a host gets, keeps and loses its identity: join codes and the       *)
(* agents table (internal/pki), Enroll and Renew (server/enrollment.go),   *)
(* `agent join` (internal/agentjoin) and the credential directory it       *)
(* fills (pki/credentials.go), and the agent that loads the directory and  *)
(* reconnects with it (runtime/agent.go, agent/stream.go).                 *)
(*                                                                         *)
(* One host.  A join makes one key pair and asks for one identity, so the  *)
(* identity, its key and its first certificate are named by the join; a    *)
(* renewed certificate is named by the Renew call.                         *)
(***************************************************************************)
EXTENDS Naturals, FiniteSets

CONSTANTS
  Codes,      \* join codes
  Joins,      \* runs of `agent join` on the host
  Renewals,   \* Renew calls
  MinDelay,   \* the reconnection delay starts here (1 s)
  MaxDelay,   \* and stops growing here (60 s)
  None        \* no value

ASSUME IdentityAssumption ==
  /\ None \notin Joins \cup Renewals \cup Codes
  /\ Joins \cap Renewals = {}
  /\ MinDelay \in Nat /\ MaxDelay \in Nat /\ 0 < MinDelay /\ MinDelay <= MaxDelay

VARIABLES
  code,       \* each row of enrollment_tokens
  lapsed,     \* codes and certificates past their expiry
  used,       \* the code an Enroll call carries
  enroll,     \* where the Enroll call of a join is
  row,        \* agents: current serial and revoked; None without a row
  renew,      \* where a Renew call is
  renewing,   \* the identity a Renew call authenticated as
  join,       \* where a join is
  files,      \* the credential directory: the join that wrote each file
  todo,       \* files a join has yet to write
  unclean,    \* history: joins that were interrupted while saving or overlapped another
  agent,      \* the credentials the running agent has loaded, or None
  delay,      \* Reconnect's delay
  connection, \* the agent's stream at the validator: "none", "authorized" or "open"
  revoking,   \* identities whose RevokeAgent is between its UPDATE and Disconnect
  overtaken   \* history: Disconnect came by while the stream was authorized and not yet open

caTables == <<code, lapsed, used, enroll, row, renew, renewing>>
host == <<join, files, todo, unclean>>
connections == <<connection, revoking, overtaken>>
agentProcess == <<agent, delay, connections>>
identityVars == <<caTables, host, agentProcess>>

-----------------------------------------------------------------------------
File == {"key", "crt", "ca", "id"}
Serials == Joins \cup Renewals
Row == [serial : Serials, revoked : BOOLEAN]
Loaded == [key : Joins, crt : Joins, id : Joins]

ASSUME NoneIsNoRecord == None \notin Row \cup Loaded

IdentityInit ==
  /\ code = [c \in Codes |-> "absent"]
  /\ lapsed = {}
  /\ used = [i \in Joins |-> None]
  /\ enroll = [i \in Joins |-> "idle"]
  /\ row = [i \in Joins |-> None]
  /\ renew = [r \in Renewals |-> "idle"]
  /\ renewing = [r \in Renewals |-> None]
  /\ join = [i \in Joins |-> "new"]
  /\ files = [f \in File |-> None]
  /\ todo = [i \in Joins |-> {}]
  /\ unclean = {}
  /\ agent = None
  /\ delay = MinDelay
  /\ connection = "none" /\ revoking = {} /\ overtaken = FALSE

Active(i) == row[i] # None /\ ~row[i].revoked
Usable(c) == code[c] = "active" /\ c \notin lapsed

-----------------------------------------------------------------------------
(* Join codes and the clock.                                               *)

CreateToken(c) ==
  /\ code[c] = "absent"
  /\ code' = [code EXCEPT ![c] = "active"]
  /\ UNCHANGED <<lapsed, used, enroll, row, renew, renewing, host, agentProcess>>

\* UPDATE ... WHERE id AND consumed IS NULL AND revoked IS NULL, expired or not.
RevokeToken(c) ==
  /\ code[c] = "active"
  /\ code' = [code EXCEPT ![c] = "revoked"]
  /\ UNCHANGED <<lapsed, used, enroll, row, renew, renewing, host, agentProcess>>

\* The codes and certificates there are.
Dated ==
  {c \in Codes : code[c] # "absent"} \cup {i \in Joins : row[i] # None}
    \cup {r \in Renewals : renew[r] = "done"}

\* The clock passes the expiry of a code or the NotAfter of a certificate.
LapseIdentity(x) ==
  /\ x \in Dated \ lapsed
  /\ lapsed' = lapsed \cup {x}
  /\ UNCHANGED <<code, used, enroll, row, renew, renewing, host, agentProcess>>

-----------------------------------------------------------------------------
(* The Enroll handler.                                                     *)

\* Variant: the code is looked up and marked in two statements.
ConsumeUnguarded(i) ==
  /\ enroll[i] = "received" /\ used[i] \notin lapsed /\ code[used[i]] # "absent"
  /\ code' = [code EXCEPT ![used[i]] = "consumed"]
  /\ enroll' = [enroll EXCEPT ![i] = "consumed"]
  /\ UNCHANGED <<lapsed, used, row, renew, renewing, host, agentProcess>>

\* ConsumeToken: one UPDATE that a code passes once.
ConsumeToken(i) ==
  /\ enroll[i] = "received" /\ Usable(used[i])
  /\ code' = [code EXCEPT ![used[i]] = "consumed"]
  /\ enroll' = [enroll EXCEPT ![i] = "consumed"]
  /\ UNCHANGED <<lapsed, used, row, renew, renewing, host, agentProcess>>

\* RegisterWithMetadata with the random identity and serial SignAgentCSR just chose.
Register(i) ==
  /\ enroll[i] = "consumed"
  /\ row' = [row EXCEPT ![i] = [serial |-> i, revoked |-> FALSE]]
  /\ enroll' = [enroll EXCEPT ![i] = "registered"]
  /\ UNCHANGED <<code, lapsed, used, renew, renewing, host, agentProcess>>

\* The CSR or the code is refused; or, after the code has been consumed, signing or the
\* insert fails or the validator dies.  Nothing gives the code back.
EnrollFails(i) ==
  /\ enroll[i] \in {"received", "consumed", "registered"}
  /\ enroll' = [enroll EXCEPT ![i] = "failed"]
  /\ join' = [join EXCEPT ![i] = IF @ = "waiting" THEN "failed" ELSE @]
  /\ UNCHANGED <<code, lapsed, used, row, renew, renewing, files, todo, unclean, agentProcess>>

\* Variant: the answer is sent before the row is inserted.
AnswerEarly(i) ==
  /\ enroll[i] = "consumed" /\ join[i] = "waiting"
  /\ join' = [join EXCEPT ![i] = "saving"]
  /\ todo' = [todo EXCEPT ![i] = File]
  /\ UNCHANGED <<caTables, files, unclean, agentProcess>>

\* The answer reaches the join, which checks that the certificate names the identity.
Answer(i) ==
  /\ enroll[i] = "registered" /\ join[i] = "waiting"
  /\ enroll' = [enroll EXCEPT ![i] = "answered"]
  /\ join' = [join EXCEPT ![i] = "saving"]
  /\ todo' = [todo EXCEPT ![i] = File]
  /\ UNCHANGED <<code, lapsed, used, row, renew, renewing, files, unclean, agentProcess>>

-----------------------------------------------------------------------------
(* The Renew handler and revocation.                                       *)

\* AuthorizeRenewal: whoever presents a certificate of the identity, superseded or not,
\* that TLS still accepts; the row is read, and written by a later statement.
AuthorizeRenewal(r, i) ==
  /\ renew[r] = "idle"
  /\ \E s \in {i} \cup {q \in Renewals : renewing[q] = i /\ renew[q] = "done"} : s \notin lapsed
  /\ Active(i) /\ row[i].serial \notin lapsed
  /\ renew' = [renew EXCEPT ![r] = "authorized"]
  /\ renewing' = [renewing EXCEPT ![r] = i]
  /\ UNCHANGED <<code, lapsed, used, enroll, row, host, agentProcess>>

\* Variant: UPDATE agents ... WHERE id, trusting the check that authorized the renewal.
UpdateUnchecked(r) ==
  /\ renew[r] = "authorized"
  /\ row' = [row EXCEPT ![renewing[r]].serial = r]
  /\ renew' = [renew EXCEPT ![r] = "done"]
  /\ UNCHANGED <<code, lapsed, used, enroll, renewing, host, agentProcess>>

\* UpdateCertificate: UPDATE ... WHERE id AND revoked IS NULL.
UpdateCertificate(r) ==
  /\ renew[r] = "authorized" /\ Active(renewing[r])
  /\ row' = [row EXCEPT ![renewing[r]].serial = r]
  /\ renew' = [renew EXCEPT ![r] = "done"]
  /\ UNCHANGED <<code, lapsed, used, enroll, renewing, host, agentProcess>>

\* Denied by the UPDATE, or the CSR is bad, or the call fails on its way.
RenewFails(r) ==
  /\ renew[r] = "authorized"
  /\ renew' = [renew EXCEPT ![r] = "denied"]
  /\ UNCHANGED <<code, lapsed, used, enroll, row, renewing, host, agentProcess>>

\* min, doubled after every connection, never more than max; RunConnection returns no
\* nil error, so that nothing resets it.
Longer(d) == IF 2 * d > MaxDelay THEN MaxDelay ELSE 2 * d
StreamOver == connection' = "none" /\ overtaken' = FALSE
StreamEnds == StreamOver /\ delay' = Longer(delay)

\* RevokeAgent marks the row ...
RevokeAgent(i) ==
  /\ Active(i)
  /\ row' = [row EXCEPT ![i].revoked = TRUE]
  /\ revoking' = revoking \cup {i}
  /\ UNCHANGED <<code, lapsed, used, enroll, renew, renewing, host, agent, delay, connection,
                 overtaken>>

\* ... and ends the stream of the identity that is in the registry by then, if there is one.
Disconnect(i) ==
  /\ i \in revoking
  /\ revoking' = revoking \ {i}
  /\ IF connection = "open" /\ agent.crt = i THEN StreamEnds
     ELSE /\ overtaken' = (overtaken \/ (connection = "authorized" /\ agent.crt = i))
          /\ UNCHANGED <<connection, delay>>
  /\ UNCHANGED <<caTables, host, agent>>

\* The validator dies: a RevokeAgent under way gets no further, and every stream breaks.
ValidatorDies ==
  /\ revoking' = {}
  /\ IF connection = "none" THEN UNCHANGED <<connection, overtaken, delay>> ELSE StreamEnds
  /\ UNCHANGED <<caTables, host, agent>>

-----------------------------------------------------------------------------
(* `agent join`.                                                           *)

Busy == {i \in Joins : join[i] \in {"waiting", "saving"}}

\* The pinned certificate is presented, a key is generated and the Enroll call sent.
JoinStart(i, c) ==
  /\ join[i] = "new" /\ files["key"] = None
  /\ join' = [join EXCEPT ![i] = "waiting"]
  /\ enroll' = [enroll EXCEPT ![i] = "received"]
  /\ used' = [used EXCEPT ![i] = c]
  /\ unclean' = IF Busy = {} THEN unclean ELSE unclean \cup Busy \cup {i}
  /\ UNCHANGED <<code, lapsed, row, renew, renewing, files, todo, agentProcess>>

\* agent.key exists, the pin does not match, or nobody answers.
JoinRefused(i) ==
  /\ join[i] = "new"
  /\ join' = [join EXCEPT ![i] = "failed"]
  /\ UNCHANGED <<caTables, files, todo, unclean, agentProcess>>

\* The join stops waiting; its call goes on in the validator.
JoinGivesUp(i) ==
  /\ join[i] = "waiting"
  /\ join' = [join EXCEPT ![i] = "failed"]
  /\ UNCHANGED <<caTables, files, todo, unclean, agentProcess>>

\* Variant: a file that exists is kept.
SaveKeeping(i, f) ==
  /\ join[i] = "saving" /\ f \in todo[i]
  /\ files' = [files EXCEPT ![f] = IF @ = None THEN i ELSE @]
  /\ todo' = [todo EXCEPT ![i] = @ \ {f}]
  /\ join' = [join EXCEPT ![i] = IF todo[i] = {f} THEN "joined" ELSE @]
  /\ UNCHANGED <<caTables, unclean, agentProcess>>

\* SaveAgentCredentials renames one file after the other into place, in the order in which
\* Go ranges over a map: any.
SaveFile(i, f) ==
  /\ join[i] = "saving" /\ f \in todo[i]
  /\ files' = [files EXCEPT ![f] = i]
  /\ todo' = [todo EXCEPT ![i] = @ \ {f}]
  /\ join' = [join EXCEPT ![i] = IF todo[i] = {f} THEN "joined" ELSE @]
  /\ UNCHANGED <<caTables, unclean, agentProcess>>

\* A file cannot be written, or the join dies.
SaveStops(i) ==
  /\ join[i] = "saving"
  /\ join' = [join EXCEPT ![i] = "failed"]
  /\ todo' = [todo EXCEPT ![i] = {}]
  /\ unclean' = unclean \cup {i}
  /\ UNCHANGED <<caTables, files, agentProcess>>

-----------------------------------------------------------------------------
(* The agent.                                                              *)

\* LoadAgentCredentials needs all files, X509KeyPair that key and certificate match; the
\* agent keeps what it loaded until it exits.
AgentStart ==
  /\ agent = None /\ \A f \in File : files[f] # None
  /\ files["key"] = files["crt"]
  /\ agent' = [key |-> files["key"], crt |-> files["crt"], id |-> files["id"]]
  /\ delay' = MinDelay
  /\ UNCHANGED <<caTables, host, connections>>

AgentStops ==
  /\ agent # None
  /\ agent' = None /\ StreamOver
  /\ UNCHANGED <<caTables, host, delay, revoking>>

\* TLS and AuthorizeConnection accept the certificate of a stream ...
AuthorizeConnection ==
  /\ agent # None /\ connection = "none" /\ agent.crt \notin lapsed
  /\ Active(agent.crt) /\ row[agent.crt].serial = agent.crt
  /\ connection' = "authorized"
  /\ UNCHANGED <<caTables, host, agent, delay, revoking, overtaken>>

\* Variant: the stream is filed under its certificate, whatever its hello says.
AcquireAnyHello ==
  /\ connection = "authorized"
  /\ connection' = "open"
  /\ UNCHANGED <<caTables, host, agent, delay, revoking, overtaken>>

\* ... and when its hello has come Acquire compares the two; the row is not read again.
Acquire ==
  /\ connection = "authorized" /\ agent.id = agent.crt
  /\ connection' = "open"
  /\ UNCHANGED <<caTables, host, agent, delay, revoking, overtaken>>

\* They refuse it, nobody answers, or an open stream breaks.
ConnectionEnds ==
  /\ agent # None
  /\ StreamEnds
  /\ UNCHANGED <<caTables, host, agent, revoking>>

-----------------------------------------------------------------------------
IdentityNext ==
  \/ \E c \in Codes : CreateToken(c) \/ RevokeToken(c)
  \/ \E x \in Codes \cup Serials : LapseIdentity(x)
  \/ \E i \in Joins :
       \/ ConsumeToken(i) \/ Register(i) \/ EnrollFails(i) \/ Answer(i)
       \/ RevokeAgent(i) \/ Disconnect(i)
       \/ JoinRefused(i) \/ JoinGivesUp(i) \/ SaveStops(i)
       \/ \E c \in Codes : JoinStart(i, c)
       \/ \E f \in File : SaveFile(i, f)
       \/ \E r \in Renewals : AuthorizeRenewal(r, i)
  \/ \E r \in Renewals : UpdateCertificate(r) \/ RenewFails(r)
  \/ AgentStart \/ AgentStops \/ AuthorizeConnection \/ Acquire \/ ConnectionEnds \/ ValidatorDies

IdentitySpec == IdentityInit /\ [][IdentityNext]_identityVars
-----------------------------------------------------------------------------
(* Properties.                                                             *)

\* Every variable has its type, and the delay stays within its bounds.
IdentityTypeOK ==
  /\ code \in [Codes -> {"absent", "active", "consumed", "revoked"}]
  /\ lapsed \in SUBSET (Codes \cup Serials)
  /\ used \in [Joins -> Codes \cup {None}]
  /\ enroll \in [Joins -> {"idle", "received", "consumed", "registered", "answered", "failed"}]
  /\ row \in [Joins -> Row \cup {None}]
  /\ renew \in [Renewals -> {"idle", "authorized", "done", "denied"}]
  /\ renewing \in [Renewals -> Joins \cup {None}]
  /\ join \in [Joins -> {"new", "waiting", "saving", "joined", "failed"}]
  /\ files \in [File -> Joins \cup {None}]
  /\ todo \in [Joins -> SUBSET File]
  /\ unclean \in SUBSET Joins
  /\ agent \in Loaded \cup {None}
  /\ delay \in MinDelay..MaxDelay
  /\ connection \in {"none", "authorized", "open"}
  /\ revoking \in SUBSET Joins
  /\ overtaken \in BOOLEAN

Enrolled(i) == enroll[i] \in {"consumed", "registered", "answered"} \/ row[i] # None

\* A code becomes at most one identity, whoever sends it how often, and a code whose
\* revocation was confirmed none.
CodesEnrollOnce ==
  \A i \in Joins : Enrolled(i) =>
    /\ code[used[i]] = "consumed"
    /\ \A k \in Joins : Enrolled(k) /\ used[k] = used[i] => k = i

\* A renewal that was authorized before the identity was revoked does not give it a new
\* certificate, nor does anything else bring it back.
RevokedIsFinal == [][\A i \in Joins : row[i] # None /\ ~Active(i) => row'[i] = row[i]]_identityVars

\* Whatever is in the credential directory, however broken, the validator has a row for:
\* an operator can see and revoke it.
StoredIsRegistered == \A f \in File : files[f] # None => row[files[f]] # None

\* A stream is open only under one identity in the certificate, the key and the hello, whatever
\* mixture of files the agent has loaded; and under a revoked one only as long as RevokeAgent has
\* yet to come to Disconnect, or where Disconnect came by between the stream's authorization and
\* Acquire.
OnlineIsOneIdentity ==
  connection = "open" =>
    /\ agent.key = agent.crt /\ agent.id = agent.crt
    /\ Active(agent.crt) \/ agent.crt \in revoking \/ overtaken

Accepted == (\A f \in File : files[f] # None) /\ files["key"] = files["crt"]

\* A directory at rest that the agent accepts but that names two identities takes two joins
\* that were interrupted while they saved, or that ran side by side: one is not enough.
\* (While a join saves, one is: the agent may load the directory between two renames.)
MixedTakesTwo ==
  Busy = {} /\ Accepted /\ files["id"] # files["crt"] => Cardinality(unclean) > 1
=============================================================================
