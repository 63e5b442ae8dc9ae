--------------------------- MODULE IdentityProofs ---------------------------
(***************************************************************************)
(* Proofs about Identity for any number of join codes, joins and renewals  *)
(* and any bounds of the reconnection delay.                               *)
(***************************************************************************)
EXTENDS Identity, FiniteSetTheorems, TLAPS

\* An Enroll call and its row go together: there is no row before Register, and one after it;
\* a join that has not started has sent nothing, and one that saves has been answered.
Enrolling ==
  \A i \in Joins :
    /\ enroll[i] \in {"idle", "received", "consumed"} => row[i] = None
    /\ enroll[i] \in {"registered", "answered"} => row[i] # None
    /\ enroll[i] # "idle" => used[i] \in Codes
    /\ join[i] = "new" => enroll[i] = "idle"
    /\ join[i] = "saving" => row[i] # None

\* A renewal that was authorized is one of an identity that has a row.
Renewing ==
  \A r \in Renewals : renew[r] = "authorized" => renewing[r] \in Joins /\ row[renewing[r]] # None

\* The agent has loaded a key and a certificate that match, and only an agent has a stream, whose
\* revocation is still to come to Disconnect or has passed it already.
Loading ==
  /\ agent # None => agent.key = agent.crt
  /\ connection # "none" =>
       /\ agent # None
       /\ Active(agent.crt) \/ agent.crt \in revoking \/ overtaken

Places == Enrolling /\ Renewing /\ Loading
IInv == IdentityTypeOK /\ Places /\ CodesEnrollOnce /\ StoredIsRegistered /\ OnlineIsOneIdentity

USE IdentityAssumption, NoneIsNoRecord
USE DEF caTables, host, agentProcess, connections

-----------------------------------------------------------------------------
(* Type correctness.                                                       *)

\* The delay never leaves its bounds.
LEMMA LongerInBounds ==
  ASSUME NEW d \in MinDelay..MaxDelay PROVE Longer(d) \in MinDelay..MaxDelay
  BY DEF Longer

\* The validator's steps.
LEMMA TypeValidator ==
  ASSUME IdentityTypeOK,
         \/ \E c \in Codes : CreateToken(c) \/ RevokeToken(c)
         \/ \E x \in Codes \cup Serials : LapseIdentity(x)
         \/ \E i \in Joins : ConsumeToken(i) \/ Register(i) \/ EnrollFails(i) \/ Answer(i)
         \/ \E r \in Renewals : RenewFails(r) \/ \E i \in Joins : AuthorizeRenewal(r, i)
  PROVE  IdentityTypeOK'
<1>1. ASSUME NEW c \in Codes, CreateToken(c) \/ RevokeToken(c) PROVE IdentityTypeOK'
  BY <1>1 DEF IdentityTypeOK, CreateToken, RevokeToken
<1>2. ASSUME NEW x \in Codes \cup Serials, LapseIdentity(x) PROVE IdentityTypeOK'
  BY <1>2 DEF IdentityTypeOK, LapseIdentity, Dated
<1>3. ASSUME NEW i \in Joins, ConsumeToken(i) \/ Register(i) PROVE IdentityTypeOK'
  <2>1. [serial |-> i, revoked |-> FALSE] \in Row
    BY DEF Row, Serials
  <2>2. CASE ConsumeToken(i)
    BY <2>2 DEF IdentityTypeOK, ConsumeToken
  <2>3. CASE Register(i)
    <3>1. row' \in [Joins -> Row \cup {None}]
      BY <2>1, <2>3 DEF IdentityTypeOK, Register
    <3>2. QED
      BY <2>3, <3>1 DEF IdentityTypeOK, Register
  <2>4. QED
    BY <1>3, <2>2, <2>3
<1>4. ASSUME NEW i \in Joins, EnrollFails(i) \/ Answer(i) PROVE IdentityTypeOK'
  BY <1>4 DEF IdentityTypeOK, EnrollFails, Answer
<1>5. ASSUME NEW r \in Renewals, RenewFails(r) \/ \E i \in Joins : AuthorizeRenewal(r, i)
      PROVE IdentityTypeOK'
  BY <1>5 DEF IdentityTypeOK, RenewFails, AuthorizeRenewal
<1>6. QED
  BY <1>1, <1>2, <1>3, <1>4, <1>5

\* The steps that change a row that is there.
LEMMA TypeRow ==
  ASSUME IdentityTypeOK, Renewing,
         \/ \E r \in Renewals : UpdateCertificate(r)
         \/ \E i \in Joins : RevokeAgent(i)
  PROVE  IdentityTypeOK'
<1>1. ASSUME NEW r \in Renewals, UpdateCertificate(r) PROVE IdentityTypeOK'
  <2>1. PICK i \in Joins : i = renewing[r] /\ row[i] \in Row
    BY <1>1 DEF IdentityTypeOK, Renewing, UpdateCertificate
  <2>2. [row[i] EXCEPT !.serial = r] \in Row
    BY <2>1 DEF Row, Serials
  <2>3. row' = [row EXCEPT ![i] = [row[i] EXCEPT !.serial = r]]
    BY <1>1, <2>1 DEF UpdateCertificate
  <2>4. row' \in [Joins -> Row \cup {None}]
    BY <2>2, <2>3 DEF IdentityTypeOK
  <2>5. QED
    BY <1>1, <2>4 DEF IdentityTypeOK, UpdateCertificate
<1>2. ASSUME NEW i \in Joins, RevokeAgent(i) PROVE IdentityTypeOK'
  <2>0. row[i] \in Row
    BY <1>2 DEF IdentityTypeOK, RevokeAgent, Active
  <2>1. [row[i] EXCEPT !.revoked = TRUE] \in Row
    BY <2>0 DEF Row
  <2>2. row' = [row EXCEPT ![i] = [row[i] EXCEPT !.revoked = TRUE]]
    BY <1>2, <2>0 DEF RevokeAgent
  <2>3. row' \in [Joins -> Row \cup {None}]
    BY <2>1, <2>2 DEF IdentityTypeOK
  <2>4. QED
    BY <1>2, <2>3 DEF IdentityTypeOK, RevokeAgent
<1>3. QED
  BY <1>1, <1>2

\* The steps of a join.
LEMMA TypeJoin ==
  ASSUME IdentityTypeOK, NEW i \in Joins,
         \/ JoinRefused(i) \/ JoinGivesUp(i) \/ SaveStops(i)
         \/ \E c \in Codes : JoinStart(i, c)
         \/ \E f \in File : SaveFile(i, f)
  PROVE  IdentityTypeOK'
<1>1. ASSUME JoinRefused(i) \/ JoinGivesUp(i) \/ SaveStops(i) PROVE IdentityTypeOK'
  BY <1>1 DEF IdentityTypeOK, JoinRefused, JoinGivesUp, SaveStops
<1>2. ASSUME NEW c \in Codes, JoinStart(i, c) PROVE IdentityTypeOK'
  <2>1. Busy \in SUBSET Joins
    BY DEF Busy
  <2>2. QED
    BY <1>2, <2>1 DEF IdentityTypeOK, JoinStart
<1>3. ASSUME NEW f \in File, SaveFile(i, f) PROVE IdentityTypeOK'
  BY <1>3 DEF IdentityTypeOK, SaveFile
<1>4. QED
  BY <1>1, <1>2, <1>3

\* The steps of the agent and its stream.
LEMMA TypeAgent ==
  ASSUME IdentityTypeOK,
         \/ AgentStart \/ AgentStops \/ AuthorizeConnection \/ Acquire \/ ConnectionEnds
         \/ ValidatorDies \/ \E i \in Joins : Disconnect(i)
  PROVE  IdentityTypeOK'
<1>1. CASE AgentStart
  <2>1. agent' \in Loaded
    BY <1>1 DEF IdentityTypeOK, AgentStart, Loaded, File
  <2>2. MinDelay \in MinDelay..MaxDelay
    OBVIOUS
  <2>3. QED
    BY <1>1, <2>1, <2>2 DEF IdentityTypeOK, AgentStart
<1>2. CASE AgentStops \/ AuthorizeConnection \/ Acquire
  BY <1>2 DEF IdentityTypeOK, AgentStops, AuthorizeConnection, Acquire, StreamOver
<1>3. CASE ConnectionEnds \/ ValidatorDies \/ \E i \in Joins : Disconnect(i)
  <2>1. \/ connection' = "none" /\ overtaken' = FALSE /\ delay' = Longer(delay)
        \/ /\ connection' = connection /\ delay' = delay
           /\ overtaken' \in BOOLEAN
    BY <1>3 DEF IdentityTypeOK, ConnectionEnds, ValidatorDies, Disconnect, StreamEnds, StreamOver
  <2>2. revoking' \in SUBSET Joins /\ UNCHANGED <<caTables, host, agent>>
    BY <1>3 DEF IdentityTypeOK, ConnectionEnds, ValidatorDies, Disconnect
  <2>3. connection' \in {"none", "authorized", "open"} /\ overtaken' \in BOOLEAN
    BY <2>1 DEF IdentityTypeOK
  <2>4. delay' \in MinDelay..MaxDelay
    BY <2>1, LongerInBounds DEF IdentityTypeOK
  <2>5. QED
    BY <2>2, <2>3, <2>4 DEF IdentityTypeOK
<1>4. QED
  BY <1>1, <1>2, <1>3

-----------------------------------------------------------------------------
(* The steps keep the places, and with them what the tables say.           *)

\* Creating or revoking a code and the passing of time touch no identity; a code that is
\* consumed stays so.
LEMMA KeepCodes ==
  ASSUME IInv,
         \/ \E c \in Codes : CreateToken(c) \/ RevokeToken(c)
         \/ \E x \in Codes \cup Serials : LapseIdentity(x)
  PROVE  Places' /\ CodesEnrollOnce' /\ StoredIsRegistered' /\ OnlineIsOneIdentity'
<1>1. /\ UNCHANGED <<used, enroll, row, renew, renewing, host, agentProcess>>
      /\ \A c \in Codes : code[c] = "consumed" => code'[c] = "consumed"
  BY DEF IInv, IdentityTypeOK, CreateToken, RevokeToken, LapseIdentity
<1>2. Places' /\ StoredIsRegistered' /\ OnlineIsOneIdentity'
  BY <1>1 DEF IInv, Places, Enrolling, Renewing, Loading, StoredIsRegistered,
              OnlineIsOneIdentity, Active
<1>3. ASSUME NEW i \in Joins, Enrolled(i) PROVE used[i] \in Codes
  BY <1>3 DEF IInv, Places, Enrolling, Enrolled, IdentityTypeOK
<1>4. CodesEnrollOnce'
  BY <1>1, <1>3 DEF IInv, CodesEnrollOnce, Enrolled
<1>5. QED
  BY <1>2, <1>4

\* The UPDATE of ConsumeToken passes a code that nobody was enrolled with.
LEMMA KeepConsume ==
  ASSUME IInv, NEW i \in Joins, ConsumeToken(i)
  PROVE  Places' /\ CodesEnrollOnce' /\ StoredIsRegistered' /\ OnlineIsOneIdentity'
<1>1. /\ used[i] \in Codes /\ code[used[i]] = "active"
      /\ \A k \in Joins : Enrolled(k) => used[k] # used[i]
  BY DEF IInv, Places, Enrolling, CodesEnrollOnce, ConsumeToken, Usable
<1>2. /\ UNCHANGED <<used, row, renew, renewing, host, agentProcess>>
      /\ code' = [code EXCEPT ![used[i]] = "consumed"]
      /\ enroll' = [enroll EXCEPT ![i] = "consumed"]
      /\ enroll[i] = "received"
  BY DEF ConsumeToken
<1>3. Enrolling'
  BY <1>2 DEF IInv, Places, Enrolling, IdentityTypeOK
<1>4. Renewing' /\ Loading' /\ StoredIsRegistered' /\ OnlineIsOneIdentity'
  BY <1>2 DEF IInv, Places, Renewing, Loading, StoredIsRegistered, OnlineIsOneIdentity, Active
<1>5. \A k \in Joins : Enrolled(k)' => k = i \/ Enrolled(k)
  BY <1>2 DEF IInv, IdentityTypeOK, Enrolled
<1>6. code'[used[i]] = "consumed" /\ \A c \in Codes : code[c] = "consumed" => code'[c] = "consumed"
  BY <1>1, <1>2 DEF IInv, IdentityTypeOK
<1>7. \A k \in Joins : Enrolled(k) => used[k] \in Codes
  BY DEF IInv, Places, Enrolling, Enrolled, IdentityTypeOK
<1>8. CodesEnrollOnce'
  BY <1>1, <1>2, <1>5, <1>6, <1>7 DEF IInv, CodesEnrollOnce
<1>9. QED
  BY <1>3, <1>4, <1>8 DEF Places

\* An identity is registered for the Enroll call that has consumed its code.
LEMMA KeepRegister ==
  ASSUME IInv, NEW i \in Joins, Register(i)
  PROVE  Places' /\ CodesEnrollOnce' /\ StoredIsRegistered' /\ OnlineIsOneIdentity'
<1> DEFINE r == [serial |-> i, revoked |-> FALSE]
<1>0. r \in Row
  BY DEF Row, Serials
<1> HIDE DEF r
<1>1. r \in Row /\ r # None
  BY <1>0
<1>2. /\ UNCHANGED <<code, used, renew, renewing, host, agentProcess>>
      /\ row' = [row EXCEPT ![i] = r] /\ row[i] = None
      /\ enroll' = [enroll EXCEPT ![i] = "registered"] /\ enroll[i] = "consumed"
  BY DEF Register, r, IInv, Places, Enrolling
<1>3. \A k \in Joins : row'[k] = IF k = i THEN r ELSE row[k]
  BY <1>2 DEF IInv, IdentityTypeOK
<1>4. Enrolling'
  BY <1>1, <1>2, <1>3 DEF IInv, Places, Enrolling, IdentityTypeOK
<1>5. Renewing' /\ StoredIsRegistered'
  BY <1>1, <1>2, <1>3 DEF IInv, IdentityTypeOK, Places, Renewing, StoredIsRegistered
<1>6. Active(i)'
  BY <1>1, <1>3 DEF Active, r
<1>7. Loading' /\ OnlineIsOneIdentity'
  <2>1. \A k \in Joins : Active(k) => Active(k)'
    BY <1>3, <1>6 DEF Active
  <2>2. connection # "none" => agent.crt \in Joins
    BY DEF IInv, Places, Loading, IdentityTypeOK, Loaded
  <2>3. QED
    BY <1>2, <2>1, <2>2 DEF IInv, Places, Loading, OnlineIsOneIdentity
<1>8. \A k \in Joins : Enrolled(k)' <=> Enrolled(k)
  BY <1>1, <1>2, <1>3 DEF IInv, IdentityTypeOK, Enrolled
<1>9. CodesEnrollOnce'
  BY <1>2, <1>8 DEF IInv, CodesEnrollOnce
<1>10. QED
  BY <1>4, <1>5, <1>7, <1>9 DEF Places

\* An Enroll call ends: its code stays consumed, its row, if there is one, stays.
LEMMA KeepCall ==
  ASSUME IInv, NEW i \in Joins, EnrollFails(i) \/ Answer(i)
  PROVE  Places' /\ CodesEnrollOnce' /\ StoredIsRegistered' /\ OnlineIsOneIdentity'
<1>1. UNCHANGED <<code, used, row, renew, renewing, files, agentProcess>>
  BY DEF EnrollFails, Answer
<1>2. Enrolling'
  <2>1. CASE EnrollFails(i)
    BY <1>1, <2>1 DEF IInv, Places, Enrolling, IdentityTypeOK, EnrollFails
  <2>2. CASE Answer(i)
    BY <1>1, <2>2 DEF IInv, Places, Enrolling, IdentityTypeOK, Answer
  <2>3. QED
    BY <2>1, <2>2
<1>3. Renewing' /\ Loading' /\ StoredIsRegistered' /\ OnlineIsOneIdentity'
  BY <1>1 DEF IInv, Places, Renewing, Loading, StoredIsRegistered, OnlineIsOneIdentity, Active
<1>4. \A k \in Joins : Enrolled(k)' => Enrolled(k)
  BY <1>1 DEF IInv, IdentityTypeOK, Enrolled, EnrollFails, Answer
<1>5. CodesEnrollOnce'
  BY <1>1, <1>4 DEF IInv, CodesEnrollOnce
<1>6. QED
  BY <1>2, <1>3, <1>5 DEF Places

\* A renewal changes the serial of a row, and nothing else of it.
LEMMA KeepRenewal ==
  ASSUME IInv, NEW r \in Renewals,
         UpdateCertificate(r) \/ RenewFails(r) \/ \E i \in Joins : AuthorizeRenewal(r, i)
  PROVE  Places' /\ CodesEnrollOnce' /\ StoredIsRegistered' /\ OnlineIsOneIdentity'
<1>1. UNCHANGED <<code, used, enroll, host, agentProcess>>
  BY DEF UpdateCertificate, RenewFails, AuthorizeRenewal
<1>2. \A k \in Joins : /\ row'[k] = None <=> row[k] = None
                       /\ Active(k) => row'[k].revoked = FALSE
  <2>1. CASE UNCHANGED row
    BY <2>1 DEF IInv, IdentityTypeOK, Active, Row
  <2>2. CASE UpdateCertificate(r)
    <3>1. /\ renewing[r] \in Joins /\ row[renewing[r]] \in Row
          /\ row' = [row EXCEPT ![renewing[r]] = [row[renewing[r]] EXCEPT !.serial = r]]
      BY <2>2 DEF IInv, Places, Renewing, IdentityTypeOK, UpdateCertificate, Active
    <3> DEFINE n == [row[renewing[r]] EXCEPT !.serial = r]
    <3>2. n \in Row /\ n.revoked = row[renewing[r]].revoked
      BY <3>1 DEF Row, Serials
    <3>3. n # None
      BY <3>2
    <3> HIDE DEF n
    <3>4. \A k \in Joins : row'[k] = IF k = renewing[r] THEN n ELSE row[k]
      BY <3>1 DEF n, IInv, IdentityTypeOK
    <3>5. \A k \in Joins : Active(k) => row[k].revoked = FALSE
      BY DEF IInv, IdentityTypeOK, Active, Row
    <3>6. QED
      BY <3>1, <3>2, <3>3, <3>4, <3>5
  <2>3. QED
    BY <2>1, <2>2 DEF RenewFails, AuthorizeRenewal
<1>3. Enrolling' /\ StoredIsRegistered'
  BY <1>1, <1>2 DEF IInv, Places, Enrolling, StoredIsRegistered, IdentityTypeOK
<1>4. Renewing'
  <2>1. \A q \in Renewals : renew'[q] = "authorized" =>
           \/ renew[q] = "authorized" /\ renewing'[q] = renewing[q]
           \/ renewing'[q] \in Joins /\ row[renewing'[q]] # None
    BY DEF IInv, IdentityTypeOK, UpdateCertificate, RenewFails, AuthorizeRenewal, Active
  <2>2. QED
    BY <1>2, <2>1 DEF IInv, Places, Renewing
<1>5. Loading' /\ OnlineIsOneIdentity'
  <2>1. connection # "none" => agent.crt \in Joins
    BY DEF IInv, Places, Loading, IdentityTypeOK, Loaded
  <2>2. \A k \in Joins : Active(k) => Active(k)'
    BY <1>2 DEF Active
  <2>3. QED
    BY <1>1, <2>1, <2>2 DEF IInv, Places, Loading, OnlineIsOneIdentity
<1>6. CodesEnrollOnce'
  BY <1>1, <1>2 DEF IInv, CodesEnrollOnce, Enrolled
<1>7. QED
  BY <1>3, <1>4, <1>5, <1>6 DEF Places

\* A revocation marks the row, and has the stream of the agent to end.
LEMMA KeepRevoke ==
  ASSUME IInv, NEW i \in Joins, RevokeAgent(i)
  PROVE  Places' /\ CodesEnrollOnce' /\ StoredIsRegistered' /\ OnlineIsOneIdentity'
<1> DEFINE n == [row[i] EXCEPT !.revoked = TRUE]
<1>1. row[i] \in Row
  BY DEF IInv, IdentityTypeOK, RevokeAgent, Active
<1>2. n \in Row
  BY <1>1 DEF Row
<1>3. n # None
  BY <1>2
<1>4. row' = [row EXCEPT ![i] = n]
  BY DEF RevokeAgent
<1> HIDE DEF n
<1>5. \A k \in Joins : row'[k] = IF k = i THEN n ELSE row[k]
  BY <1>4 DEF IInv, IdentityTypeOK
<1>6. /\ UNCHANGED <<code, used, enroll, renew, renewing, host, agent, connection, overtaken>>
      /\ revoking' = revoking \cup {i}
  BY DEF RevokeAgent
<1>7. \A k \in Joins : row'[k] = None <=> row[k] = None
  BY <1>1, <1>3, <1>5
<1>8. Enrolling' /\ Renewing' /\ StoredIsRegistered'
  BY <1>6, <1>7 DEF IInv, Places, Enrolling, Renewing, StoredIsRegistered, IdentityTypeOK
<1>9. Loading' /\ OnlineIsOneIdentity'
  <2>1. connection # "none" => agent.crt \in Joins
    BY DEF IInv, Places, Loading, IdentityTypeOK, Loaded
  <2>2. \A k \in Joins : Active(k) => Active(k)' \/ k \in revoking'
    BY <1>5, <1>6 DEF Active
  <2>3. QED
    BY <1>6, <2>1, <2>2 DEF IInv, Places, Loading, OnlineIsOneIdentity
<1>10. CodesEnrollOnce'
  BY <1>6, <1>7 DEF IInv, CodesEnrollOnce, Enrolled
<1>11. QED
  BY <1>8, <1>9, <1>10 DEF Places

\* A join starts one call and writes the files of an identity that has its row.
LEMMA KeepJoin ==
  ASSUME IInv, NEW i \in Joins,
         \/ JoinRefused(i) \/ JoinGivesUp(i) \/ SaveStops(i)
         \/ \E c \in Codes : JoinStart(i, c)
         \/ \E f \in File : SaveFile(i, f)
  PROVE  Places' /\ CodesEnrollOnce' /\ StoredIsRegistered' /\ OnlineIsOneIdentity'
<1>1. UNCHANGED <<code, row, renew, renewing, agentProcess>>
  BY DEF JoinRefused, JoinGivesUp, SaveStops, JoinStart, SaveFile
<1>2. Renewing' /\ Loading' /\ OnlineIsOneIdentity'
  BY <1>1 DEF IInv, Places, Renewing, Loading, OnlineIsOneIdentity, Active
<1>3. Enrolling'
  <2>1. CASE JoinRefused(i) \/ JoinGivesUp(i) \/ SaveStops(i)
    BY <1>1, <2>1 DEF IInv, Places, Enrolling, IdentityTypeOK, JoinRefused, JoinGivesUp, SaveStops
  <2>2. ASSUME NEW c \in Codes, JoinStart(i, c) PROVE Enrolling'
    BY <1>1, <2>2 DEF IInv, Places, Enrolling, IdentityTypeOK, JoinStart
  <2>3. ASSUME NEW f \in File, SaveFile(i, f) PROVE Enrolling'
    BY <1>1, <2>3 DEF IInv, Places, Enrolling, IdentityTypeOK, SaveFile
  <2>4. QED
    BY <2>1, <2>2, <2>3
<1>4. StoredIsRegistered'
  <2>1. ASSUME NEW f \in File, SaveFile(i, f) PROVE StoredIsRegistered'
    BY <1>1, <2>1 DEF IInv, Places, Enrolling, StoredIsRegistered, IdentityTypeOK, SaveFile
  <2>2. ASSUME UNCHANGED files PROVE StoredIsRegistered'
    BY <1>1, <2>2 DEF IInv, StoredIsRegistered
  <2>3. QED
    BY <2>1, <2>2 DEF JoinRefused, JoinGivesUp, SaveStops, JoinStart
<1>5. CodesEnrollOnce'
  <2>1. \A k \in Joins : Enrolled(k)' => Enrolled(k) /\ used'[k] = used[k]
    BY <1>1 DEF IInv, Places, Enrolling, IdentityTypeOK, Enrolled, JoinRefused, JoinGivesUp,
                SaveStops, JoinStart, SaveFile
  <2>2. QED
    BY <1>1, <2>1 DEF IInv, CodesEnrollOnce
<1>6. QED
  BY <1>2, <1>3, <1>4, <1>5 DEF Places

\* The agent loads a pair that matches, and its stream is opened under its own row.
LEMMA KeepAgent ==
  ASSUME IInv,
         \/ AgentStart \/ AgentStops \/ AuthorizeConnection \/ Acquire \/ ConnectionEnds
         \/ ValidatorDies \/ \E i \in Joins : Disconnect(i)
  PROVE  Places' /\ CodesEnrollOnce' /\ StoredIsRegistered' /\ OnlineIsOneIdentity'
<1>1. UNCHANGED <<caTables, host>>
  BY DEF AgentStart, AgentStops, AuthorizeConnection, Acquire, ConnectionEnds, ValidatorDies,
         Disconnect
<1>2. Enrolling' /\ Renewing' /\ CodesEnrollOnce' /\ StoredIsRegistered'
  BY <1>1 DEF IInv, Places, Enrolling, Renewing, CodesEnrollOnce, Enrolled, StoredIsRegistered
<1>3. \A k \in Joins : Active(k)' <=> Active(k)
  BY <1>1 DEF Active
<1>4. Loading' /\ OnlineIsOneIdentity'
  <2>1. CASE AgentStart
    <3>1. connection' = "none" /\ agent'.key = agent'.crt
      BY <2>1 DEF IInv, Places, Loading, IdentityTypeOK, AgentStart
    <3>2. QED
      BY <3>1 DEF Loading, OnlineIsOneIdentity
  <2>2. CASE AgentStops \/ ConnectionEnds
    BY <2>2 DEF IInv, Places, Loading, OnlineIsOneIdentity, AgentStops, ConnectionEnds, StreamEnds,
                StreamOver
  <2>3. CASE AuthorizeConnection
    BY <1>1, <2>3 DEF IInv, Places, Loading, OnlineIsOneIdentity, AuthorizeConnection, Active
  <2>4. CASE Acquire
    BY <1>1, <2>4 DEF IInv, Places, Loading, OnlineIsOneIdentity, Acquire, Active
  <2>5. CASE ValidatorDies
    BY <2>5 DEF IInv, Places, Loading, OnlineIsOneIdentity, ValidatorDies, StreamEnds, StreamOver
  <2>6. ASSUME NEW i \in Joins, Disconnect(i) PROVE Loading' /\ OnlineIsOneIdentity'
    <3>1. UNCHANGED agent /\ revoking' = revoking \ {i}
      BY <2>6 DEF Disconnect
    <3>2. \/ connection' = "none"
          \/ /\ connection' = connection
             /\ overtaken \/ (connection = "authorized" /\ agent.crt = i) => overtaken'
             /\ ~(connection = "open" /\ agent.crt = i)
      BY <2>6 DEF Disconnect, StreamEnds, StreamOver
    <3>3. connection \in {"none", "authorized", "open"}
      BY DEF IInv, IdentityTypeOK
    <3>4. ASSUME connection' # "none"
          PROVE  Active(agent.crt)' \/ agent'.crt \in revoking' \/ overtaken'
      <4>1. Active(agent.crt) \/ agent.crt \in revoking \/ overtaken
        BY <3>2, <3>4 DEF IInv, Places, Loading
      <4>2. Active(agent.crt) => Active(agent.crt)'
        BY <1>1, <3>1 DEF Active
      <4>3. QED
        BY <3>1, <3>2, <3>3, <3>4, <4>1, <4>2
    <3>5. QED
      BY <3>1, <3>2, <3>4 DEF IInv, Places, Loading, OnlineIsOneIdentity
  <2>7. QED
    BY <2>1, <2>2, <2>3, <2>4, <2>5, <2>6
<1>5. QED
  BY <1>2, <1>4 DEF Places

-----------------------------------------------------------------------------
(* The invariant and what follows from it.                                 *)

\* It holds of a validator and an agent that have stored nothing.
LEMMA InitIInv == IdentityInit => IInv
<1>1. IdentityInit => IdentityTypeOK
  <2>1. MinDelay \in MinDelay..MaxDelay
    OBVIOUS
  <2>2. ASSUME IdentityInit PROVE row \in [Joins -> Row \cup {None}]
    BY <2>2 DEF IdentityInit
  <2>3. ASSUME IdentityInit PROVE todo \in [Joins -> SUBSET File]
    BY <2>3 DEF IdentityInit
  <2>4. ASSUME IdentityInit
        PROVE  /\ code \in [Codes -> {"absent", "active", "consumed", "revoked"}]
               /\ used \in [Joins -> Codes \cup {None}]
               /\ enroll \in [Joins -> {"idle", "received", "consumed", "registered", "answered", "failed"}]
               /\ renew \in [Renewals -> {"idle", "authorized", "done", "denied"}]
               /\ renewing \in [Renewals -> Joins \cup {None}]
    BY <2>4 DEF IdentityInit
  <2>5. ASSUME IdentityInit
        PROVE  /\ join \in [Joins -> {"new", "waiting", "saving", "joined", "failed"}]
               /\ files \in [File -> Joins \cup {None}]
               /\ lapsed \in SUBSET (Codes \cup Serials) /\ unclean \in SUBSET Joins
               /\ agent \in Loaded \cup {None} /\ delay \in MinDelay..MaxDelay
               /\ connection \in {"none", "authorized", "open"} /\ revoking \in SUBSET Joins
               /\ overtaken \in BOOLEAN
    BY <2>1, <2>5 DEF IdentityInit
  <2>6. QED
    BY <2>2, <2>3, <2>4, <2>5 DEF IdentityTypeOK
<1>2. IdentityInit => Places
  BY DEF IdentityInit, Places, Enrolling, Renewing, Loading
<1>3. IdentityInit => CodesEnrollOnce /\ StoredIsRegistered /\ OnlineIsOneIdentity
  BY DEF IdentityInit, CodesEnrollOnce, Enrolled, StoredIsRegistered, OnlineIsOneIdentity
<1>4. QED
  BY <1>1, <1>2, <1>3 DEF IInv

\* No step of a join, a renewal, a stream or an administrator breaks it.
LEMMA NextIInv == IInv /\ [IdentityNext]_identityVars => IInv'
<1> SUFFICES ASSUME IInv, [IdentityNext]_identityVars PROVE IInv'
  OBVIOUS
<1>0. IdentityTypeOK /\ Renewing
  BY DEF IInv, Places
<1>1. CASE UNCHANGED identityVars
  BY <1>1 DEF identityVars, IInv, IdentityTypeOK, Places, Enrolling, Renewing, Loading,
              CodesEnrollOnce, Enrolled, StoredIsRegistered, OnlineIsOneIdentity, Active
<1>2. ASSUME \/ \E c \in Codes : CreateToken(c) \/ RevokeToken(c)
             \/ \E x \in Codes \cup Serials : LapseIdentity(x)
      PROVE  IInv'
  BY <1>0, <1>2, TypeValidator, KeepCodes DEF IInv
<1>3. ASSUME NEW i \in Joins, ConsumeToken(i) PROVE IInv'
  BY <1>0, <1>3, TypeValidator, KeepConsume DEF IInv
<1>4. ASSUME NEW i \in Joins, Register(i) PROVE IInv'
  BY <1>0, <1>4, TypeValidator, KeepRegister DEF IInv
<1>5. ASSUME NEW i \in Joins, EnrollFails(i) \/ Answer(i) PROVE IInv'
  BY <1>0, <1>5, TypeValidator, KeepCall DEF IInv
<1>6. ASSUME NEW r \in Renewals, RenewFails(r) \/ \E i \in Joins : AuthorizeRenewal(r, i)
      PROVE  IInv'
  BY <1>0, <1>6, TypeValidator, KeepRenewal DEF IInv
<1>7. ASSUME NEW r \in Renewals, UpdateCertificate(r) PROVE IInv'
  BY <1>0, <1>7, TypeRow, KeepRenewal DEF IInv
<1>8. ASSUME NEW i \in Joins, RevokeAgent(i) PROVE IInv'
  BY <1>0, <1>8, TypeRow, KeepRevoke DEF IInv
<1>9. ASSUME NEW i \in Joins,
             \/ JoinRefused(i) \/ JoinGivesUp(i) \/ SaveStops(i)
             \/ \E c \in Codes : JoinStart(i, c)
             \/ \E f \in File : SaveFile(i, f)
      PROVE  IInv'
  BY <1>0, <1>9, TypeJoin, KeepJoin DEF IInv
<1>10. CASE \/ AgentStart \/ AgentStops \/ AuthorizeConnection \/ Acquire \/ ConnectionEnds
            \/ ValidatorDies \/ \E i \in Joins : Disconnect(i)
  BY <1>0, <1>10, TypeAgent, KeepAgent DEF IInv
<1>11. QED
  BY <1>1, <1>2, <1>3, <1>4, <1>5, <1>6, <1>7, <1>8, <1>9, <1>10 DEF IdentityNext

\* A row that is revoked is not touched by any step.
LEMMA RevokedStays ==
  ASSUME IInv, [IdentityNext]_identityVars, NEW i \in Joins, row[i] # None, ~Active(i)
  PROVE  row'[i] = row[i]
<1>1. CASE UNCHANGED row
  BY <1>1
<1>2. ASSUME NEW k \in Joins, Register(k) PROVE row'[i] = row[i]
  <2>1. row[k] = None
    BY <1>2 DEF IInv, Places, Enrolling, Register
  <2>2. QED
    BY <1>2, <2>1 DEF Register, IInv, IdentityTypeOK
<1>3. ASSUME NEW r \in Renewals, UpdateCertificate(r) PROVE row'[i] = row[i]
  BY <1>3 DEF UpdateCertificate, IInv, IdentityTypeOK
<1>4. ASSUME NEW k \in Joins, RevokeAgent(k) PROVE row'[i] = row[i]
  BY <1>4 DEF RevokeAgent, IInv, IdentityTypeOK
<1>5. IdentityNext =>
        \/ UNCHANGED row
        \/ \E k \in Joins : Register(k) \/ RevokeAgent(k)
        \/ \E r \in Renewals : UpdateCertificate(r)
  BY DEF IdentityNext, CreateToken, RevokeToken, LapseIdentity, ConsumeToken, EnrollFails,
         Answer, JoinRefused, JoinGivesUp, SaveStops, JoinStart, SaveFile, AuthorizeRenewal,
         RenewFails, AgentStart, AgentStops, AuthorizeConnection, Acquire, ConnectionEnds,
         ValidatorDies, Disconnect
<1>6. QED
  BY <1>1, <1>2, <1>3, <1>4, <1>5 DEF identityVars

\* It holds throughout.
LEMMA IInvAlways == IdentitySpec => []IInv
  BY InitIInv, NextIInv, PTL DEF IdentitySpec

\* The tables, the files and the loaded credentials keep their types, and the delay of
\* Reconnect stays within its bounds.
THEOREM IdentityTypes == IdentitySpec => []IdentityTypeOK
<1>1. IInv => IdentityTypeOK
  BY DEF IInv
<1>2. QED
  BY <1>1, IInvAlways, PTL

\* The single UPDATE of ConsumeToken makes at most one identity of a code, and none of one
\* whose revocation was confirmed.
THEOREM OneIdentityPerCode == IdentitySpec => []CodesEnrollOnce
<1>1. IInv => CodesEnrollOnce
  BY DEF IInv
<1>2. QED
  BY <1>1, IInvAlways, PTL

\* Enroll inserts the row before it answers, so that no identity reaches a disk the
\* validator does not know.
THEOREM StoredHasRow == IdentitySpec => []StoredIsRegistered
<1>1. IInv => StoredIsRegistered
  BY DEF IInv
<1>2. QED
  BY <1>1, IInvAlways, PTL

\* X509KeyPair, AuthorizeConnection and the comparison of certificate and hello leave no stream
\* open under a mixed identity; and a revoked one has a stream only between the two steps of
\* RevokeAgent, or if Disconnect found the stream authorized and not yet in the registry.
THEOREM StreamHasOneIdentity == IdentitySpec => []OnlineIsOneIdentity
<1>1. IInv => OnlineIsOneIdentity
  BY DEF IInv
<1>2. QED
  BY <1>1, IInvAlways, PTL

\* Neither a renewal that was authorized before, nor any other step, changes the row of an
\* identity that has been revoked.
THEOREM RevocationStays == IdentitySpec => RevokedIsFinal
<1>1. IInv /\ [IdentityNext]_identityVars
        => [\A i \in Joins : row[i] # None /\ ~Active(i) => row'[i] = row[i]]_identityVars
  BY RevokedStays
<1>2. QED
  BY <1>1, IInvAlways, PTL DEF IdentitySpec, RevokedIsFinal

-----------------------------------------------------------------------------
(* Mixed directories.                                                      *)

\* A join that was never interrupted while saving and never had company is the only one at
\* work, writes every file over whatever was there, and is the last: agent.key exists now.
Alone ==
  \A j \in Joins \ unclean :
    /\ j \in Busy => Busy = {j}
    /\ join[j] = "saving" => \A f \in File \ todo[j] : files[f] = j
    /\ (\E f \in File : files[f] = j) =>
          \/ join[j] = "saving"
          \/ join[j] = "joined" /\ Busy = {} /\ \A f \in File : files[f] = j

\* However many joins there are, finitely many have started.
Started == IsFiniteSet(unclean) /\ IsFiniteSet(Busy)

\* A step by which no join goes ahead and no file changes.
NoJoinMoves == UNCHANGED <<files, todo, unclean>> /\ \A i \in Joins : join'[i] = join[i]

\* A step of no join leaves them alone.
LEMMA NoMoveAlone == ASSUME Alone, Started, NoJoinMoves PROVE Alone' /\ Started'
<1>1. Busy' = Busy
  BY DEF NoJoinMoves, Busy
<1>2. QED
  BY <1>1 DEF Alone, Started, NoJoinMoves

\* A join that fails before it has saved anything, and one that goes from waiting to saving.
LEMMA WaitEndsAlone ==
  ASSUME IdentityTypeOK, Alone, Started, NEW i \in Joins,
         JoinRefused(i) \/ JoinGivesUp(i) \/ EnrollFails(i) \/ Answer(i)
  PROVE  Alone' /\ Started'
<1>1. /\ UNCHANGED <<files, unclean>> /\ \A j \in Joins \ {i} : join'[j] = join[j] /\ todo'[j] = todo[j]
      /\ \/ join[i] \in {"new", "waiting"} /\ join'[i] = "failed"
         \/ join[i] = "waiting" /\ join'[i] = "saving" /\ todo'[i] = File
         \/ join'[i] = join[i] /\ todo'[i] = todo[i]
  BY DEF IdentityTypeOK, JoinRefused, JoinGivesUp, EnrollFails, Answer
<1>2. /\ Busy' \subseteq Busy
      /\ \A j \in Joins : j \in Busy' => j \in Busy
  BY <1>1 DEF Busy
<1>3. Started'
  BY <1>1, <1>2, FS_Subset DEF Started
<1>4. Alone'
  <2> SUFFICES ASSUME NEW j \in Joins \ unclean
               PROVE  /\ j \in Busy' => Busy' = {j}
                      /\ join'[j] = "saving" => \A f \in File \ todo'[j] : files[f] = j
                      /\ (\E f \in File : files[f] = j) =>
                            \/ join'[j] = "saving"
                            \/ join'[j] = "joined" /\ Busy' = {} /\ \A f \in File : files[f] = j
    BY <1>1 DEF Alone
  <2>1. j \in Busy' => Busy' = {j}
    BY <1>2 DEF Alone
  <2>2. join'[j] = "saving" => \A f \in File \ todo'[j] : files[f] = j
    BY <1>1 DEF Alone
  <2>3. ASSUME NEW f \in File, files[f] = j
        PROVE  \/ join'[j] = "saving"
               \/ join'[j] = "joined" /\ Busy' = {} /\ \A g \in File : files[g] = j
    <3>1. \/ join[j] = "saving"
          \/ join[j] = "joined" /\ Busy = {} /\ \A g \in File : files[g] = j
      BY <2>3 DEF Alone
    <3>2. join'[j] = join[j]
      BY <1>1, <3>1
    <3>3. QED
      BY <1>2, <3>1, <3>2
  <2>4. QED
    BY <2>1, <2>2, <2>3
<1>5. QED
  BY <1>3, <1>4

\* A join that starts is alone, or everybody at work is marked.
LEMMA StartAlone ==
  ASSUME IdentityTypeOK, Alone, Started, NEW i \in Joins, NEW c \in Codes, JoinStart(i, c)
  PROVE  Alone' /\ Started'
<1>1. /\ join[i] = "new" /\ files["key"] = None /\ join' = [join EXCEPT ![i] = "waiting"]
      /\ unclean' = IF Busy = {} THEN unclean ELSE unclean \cup Busy \cup {i}
      /\ UNCHANGED <<files, todo>>
  BY DEF JoinStart
<1>2. Busy' = Busy \cup {i} /\ \A j \in Joins : j # i => join'[j] = join[j]
  BY <1>1 DEF Busy, IdentityTypeOK
<1>3. Started'
  BY <1>1, <1>2, FS_Union, FS_AddElement DEF Started
<1>4. Alone'
  <2> SUFFICES ASSUME NEW j \in Joins \ unclean'
               PROVE  /\ j \in Busy' => Busy' = {j}
                      /\ join'[j] = "saving" => \A f \in File \ todo[j] : files[f] = j
                      /\ ~\E f \in File : files[f] = j
    BY <1>1 DEF Alone
  <2>1. j \notin unclean /\ j \notin Busy
    BY <1>1
  <2>2. (\E f \in File : files[f] = j) => files["key"] = j
    BY <2>1 DEF Alone, Busy, File
  <2>3. j \in Busy' => j = i /\ Busy = {}
    BY <1>1, <1>2, <2>1
  <2>4. join'[j] # "saving"
    BY <1>1, <1>2, <2>1 DEF Busy, IdentityTypeOK
  <2>5. QED
    BY <1>1, <1>2, <2>2, <2>3, <2>4
<1>5. QED
  BY <1>3, <1>4

\* Nobody else writes while such a join saves, nor afterwards.
LEMMA SaveAlone ==
  ASSUME IdentityTypeOK, Alone, Started, NEW i \in Joins, NEW f \in File, SaveFile(i, f)
  PROVE  Alone' /\ Started'
<1>1. /\ join[i] = "saving" /\ f \in todo[i] /\ files' = [files EXCEPT ![f] = i]
      /\ todo' = [todo EXCEPT ![i] = @ \ {f}] /\ UNCHANGED unclean
      /\ join' = [join EXCEPT ![i] = IF todo[i] = {f} THEN "joined" ELSE @]
  BY DEF SaveFile
<1>2. /\ i \in Busy /\ Busy' \subseteq Busy
      /\ \A j \in Joins \ {i} : join'[j] = join[j] /\ todo'[j] = todo[j]
      /\ join'[i] = (IF todo[i] = {f} THEN "joined" ELSE "saving") /\ todo'[i] = todo[i] \ {f}
      /\ files'[f] = i /\ \A g \in File \ {f} : files'[g] = files[g]
  BY <1>1 DEF Busy, IdentityTypeOK
<1>3. Started'
  BY <1>1, <1>2, FS_Subset DEF Started
<1>4. ASSUME NEW j \in Joins \ unclean, j # i
      PROVE  j \notin Busy' /\ \A g \in File : files'[g] # j
  <2>1. j \notin Busy
    BY <1>2, <1>4 DEF Alone
  <2>2. \A g \in File : files[g] # j
    BY <1>2, <1>4, <2>1 DEF Alone, Busy
  <2>3. QED
    BY <1>2, <1>4, <2>1, <2>2
<1>5. ASSUME i \notin unclean
      PROVE  /\ i \in Busy' => Busy' = {i}
             /\ \A g \in File \ todo'[i] : files'[g] = i
             /\ \/ join'[i] = "saving"
                \/ join'[i] = "joined" /\ Busy' = {} /\ \A g \in File : files'[g] = i
  <2>1. Busy = {i} /\ \A g \in File \ todo[i] : files[g] = i
    BY <1>1, <1>2, <1>5 DEF Alone
  <2>2. \A g \in File \ todo'[i] : files'[g] = i
    BY <1>2, <2>1
  <2>3. join'[i] = "joined" => i \notin Busy' /\ todo'[i] = {}
    BY <1>2 DEF Busy
  <2>4. QED
    BY <1>2, <2>1, <2>2, <2>3
<1>6. Alone'
  <2>1. \A j \in Joins \ unclean : j # i => join'[j] # "saving"
    BY <1>4 DEF Busy
  <2>2. QED
    BY <1>1, <1>4, <1>5, <2>1 DEF Alone
<1>7. QED
  BY <1>3, <1>6

\* A join that is interrupted while it saves is marked.
LEMMA StopAlone ==
  ASSUME IdentityTypeOK, Alone, Started, NEW i \in Joins, SaveStops(i)
  PROVE  Alone' /\ Started'
<1>1. /\ unclean' = unclean \cup {i} /\ UNCHANGED files
      /\ \A j \in Joins \ {i} : join'[j] = join[j] /\ todo'[j] = todo[j]
      /\ Busy' \subseteq Busy
  BY DEF SaveStops, Busy, IdentityTypeOK
<1>2. Started'
  BY <1>1, FS_Subset, FS_AddElement DEF Started
<1>3. Alone'
  BY <1>1 DEF Alone
<1>4. QED
  BY <1>2, <1>3

\* Every step leaves the unmarked joins alone.
LEMMA StepAlone ==
  ASSUME IdentityTypeOK, Alone, Started, [IdentityNext]_identityVars
  PROVE  Alone' /\ Started'
<1>1. IdentityNext =>
        \/ NoJoinMoves
        \/ \E i \in Joins :
             \/ JoinRefused(i) \/ JoinGivesUp(i) \/ EnrollFails(i) \/ Answer(i) \/ SaveStops(i)
             \/ \E c \in Codes : JoinStart(i, c)
             \/ \E f \in File : SaveFile(i, f)
  BY DEF IdentityNext, NoJoinMoves, CreateToken, RevokeToken, LapseIdentity, ConsumeToken, Register,
         RevokeAgent, UpdateCertificate, AuthorizeRenewal, RenewFails, AgentStart, AgentStops,
         AuthorizeConnection, Acquire, ConnectionEnds, ValidatorDies, Disconnect
<1>2. UNCHANGED identityVars => NoJoinMoves
  BY DEF identityVars, NoJoinMoves
<1>3. QED
  BY <1>1, <1>2, NoMoveAlone, WaitEndsAlone, StartAlone, SaveAlone, StopAlone

\* Two joins of which neither was left in peace are needed to mix a directory that is at
\* rest and that LoadAgentCredentials accepts: one interrupted join and its successor are
\* not enough, since agent.key keeps the successor from starting or is rewritten by it.
THEOREM MixtureTakesTwo == IdentitySpec => []MixedTakesTwo
<1>1. IdentityInit => Alone /\ Started
  <2>1. IdentityInit => Busy = {} /\ unclean = {} /\ \A f \in File : files[f] = None
    BY DEF IdentityInit, Busy
  <2>2. QED
    BY <2>1, FS_EmptySet DEF IdentityInit, Alone, Started
<1>2. IdentityTypeOK /\ Alone /\ Started /\ [IdentityNext]_identityVars => Alone' /\ Started'
  BY StepAlone
<1>3. IdentityTypeOK /\ Alone /\ Started => MixedTakesTwo
  <2> SUFFICES ASSUME IdentityTypeOK, Alone, Started, Busy = {}, Accepted, files["id"] # files["crt"]
               PROVE  Cardinality(unclean) > 1
    BY DEF MixedTakesTwo
  <2>1. PICK a \in Joins, b \in Joins : a = files["id"] /\ b = files["crt"]
    BY DEF IdentityTypeOK, Accepted, File
  <2>2. a \in unclean /\ b \in unclean /\ a # b
    BY <2>1 DEF Alone, Busy, File
  <2>3. IsFiniteSet({a, b}) /\ Cardinality({a, b}) = 2
    <3>1. IsFiniteSet({a}) /\ Cardinality({a}) = 1 /\ {a} \cup {b} = {a, b} /\ b \notin {a}
      BY <2>2, FS_Singleton
    <3>2. QED
      BY <3>1, FS_AddElement
  <2>4. Cardinality({a, b}) <= Cardinality(unclean) /\ Cardinality(unclean) \in Nat
    BY <2>2, FS_Subset, FS_CardinalityType DEF Started
  <2>5. QED
    BY <2>3, <2>4
<1>4. QED
  BY <1>1, <1>2, <1>3, IdentityTypes, PTL DEF IdentitySpec
=============================================================================
