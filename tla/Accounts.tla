------------------------------ MODULE Accounts ------------------------------
(***************************************************************************)
(* Who may use the fleet: users, invitations and SSH keys (internal/server *)
(* auth.go, client_invitation.go, fleet.go, read.go), the tokens Login and *)
(* RedeemClientInvitation issue (internal/auth), the bootstrap of the      *)
(* first administrator, and `client join` on an operator's machine.        *)
(*                                                                         *)
(* Rows of users are never deleted or disabled by any code, so a user is   *)
(* its name.  A token is named by the call that issued it.  A request for  *)
(* administration is let in by an interceptor and writes later, when its   *)
(* password is hashed and the database's one connection is free.           *)
(***************************************************************************)
EXTENDS Access, FiniteSets

CONSTANTS
  Users,     \* user names
  First,     \* the name in the bootstrap variables
  Invites,   \* rows of client_invitations
  Calls,     \* Login and RedeemClientInvitation calls, and the tokens they issue
  Roles,     \* the roles in use
  SshKeys,   \* rows of ssh_keys
  Requests,  \* administration calls that can be under way at once
  Sources,   \* peer addresses, with port
  Peer,      \* the endpoint policies all of them are admitted by
  Limit,     \* login attempts per window
  Nobody     \* no value

ASSUME AccountsAssumption ==
  /\ First \in Users /\ Roles \subseteq {Viewer, Operator, Admin} /\ Admin \in Roles
  /\ Nobody \notin Users \cup Invites \cup Calls
  /\ Invites \cap Calls = {} /\ Limit \in Nat \ {0} /\ Peer \subseteq Policies

VARIABLES
  user,      \* users.role; Nobody without a row
  maker,     \* history: the invitation a user was made from
  admins,    \* history: users whose row has ever said Admin
  invite,    \* client_invitations
  sshkey,    \* the owner of a row of ssh_keys
  call,      \* where a call is, the name and role it read, the invitation it redeems
  stale,     \* invitations and tokens past their expiry
  outdated,  \* history: calls whose user changed role after they had read it
  request,   \* administration calls let in: the method, and the token or Nobody for the socket
  bucket,    \* RateLimiter.buckets: attempts in the window of each address
  up         \* the validator serves

users == <<user, maker, admins>>
tables == <<users, invite, sshkey>>
accountVars == <<tables, call, stale, outdated, request, bucket, up>>

-----------------------------------------------------------------------------
Invitation == [name : Users, role : Roles, state : {"open", "consumed", "revoked"}]
Administered == {"CreateUser", "SetUserRole", "CreateClientInvitation",
                 "RevokeClientInvitation", "AddSshKey", "DeleteSshKey"}
Request == [method : Administered, by : Calls \cup {Nobody}]
ASSUME NobodyIsNoValue == Nobody \notin Roles \cup Invitation \cup Request

Idle == [at |-> "idle", name |-> Nobody, role |-> 0, invite |-> Nobody]
At(c, where) == call[c].at = where
Issued == {"token", "saved", "joined"}

AccountsInit ==
  /\ user = [n \in Users |-> Nobody]
  /\ maker = [n \in Users |-> Nobody]
  /\ admins = {}
  /\ invite = [v \in Invites |-> Nobody]
  /\ sshkey = [k \in SshKeys |-> Nobody]
  /\ call = [c \in Calls |-> Idle]
  /\ stale = {}
  /\ outdated = {}
  /\ request = [q \in Requests |-> Nobody]
  /\ bucket = [s \in Sources |-> 0]
  /\ up = FALSE

-----------------------------------------------------------------------------
(* What a call needs.                                                       *)

\* Issuer.Verify: signed by this validator and not expired.  The row of the user is not read.
Live(c) == up /\ call[c].at \in Issued /\ c \notin stale

\* A token's call passes the network server's interceptor; a caller without a token is let in
\* for AuthMethods alone.
Admitted(c, m) == Live(c) /\ EndpointUnary(m, Peer, call[c].role)
Anonymous(m) == up /\ EndpointUnary(m, Peer, NoRole)

\* A row of users is written.
Write(n, r) ==
  /\ user' = [user EXCEPT ![n] = r]
  /\ admins' = IF r = Admin THEN admins \cup {n} ELSE admins

-----------------------------------------------------------------------------
(* The validator's life.                                                   *)

\* RunValidator; BootstrapAdmin when its variables are set and there is no user at all.
Start ==
  /\ ~up /\ up' = TRUE
  /\ \/ UNCHANGED <<user, admins>>
     \/ (\A n \in Users : user[n] = Nobody) /\ Write(First, Admin)
  /\ UNCHANGED <<maker, invite, sshkey, call, stale, outdated, request, bucket>>

\* Calls under way and the limiter's memory are lost; tables, tokens and their key stay.
Stop ==
  /\ up /\ up' = FALSE
  /\ LET lost == {c \in Calls : call[c].at \in {"hashing", "redeeming", "committed"}} IN
     /\ call' = [c \in Calls |-> IF c \in lost THEN Idle ELSE call[c]]
     /\ outdated' = outdated \ lost
  /\ request' = [q \in Requests |-> Nobody]
  /\ bucket' = [s \in Sources |-> 0]
  /\ UNCHANGED <<tables, stale>>

\* The clock passes the expiry of an invitation or a token that is there, or the end of a
\* window.
Expires(x) ==
  /\ x \notin stale
  /\ stale' = stale \cup {x}
  /\ UNCHANGED <<tables, call, outdated, request, bucket, up>>

InvitationExpires(v) == invite[v] # Nobody /\ invite[v].state = "open" /\ Expires(v)

TokenExpires(c) == call[c].at \in Issued /\ Expires(c)

WindowEnds(s) ==
  /\ bucket[s] > 0
  /\ bucket' = [bucket EXCEPT ![s] = 0]
  /\ UNCHANGED <<tables, call, stale, outdated, request, up>>

-----------------------------------------------------------------------------
(* Login and RedeemClientInvitation.                                       *)

Allow(s) == bucket[s] < Limit

\* A call that ends without a token is as if it had not been made, and can be made again.
GivesUp(c) ==
  /\ call' = [call EXCEPT ![c] = Idle]
  /\ outdated' = outdated \ {c}
  /\ UNCHANGED <<tables, stale, request, bucket, up>>

\* The limiter, whose refusal changes nothing, then the SELECT; an unknown name ends the call,
\* otherwise the role it read waits for the password to be hashed.
Login(c, s, n) ==
  /\ Anonymous("Login") /\ At(c, "idle") /\ Allow(s)
  /\ bucket' = [bucket EXCEPT ![s] = @ + 1]
  /\ call' = [call EXCEPT ![c] = IF user[n] = Nobody THEN Idle
                                 ELSE [Idle EXCEPT !.at = "hashing", !.name = n, !.role = user[n]]]
  /\ UNCHANGED <<tables, stale, outdated, request, up>>

\* `client join` decodes an invitation and compares the padded pin of the certificate it is
\* shown with the text the administrator gave; only if they agree is the secret sent, otherwise
\* the join ends.
JoinPin(c, v) ==
  /\ up /\ At(c, "idle") /\ invite[v] # Nobody
  /\ call' = [call EXCEPT ![c] = [Idle EXCEPT !.at = "pinned", !.invite = v]]
  /\ UNCHANGED <<tables, stale, outdated, request, bucket, up>>

\* The handler takes the time its query will use, then waits for the connection.
RedeemBegins(c) ==
  /\ Anonymous("RedeemClientInvitation") /\ At(c, "pinned") /\ call[c].invite \notin stale
  /\ call' = [call EXCEPT ![c].at = "redeeming"]
  /\ UNCHANGED <<tables, stale, outdated, request, bucket, up>>

Redeemed(c, v) ==
  /\ Write(invite[v].name, invite[v].role)
  /\ maker' = [maker EXCEPT ![invite[v].name] = v]
  /\ call' = [call EXCEPT ![c] = [at |-> "committed", name |-> invite[v].name,
                                  role |-> invite[v].role, invite |-> v]]
  /\ UNCHANGED <<sshkey, stale, outdated, request, bucket, up>>

\* Variant: the INSERT replaces a user of the same name.
RedeemReplacing(c) ==
  LET v == call[c].invite IN
  /\ At(c, "redeeming") /\ invite[v].state = "open"
  /\ invite' = [invite EXCEPT ![v].state = "consumed"]
  /\ Redeemed(c, v)

\* Variant: the state of the invitation is not in the query.
RedeemAnyState(c) ==
  LET v == call[c].invite IN
  /\ At(c, "redeeming") /\ user[invite[v].name] = Nobody
  /\ invite' = [invite EXCEPT ![v].state = IF @ = "open" THEN "consumed" ELSE @]
  /\ Redeemed(c, v)

\* One transaction: SELECT the active invitation, INSERT the user, UPDATE the invitation.
Redeem(c) ==
  LET v == call[c].invite IN
  /\ At(c, "redeeming") /\ invite[v].state = "open"
  /\ user[invite[v].name] = Nobody
  /\ invite' = [invite EXCEPT ![v].state = "consumed"]
  /\ Redeemed(c, v)

\* "invalid invitation", "user exists", a password that is too short, or the storage fails
\* and the transaction is rolled back.
RedeemFails(c) == (At(c, "pinned") \/ At(c, "redeeming")) /\ GivesUp(c)

\* Service.Issue with the role that was read.
Issue(c) ==
  /\ At(c, "hashing") \/ At(c, "committed")
  /\ call' = [call EXCEPT ![c].at = "token"]
  /\ UNCHANGED <<tables, stale, outdated, request, bucket, up>>

\* The password is wrong, or nobody waits for the answer any more.
NotIssued(c) == (At(c, "hashing") \/ At(c, "committed")) /\ GivesUp(c)

\* The join saves the token on the operator's machine and then the profile; it may end in
\* between.
SaveToken(c) ==
  /\ At(c, "token") /\ call[c].invite # Nobody
  /\ call' = [call EXCEPT ![c].at = "saved"]
  /\ UNCHANGED <<tables, stale, outdated, request, bucket, up>>

SaveProfile(c) ==
  /\ At(c, "saved")
  /\ call' = [call EXCEPT ![c].at = "joined"]
  /\ UNCHANGED <<tables, stale, outdated, request, bucket, up>>

-----------------------------------------------------------------------------
(* Administration.  The interceptor's check, and the statement that writes.*)

\* EndpointUnaryInterceptor: the token is looked at now and never again.
Ask(q, c, m) ==
  /\ request[q] = Nobody /\ Admitted(c, m)
  /\ request' = [request EXCEPT ![q] = [method |-> m, by |-> c]]
  /\ UNCHANGED <<tables, call, stale, outdated, bucket, up>>

\* The socket's interceptor: the caller is on the validator's host and has no row in users.
AskLocally(q, m) ==
  /\ request[q] = Nobody /\ up /\ LocalAdmits(m)
  /\ request' = [request EXCEPT ![q] = [method |-> m, by |-> Nobody]]
  /\ UNCHANGED <<tables, call, stale, outdated, bucket, up>>

Asked(q, m) == request[q] # Nobody /\ request[q].method = m

Answers(q) ==
  /\ request' = [request EXCEPT ![q] = Nobody]
  /\ UNCHANGED <<maker, call, stale, bucket, up>>

\* An argument is invalid, the name is taken, there is no such row, or the storage fails.
RequestFails(q) ==
  /\ request[q] # Nobody /\ Answers(q)
  /\ UNCHANGED <<user, admins, invite, sshkey, outdated>>

CreateUser(q, n, r) ==
  /\ Asked(q, "CreateUser") /\ Answers(q)
  /\ user[n] = Nobody /\ Write(n, r)
  /\ UNCHANGED <<invite, sshkey, outdated>>

\* Of calls and tokens that have read the old role nothing is taken back.
SetUserRole(q, n, r) ==
  /\ Asked(q, "SetUserRole") /\ Answers(q)
  /\ user[n] # Nobody /\ Write(n, r)
  /\ outdated' = outdated \cup {c \in Calls : call[c].name = n}
  /\ UNCHANGED <<invite, sshkey>>

CreateClientInvitation(q, v, n, r) ==
  /\ Asked(q, "CreateClientInvitation") /\ Answers(q)
  /\ invite[v] = Nobody
  /\ invite' = [invite EXCEPT ![v] = [name |-> n, role |-> r, state |-> "open"]]
  /\ UNCHANGED <<user, admins, sshkey, outdated>>

RevokeClientInvitation(q, v) ==
  /\ Asked(q, "RevokeClientInvitation") /\ Answers(q)
  /\ invite[v] # Nobody /\ invite[v].state = "open"
  /\ invite' = [invite EXCEPT ![v].state = "revoked"]
  /\ UNCHANGED <<user, admins, sshkey, outdated>>

\* The row refers to users, so that it takes a token: the socket's caller has no row.
AddSshKey(q, k) ==
  /\ Asked(q, "AddSshKey") /\ Answers(q)
  /\ request[q].by # Nobody /\ sshkey[k] = Nobody
  /\ sshkey' = [sshkey EXCEPT ![k] = call[request[q].by].name]
  /\ UNCHANGED <<user, admins, invite, outdated>>

\* Variant: DELETE ... WHERE id, whoever owns the key.
DeleteAnySshKey(q, k) ==
  /\ Asked(q, "DeleteSshKey") /\ Answers(q)
  /\ sshkey[k] # Nobody
  /\ sshkey' = [sshkey EXCEPT ![k] = Nobody]
  /\ UNCHANGED <<user, admins, invite, outdated>>

\* DELETE ... WHERE id AND user_id.
DeleteSshKey(q, k) ==
  /\ Asked(q, "DeleteSshKey") /\ Answers(q)
  /\ request[q].by # Nobody /\ sshkey[k] = call[request[q].by].name
  /\ sshkey' = [sshkey EXCEPT ![k] = Nobody]
  /\ UNCHANGED <<user, admins, invite, outdated>>

-----------------------------------------------------------------------------
Administer(q) ==
  \/ RequestFails(q)
  \/ \E m \in Administered : AskLocally(q, m) \/ \E c \in Calls : Ask(q, c, m)
  \/ \E n \in Users, r \in Roles :
       \/ CreateUser(q, n, r) \/ SetUserRole(q, n, r)
       \/ \E v \in Invites : CreateClientInvitation(q, v, n, r)
  \/ \E v \in Invites : RevokeClientInvitation(q, v)
  \/ \E k \in SshKeys : AddSshKey(q, k) \/ DeleteSshKey(q, k)

AccountsNext ==
  \/ Start \/ Stop
  \/ \E v \in Invites : InvitationExpires(v)
  \/ \E s \in Sources : WindowEnds(s)
  \/ \E c \in Calls :
       \/ RedeemBegins(c) \/ Redeem(c) \/ RedeemFails(c)
       \/ Issue(c) \/ NotIssued(c) \/ TokenExpires(c)
       \/ SaveToken(c) \/ SaveProfile(c)
       \/ \E s \in Sources : \E n \in Users : Login(c, s, n)
       \/ \E v \in Invites : JoinPin(c, v)
  \/ \E q \in Requests : Administer(q)

AccountsSpec == AccountsInit /\ [][AccountsNext]_accountVars
-----------------------------------------------------------------------------
(* Properties.                                                             *)

\* A redemption is all or nothing whatever it races with: an invitation is consumed exactly
\* when one user was made from it, under its name, and one that was revoked makes none.
ConsumedIsUser ==
  \A v \in Invites :
    (invite[v] # Nobody /\ invite[v].state = "consumed")
      <=> \E n \in Users : maker[n] = v /\ user[n] # Nobody /\ invite[v].name = n

\* A token, or one about to be issued, carries the role its user has now, unless the role was
\* changed after the call had read it: no redemption, login or retry makes the two differ.
TokensMatchRole ==
  \A c \in Calls \ outdated : call[c].name # Nobody => call[c].role = user[call[c].name]

\* The tables change in three ways only: the bootstrap makes the first user of all, a
\* redemption makes the user its invitation names, and a request writes that came through the
\* socket or under a token of somebody whose row has said Admin, whatever has expired or
\* changed since it was let in.  A key is added or removed only by a request of its owner.
Bootstraps ==
  /\ \A n \in Users : user[n] = Nobody /\ (n # First => user'[n] = Nobody)
  /\ UNCHANGED <<invite, sshkey>>

Redeems ==
  \E v \in Invites :
    /\ invite[v] # Nobody /\ invite[v].state = "open" /\ invite'[v].state = "consumed"
    /\ user[invite[v].name] = Nobody /\ user'[invite[v].name] = invite[v].role
    /\ \A n \in Users \ {invite[v].name} : user'[n] = user[n]
    /\ UNCHANGED sshkey

Administers ==
  \E q \in Requests :
    /\ request[q] # Nobody /\ request'[q] = Nobody
    /\ request[q].by # Nobody => call[request[q].by].name \in admins
    /\ \A k \in SshKeys : sshkey'[k] # sshkey[k] =>
         request[q].by # Nobody /\ call[request[q].by].name \in {sshkey[k], sshkey'[k]}

AdministeredByAdmins ==
  [][UNCHANGED <<user, invite, sshkey>> \/ Bootstraps \/ Redeems \/ Administers]_accountVars
=============================================================================
