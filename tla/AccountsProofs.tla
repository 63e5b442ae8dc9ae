--------------------------- MODULE AccountsProofs ---------------------------
(***************************************************************************)
(* Proofs about Accounts for any number of users, invitations, calls, keys *)
(* and addresses, any set of roles with Admin in it and any limit.         *)
(***************************************************************************)
EXTENDS Accounts, TLAPS

CallPlaces == {"idle", "hashing", "pinned", "redeeming", "committed", "token", "saved", "joined"}
Shown == {"pinned", "redeeming"}
Call == [at : CallPlaces, name : Users \cup {Nobody}, role : Roles \cup {NoRole},
         invite : Invites \cup {Nobody}]

AccountTypes ==
  /\ user \in [Users -> Roles \cup {Nobody}]
  /\ maker \in [Users -> Invites \cup {Nobody}]
  /\ invite \in [Invites -> Invitation \cup {Nobody}]
  /\ sshkey \in [SshKeys -> Users \cup {Nobody}]
  /\ call \in [Calls -> Call]
  /\ request \in [Requests -> Request \cup {Nobody}]

\* The name a call has read is a user's, and the invitation it was shown a row's.
Known ==
  \A c \in Calls :
    /\ call[c].name # Nobody => user[call[c].name] # Nobody
    /\ call[c].at \in Shown => call[c].invite \in Invites /\ invite[call[c].invite] # Nobody

\* The two sides of ConsumedIsUser, each naming the row of the other.
Made ==
  \A n \in Users : maker[n] # Nobody =>
    /\ user[n] # Nobody
    /\ invite[maker[n]] # Nobody
    /\ invite[maker[n]].state = "consumed" /\ invite[maker[n]].name = n

Consumed ==
  \A v \in Invites : invite[v] # Nobody /\ invite[v].state = "consumed" => maker[invite[v].name] = v

IInv == AccountTypes /\ Known /\ Made /\ Consumed /\ TokensMatchRole

USE AccountsAssumption, NobodyIsNoValue
USE DEF tables, users

-----------------------------------------------------------------------------
(* Calls.                                                                  *)

\* A step of calls alone: each is as before but for its place, has forgotten its name, or has
\* just read a user; and it is shown an invitation only if there is one.
CallsFollow ==
  /\ UNCHANGED <<user, maker, invite>>
  /\ sshkey' \in [SshKeys -> Users \cup {Nobody}]
  /\ call' \in [Calls -> Call]
  /\ request' \in [Requests -> Request \cup {Nobody}]
  /\ \A c \in Calls :
       /\ \/ call'[c].name = Nobody
          \/ /\ call'[c].name = call[c].name /\ call'[c].role = call[c].role
             /\ c \in outdated => c \in outdated'
          \/ /\ call'[c].name \in Users /\ user[call'[c].name] # Nobody
             /\ call'[c].role = user[call'[c].name]
       /\ call'[c].at \in Shown => call'[c].invite \in Invites /\ invite[call'[c].invite] # Nobody

\* Such a step keeps the invariant.
LEMMA FollowKeeps == ASSUME IInv, CallsFollow PROVE IInv'
<1>1. AccountTypes'
  BY DEF IInv, AccountTypes, CallsFollow
<1>2. Known'
  BY DEF IInv, Known, At, CallsFollow
<1>3. Made' /\ Consumed'
  BY DEF IInv, Made, Consumed, CallsFollow
<1>4. TokensMatchRole'
  BY DEF IInv, TokensMatchRole, CallsFollow
<1>5. QED
  BY <1>1, <1>2, <1>3, <1>4 DEF IInv

\* A call not made, or given up, knows nothing.
LEMMA EmptyCall == Idle \in Call /\ Idle.name = Nobody /\ Idle.at = "idle"
  BY DEF Idle, Call, CallPlaces, NoRole

\* One call is replaced by another that follows it.
LEMMA OneFollows ==
  ASSUME IInv, NEW c \in Calls, NEW x \in Call, call' = [call EXCEPT ![c] = x],
         UNCHANGED <<user, maker, invite, sshkey, request>>, outdated \ {c} \subseteq outdated',
         \/ x.name = Nobody
         \/ x.name = call[c].name /\ x.role = call[c].role /\ outdated' = outdated
         \/ x.name \in Users /\ user[x.name] # Nobody /\ x.role = user[x.name],
         x.at \in Shown => x.invite \in Invites /\ invite[x.invite] # Nobody
  PROVE  CallsFollow
<1>1. \A d \in Calls : call'[d] = IF d = c THEN x ELSE call[d]
  BY DEF IInv, AccountTypes
<1>2. call' \in [Calls -> Call]
  BY DEF IInv, AccountTypes
<1>3. QED
  <2>1. ASSUME NEW d \in Calls, d # c
        PROVE  call'[d] = call[d] /\ (d \in outdated => d \in outdated')
    BY <1>1, <2>1
  <2>2. /\ UNCHANGED <<user, maker, invite>>
        /\ sshkey' \in [SshKeys -> Users \cup {Nobody}]
        /\ request' \in [Requests -> Request \cup {Nobody}]
    BY DEF IInv, AccountTypes
  <2>3. \A d \in Calls : call[d].at \in Shown => call[d].invite \in Invites /\ invite[call[d].invite] # Nobody
    BY DEF IInv, Known
  <2>4. c \in Calls /\ call'[c] = x
    BY <1>1
  <2>5. \/ call'[c].name = Nobody
        \/ /\ call'[c].name = call[c].name /\ call'[c].role = call[c].role
           /\ c \in outdated => c \in outdated'
        \/ /\ call'[c].name \in Users /\ user[call'[c].name] # Nobody
           /\ call'[c].role = user[call'[c].name]
    BY <2>4
  <2>6. call'[c].at \in Shown => call'[c].invite \in Invites /\ invite[call'[c].invite] # Nobody
    BY <2>4
  <2> QED
    BY <1>2, <2>1, <2>2, <2>3, <2>5, <2>6 DEF CallsFollow

\* A call that ends.
LEMMA EndFollows ==
  ASSUME IInv, NEW c \in Calls, call' = [call EXCEPT ![c] = Idle],
         UNCHANGED <<user, maker, invite, sshkey, request>>, outdated \ {c} \subseteq outdated'
  PROVE  CallsFollow
  BY EmptyCall, OneFollows DEF Shown

\* Login, with the limiter before it.
LEMMA LoginFollows ==
  ASSUME IInv, NEW c \in Calls, NEW s, NEW n \in Users, Login(c, s, n)
  PROVE  CallsFollow
<1>1. CASE user[n] = Nobody
  BY <1>1, EndFollows DEF Login
<1>2. CASE user[n] # Nobody
  <2> DEFINE x == [Idle EXCEPT !.at = "hashing", !.name = n, !.role = user[n]]
  <2>1. user[n] \in Roles
    BY <1>2 DEF IInv, AccountTypes
  <2>2. Idle \in Call
    BY EmptyCall
  <2>3. x \in Call /\ x.name = n /\ x.role = user[n] /\ x.at \notin Shown
    BY <2>1, <2>2 DEF Call, CallPlaces, Shown
  <2>4. /\ call' = [call EXCEPT ![c] = x]
        /\ UNCHANGED <<user, maker, invite, sshkey, request, outdated>>
    BY <1>2 DEF Login
  <2> HIDE DEF x
  <2>5. QED
    BY <1>2, <2>3, <2>4, OneFollows
<1>3. QED
  BY <1>1, <1>2

\* The pin of an invitation that is there.
LEMMA PinFollows ==
  ASSUME IInv, NEW c \in Calls, NEW v \in Invites, JoinPin(c, v)
  PROVE  CallsFollow
<1> DEFINE x == [Idle EXCEPT !.at = "pinned", !.invite = v]
<1>1. Idle \in Call /\ Idle.name = Nobody
  BY EmptyCall
<1>2. x \in Call /\ x.name = Nobody /\ x.invite = v
  BY <1>1 DEF Call, CallPlaces, Shown
<1>3. /\ call' = [call EXCEPT ![c] = x] /\ invite[v] # Nobody
      /\ UNCHANGED <<user, maker, invite, sshkey, request, outdated>>
  BY DEF JoinPin
<1> HIDE DEF x
<1>4. QED
  BY <1>2, <1>3, OneFollows

\* The handler of a redemption takes the time.
LEMMA BeginFollows ==
  ASSUME IInv, NEW c \in Calls, RedeemBegins(c)
  PROVE  CallsFollow
<1> DEFINE x == [call[c] EXCEPT !.at = "redeeming"]
<1>1. call[c] \in Call /\ call[c].at \in Shown
  BY DEF IInv, AccountTypes, RedeemBegins, At, Shown
<1>2. x \in Call /\ x.name = call[c].name /\ x.role = call[c].role /\ x.invite = call[c].invite
  BY <1>1 DEF Call, CallPlaces, Shown
<1>3. x.invite \in Invites /\ invite[x.invite] # Nobody
  BY <1>1, <1>2 DEF IInv, Known
<1>4. /\ call' = [call EXCEPT ![c] = x]
      /\ UNCHANGED <<user, maker, invite, sshkey, request, outdated>>
  BY DEF RedeemBegins
<1> HIDE DEF x
<1> QED
  BY <1>2, <1>3, <1>4, OneFollows

\* A call moves on with what it has read.
LEMMA MoveFollows ==
  ASSUME IInv, NEW c \in Calls, Issue(c) \/ SaveToken(c) \/ SaveProfile(c)
  PROVE  CallsFollow
<1>1. PICK p \in {"token", "saved", "joined"} : call' = [call EXCEPT ![c] = [call[c] EXCEPT !.at = p]]
  BY DEF Issue, SaveToken, SaveProfile
<1> DEFINE x == [call[c] EXCEPT !.at = p]
<1>2. call[c] \in Call
  BY DEF IInv, AccountTypes
<1>3. x \in Call /\ x.name = call[c].name /\ x.role = call[c].role /\ x.at \notin Shown
  BY <1>2 DEF Call, CallPlaces, Shown
<1>4. /\ call' = [call EXCEPT ![c] = x]
      /\ UNCHANGED <<user, maker, invite, sshkey, request, outdated>>
  BY <1>1 DEF Issue, SaveToken, SaveProfile
<1> HIDE DEF x
<1>5. QED
  BY <1>3, <1>4, OneFollows

\* Everything else that leaves users and invitations alone.
RestStep ==
  \/ Stop \/ UNCHANGED accountVars
  \/ \E v \in Invites : InvitationExpires(v)
  \/ \E s \in Sources : WindowEnds(s)
  \/ \E c \in Calls : RedeemFails(c) \/ NotIssued(c) \/ TokenExpires(c)
  \/ \E q \in Requests :
       \/ RequestFails(q)
       \/ \E m \in Administered : AskLocally(q, m) \/ \E c \in Calls : Ask(q, c, m)
       \/ \E k \in SshKeys : AddSshKey(q, k) \/ DeleteSshKey(q, k)

\* A request that is let in, answered or lost, with what it does to keys.
LEMMA RequestTypes ==
  ASSUME IInv, NEW q \in Requests,
         \/ RequestFails(q)
         \/ \E m \in Administered : AskLocally(q, m) \/ \E c \in Calls : Ask(q, c, m)
         \/ \E k \in SshKeys : AddSshKey(q, k) \/ DeleteSshKey(q, k)
  PROVE  /\ UNCHANGED <<user, maker, admins, invite, outdated, call>>
         /\ sshkey' \in [SshKeys -> Users \cup {Nobody}]
         /\ request' \in [Requests -> Request \cup {Nobody}]
<1>1. CASE RequestFails(q)
  BY <1>1 DEF RequestFails, Answers, IInv, AccountTypes
<1>2. ASSUME NEW m \in Administered, AskLocally(q, m) \/ \E c \in Calls : Ask(q, c, m)
      PROVE  /\ UNCHANGED <<user, maker, admins, invite, outdated, call, sshkey>>
             /\ request' \in [Requests -> Request \cup {Nobody}]
  <2>1. PICK b \in Calls \cup {Nobody} : request' = [request EXCEPT ![q] = [method |-> m, by |-> b]]
    BY <1>2 DEF AskLocally, Ask
  <2>2. [method |-> m, by |-> b] \in Request
    BY DEF Request
  <2>3. QED
    BY <1>2, <2>1, <2>2 DEF AskLocally, Ask, IInv, AccountTypes
<1>3. ASSUME NEW k \in SshKeys, AddSshKey(q, k) \/ DeleteSshKey(q, k)
      PROVE  /\ UNCHANGED <<user, maker, admins, invite, outdated, call>>
             /\ sshkey' \in [SshKeys -> Users \cup {Nobody}]
             /\ request' \in [Requests -> Request \cup {Nobody}]
  <2>1. request[q] \in Request /\ request[q].by \in Calls
    BY <1>3 DEF AddSshKey, DeleteSshKey, Asked, IInv, AccountTypes, Request
  <2>2. call[request[q].by].name \in Users \cup {Nobody}
    BY <2>1 DEF IInv, AccountTypes, Call
  <2>3. request' \in [Requests -> Request \cup {Nobody}]
    BY <1>3 DEF AddSshKey, DeleteSshKey, Answers, IInv, AccountTypes
  <2>4. sshkey' \in [SshKeys -> Users \cup {Nobody}]
    BY <1>3, <2>2 DEF AddSshKey, DeleteSshKey, IInv, AccountTypes
  <2>5. QED
    BY <1>3, <2>3, <2>4 DEF AddSshKey, DeleteSshKey, Answers
<1>4. QED
  BY <1>1, <1>2, <1>3 DEF IInv, AccountTypes

LEMMA RestFollows == ASSUME IInv, RestStep PROVE CallsFollow
<1>1. CASE Stop
  <2>1. \A c \in Calls : \/ call'[c] = Idle
                         \/ call'[c] = call[c] /\ (c \in outdated => c \in outdated')
    BY <1>1 DEF Stop
  <2>2. call' \in [Calls -> Call] /\ request' \in [Requests -> Request \cup {Nobody}]
    BY <1>1, EmptyCall DEF Stop, IInv, AccountTypes
  <2>3. UNCHANGED <<user, maker, invite, sshkey>>
    BY <1>1 DEF Stop
  <2>4. QED
    BY <2>1, <2>2, <2>3, EmptyCall DEF CallsFollow, IInv, AccountTypes, Known, Shown
<1>2. ASSUME UNCHANGED <<user, maker, invite, outdated, call>>,
             sshkey' \in [SshKeys -> Users \cup {Nobody}],
             request' \in [Requests -> Request \cup {Nobody}]
      PROVE  CallsFollow
  BY <1>2 DEF CallsFollow, IInv, AccountTypes, Known, At
<1>3. ASSUME UNCHANGED <<user, maker, invite, outdated, call, sshkey, request>> PROVE CallsFollow
  BY <1>2, <1>3 DEF IInv, AccountTypes
<1>4. ASSUME NEW c \in Calls, RedeemFails(c) \/ NotIssued(c) PROVE CallsFollow
  <2>1. call' = [call EXCEPT ![c] = Idle] /\ outdated' = outdated \ {c}
    BY <1>4 DEF RedeemFails, NotIssued, GivesUp
  <2>2. UNCHANGED <<user, maker, invite, sshkey, request>>
    BY <1>4 DEF RedeemFails, NotIssued, GivesUp
  <2>3. QED
    BY <2>1, <2>2, EndFollows
<1>5. QED
  BY <1>1, <1>2, <1>3, <1>4, RequestTypes
     DEF RestStep, accountVars, InvitationExpires, TokenExpires, Expires, WindowEnds

-----------------------------------------------------------------------------
(* Users and invitations.                                                  *)

\* A user is created where there was none, by CreateUser or the bootstrap.
LEMMA NewUserKeeps ==
  ASSUME IInv, NEW n \in Users, NEW r \in Roles, user[n] = Nobody,
         user' = [user EXCEPT ![n] = r], UNCHANGED <<maker, invite, sshkey, call, outdated>>,
         request' \in [Requests -> Request \cup {Nobody}]
  PROVE  IInv'
<1>1. \A m \in Users : user'[m] = IF m = n THEN r ELSE user[m]
  BY DEF IInv, AccountTypes
<1>2. \A c \in Calls : call[c].name \in Users \cup {Nobody} /\ call[c].name # n
  BY DEF IInv, Known, AccountTypes, Call
<1>3. AccountTypes'
  BY DEF IInv, AccountTypes
<1>4. r # Nobody
  OBVIOUS
<1>5. Known' /\ Made' /\ Consumed'
  BY <1>1, <1>2, <1>4 DEF IInv, Known, At, Made, Consumed
<1>6. TokensMatchRole'
  BY <1>1, <1>2 DEF IInv, TokensMatchRole
<1>7. QED
  BY <1>3, <1>5, <1>6 DEF IInv

\* The role of a user changes: whoever has read it is outdated.
LEMMA RoleKeeps ==
  ASSUME IInv, NEW q \in Requests, NEW n \in Users, NEW r \in Roles, SetUserRole(q, n, r)
  PROVE  IInv'
<1>1. /\ user' = [user EXCEPT ![n] = r] /\ UNCHANGED <<maker, invite, sshkey, call>>
      /\ outdated' = outdated \cup {c \in Calls : call[c].name = n}
      /\ request' \in [Requests -> Request \cup {Nobody}]
  BY DEF SetUserRole, Write, Answers, IInv, AccountTypes
<1>2. \A m \in Users : user'[m] = IF m = n THEN r ELSE user[m]
  BY <1>1 DEF IInv, AccountTypes
<1>3. AccountTypes'
  BY <1>1 DEF IInv, AccountTypes
<1>4. r # Nobody /\ \A c \in Calls : call[c].name \in Users \cup {Nobody}
  BY DEF IInv, AccountTypes, Call
<1>5. Known' /\ Made' /\ Consumed'
  BY <1>1, <1>2, <1>4 DEF IInv, Known, At, Made, Consumed
<1>6. TokensMatchRole'
  BY <1>1, <1>2, <1>4 DEF IInv, TokensMatchRole
<1>7. QED
  BY <1>3, <1>5, <1>6 DEF IInv

\* An invitation is created where there was none, or an open one is revoked.
LEMMA InvitationKeeps ==
  ASSUME IInv, NEW v \in Invites, NEW i \in Invitation, i.state # "consumed",
         invite[v] # Nobody => invite[v].state = "open",
         invite' = [invite EXCEPT ![v] = i],
         UNCHANGED <<user, maker, sshkey, call, outdated>>,
         request' \in [Requests -> Request \cup {Nobody}]
  PROVE  IInv'
<1>1. \A w \in Invites : invite'[w] = IF w = v THEN i ELSE invite[w]
  BY DEF IInv, AccountTypes
<1>2. i # Nobody
  OBVIOUS
<1>3. AccountTypes'
  BY DEF IInv, AccountTypes
<1>4. Known' /\ TokensMatchRole'
  BY <1>1, <1>2 DEF IInv, Known, At, TokensMatchRole
<1>5. \A n \in Users : maker[n] # v /\ maker[n] \in Invites \cup {Nobody}
  BY DEF IInv, Made, AccountTypes
<1>6. Made' /\ Consumed'
  BY <1>1, <1>5 DEF IInv, Made, Consumed
<1>7. QED
  BY <1>3, <1>4, <1>6 DEF IInv

\* The transaction of a redemption makes the user and consumes the invitation at once.
LEMMA RedeemKeeps ==
  ASSUME IInv, NEW c \in Calls, Redeem(c)
  PROVE  IInv' /\ Redeems
<1> DEFINE v == call[c].invite
           n == invite[v].name
           r == invite[v].role
           i == [invite[v] EXCEPT !.state = "consumed"]
           x == [at |-> "committed", name |-> n, role |-> r, invite |-> v]
<1>1. v \in Invites /\ invite[v] # Nobody
  BY DEF IInv, Known, Redeem, At, Shown
<1>2. invite[v] \in Invitation
  BY <1>1 DEF IInv, AccountTypes
<1>3. n \in Users /\ r \in Roles /\ r # Nobody
  BY <1>2 DEF Invitation
<1>4. i \in Invitation /\ i.name = n /\ i.state = "consumed"
  BY <1>2 DEF Invitation
<1>5. i # Nobody
  BY <1>4
<1>6. x \in Call /\ x.name = n /\ x.role = r /\ x.at \notin Shown
  BY <1>1, <1>3 DEF Call, CallPlaces, Shown
<1>7. /\ user[n] = Nobody /\ invite[v].state = "open"
      /\ invite' = [invite EXCEPT ![v] = i]
      /\ user' = [user EXCEPT ![n] = r]
      /\ maker' = [maker EXCEPT ![n] = v]
      /\ call' = [call EXCEPT ![c] = x]
      /\ UNCHANGED <<sshkey, outdated, request>>
  BY DEF Redeem, Redeemed, Write
<1> HIDE DEF v, n, r, i, x
<1>8. AccountTypes'
  BY <1>1, <1>3, <1>4, <1>6, <1>7 DEF IInv, AccountTypes
<1>9. /\ \A m \in Users : /\ user'[m] = IF m = n THEN r ELSE user[m]
                          /\ maker'[m] = IF m = n THEN v ELSE maker[m]
      /\ \A w \in Invites : invite'[w] = IF w = v THEN i ELSE invite[w]
      /\ \A d \in Calls : call'[d] = IF d = c THEN x ELSE call[d]
  BY <1>7 DEF IInv, AccountTypes
<1>10. \A d \in Calls : call[d].name \in Users \cup {Nobody} /\ call[d].name # n
  BY <1>3, <1>7 DEF IInv, Known, AccountTypes, Call
<1>11. \A m \in Users : maker[m] # v /\ maker[m] \in Invites \cup {Nobody}
  BY <1>1, <1>7 DEF IInv, Made, AccountTypes
<1>12. \A w \in Invites : invite[w] # Nobody /\ invite[w].state = "consumed"
                            => invite[w].name # n /\ invite[w].name \in Users
  BY <1>1, <1>3, <1>7 DEF IInv, Made, Consumed, AccountTypes, Invitation
<1>13. Known'
  BY <1>3, <1>5, <1>6, <1>9, <1>10 DEF IInv, Known, At
<1>14. Made'
  BY <1>1, <1>3, <1>4, <1>5, <1>9, <1>11 DEF IInv, Made
<1>15. Consumed'
  BY <1>3, <1>4, <1>9, <1>12 DEF IInv, Consumed
<1>16. TokensMatchRole'
  BY <1>3, <1>6, <1>7, <1>9, <1>10 DEF IInv, TokensMatchRole
<1>17. Redeems
  <2>1. invite'[v].state = "consumed" /\ user[n] = Nobody /\ user'[n] = r
    BY <1>1, <1>3, <1>4, <1>7, <1>9
  <2>2. \A m \in Users \ {n} : user'[m] = user[m]
    BY <1>9
  <2>3. QED
    BY <1>1, <1>7, <2>1, <2>2 DEF Redeems, n, r
<1>18. QED
  BY <1>8, <1>13, <1>14, <1>15, <1>16, <1>17 DEF IInv

-----------------------------------------------------------------------------
(* The invariant.                                                          *)

\* It holds of the empty tables.
LEMMA InitIInv == AccountsInit => IInv
<1> SUFFICES ASSUME AccountsInit PROVE IInv
  OBVIOUS
<1>1. AccountTypes
  BY EmptyCall DEF AccountsInit, AccountTypes
<1>2. Known
  BY EmptyCall DEF AccountsInit, Known, Shown
<1>3. Made /\ Consumed
  BY DEF AccountsInit, Made, Consumed
<1>4. TokensMatchRole
  BY EmptyCall DEF AccountsInit, TokensMatchRole
<1>5. QED
  BY <1>1, <1>2, <1>3, <1>4 DEF IInv

\* No call, and no loss of time or process, breaks it.
LEMMA NextIInv == IInv /\ [AccountsNext]_accountVars => IInv'
<1> SUFFICES ASSUME IInv, [AccountsNext]_accountVars PROVE IInv'
  OBVIOUS
<1>1. CASE RestStep
  BY <1>1, RestFollows, FollowKeeps
<1>2. ASSUME NEW c \in Calls, RedeemBegins(c) \/ Issue(c) \/ SaveToken(c) \/ SaveProfile(c)
      PROVE  IInv'
  BY <1>2, BeginFollows, MoveFollows, FollowKeeps
<1>3. ASSUME NEW c \in Calls, NEW s \in Sources, NEW n \in Users, Login(c, s, n) PROVE IInv'
  BY <1>3, LoginFollows, FollowKeeps
<1>4. ASSUME NEW c \in Calls, NEW v \in Invites, JoinPin(c, v) PROVE IInv'
  BY <1>4, PinFollows, FollowKeeps
<1>5. ASSUME NEW c \in Calls, Redeem(c) PROVE IInv'
  BY <1>5, RedeemKeeps
<1>6. CASE Start
  <2>1. CASE UNCHANGED <<user, admins>>
    <3>1. UNCHANGED <<user, maker, invite, sshkey, outdated, call, request>>
      BY <1>6, <2>1 DEF Start
    <3>2. QED
      BY <3>1, FollowKeeps DEF CallsFollow, IInv, AccountTypes, Known, At
  <2>2. CASE (\A n \in Users : user[n] = Nobody) /\ user' = [user EXCEPT ![First] = Admin]
    BY <1>6, <2>2, NewUserKeeps DEF Start, IInv, AccountTypes
  <2>3. QED
    BY <1>6, <2>1, <2>2 DEF Start, Write
<1>7. ASSUME NEW q \in Requests, NEW n \in Users, NEW r \in Roles, CreateUser(q, n, r) PROVE IInv'
  <2>1. request' \in [Requests -> Request \cup {Nobody}]
    BY <1>7 DEF CreateUser, Answers, IInv, AccountTypes
  <2>2. QED
    BY <1>7, <2>1, NewUserKeeps DEF CreateUser, Write, Answers
<1>8. ASSUME NEW q \in Requests, NEW n \in Users, NEW r \in Roles, SetUserRole(q, n, r) PROVE IInv'
  BY <1>8, RoleKeeps
<1>9. ASSUME NEW q \in Requests, NEW n \in Users, NEW r \in Roles, NEW v \in Invites,
             CreateClientInvitation(q, v, n, r)
      PROVE  IInv'
  <2> DEFINE i == [name |-> n, role |-> r, state |-> "open"]
  <2>1. i \in Invitation /\ i.state # "consumed"
    BY DEF Invitation
  <2>2. /\ invite' = [invite EXCEPT ![v] = i] /\ invite[v] = Nobody
        /\ UNCHANGED <<user, maker, sshkey, call, outdated>>
        /\ request' \in [Requests -> Request \cup {Nobody}]
    BY <1>9 DEF CreateClientInvitation, Answers, IInv, AccountTypes
  <2> HIDE DEF i
  <2>3. QED
    BY <2>1, <2>2, InvitationKeeps
<1>10. ASSUME NEW q \in Requests, NEW v \in Invites, RevokeClientInvitation(q, v) PROVE IInv'
  <2> DEFINE i == [invite[v] EXCEPT !.state = "revoked"]
  <2>1. invite[v] \in Invitation
    BY <1>10 DEF IInv, AccountTypes, RevokeClientInvitation
  <2>2. i \in Invitation /\ i.state # "consumed"
    BY <2>1 DEF Invitation
  <2>3. /\ invite' = [invite EXCEPT ![v] = i] /\ invite[v].state = "open"
        /\ UNCHANGED <<user, maker, sshkey, call, outdated>>
        /\ request' \in [Requests -> Request \cup {Nobody}]
    BY <1>10 DEF RevokeClientInvitation, Answers, IInv, AccountTypes
  <2> HIDE DEF i
  <2>4. QED
    BY <2>2, <2>3, InvitationKeeps
<1>11. QED
  BY <1>1, <1>2, <1>3, <1>4, <1>5, <1>6, <1>7, <1>8, <1>9, <1>10
     DEF AccountsNext, Administer, RestStep

\* It holds throughout.
LEMMA IInvAlways == AccountsSpec => []IInv
  BY InitIInv, NextIInv, PTL DEF AccountsSpec

-----------------------------------------------------------------------------
(* Who administers.                                                        *)

Named == Issued \cup {"hashing", "committed"}

\* Who holds Admin, in the table, in a token or behind a request, has had it in the table.
Trusted ==
  /\ \A n \in Users : user[n] = Admin => n \in admins
  /\ \A c \in Calls : call[c].at \in Named => call[c].name # Nobody
  /\ \A c \in Calls : call[c].name # Nobody /\ call[c].role = Admin => call[c].name \in admins
  /\ \A q \in Requests : request[q] # Nobody /\ request[q].by # Nobody =>
       call[request[q].by].at \in Issued /\ call[request[q].by].role = Admin

\* The calls that administer the fleet need Admin in the token, whatever the endpoint.
LEMMA NeedsAdmin ==
  ASSUME NEW c \in Calls, call[c] \in Call, NEW m \in Administered, Admitted(c, m)
  PROVE  call[c].at \in Issued /\ call[c].role = Admin
<1>1. call[c].role \in {0, 1, 2, 3}
  BY DEF Call, Viewer, Operator, Admin, NoRole
<1>2. Live(c) /\ MethodAllowed(m, call[c].role)
  BY DEF Admitted, EndpointUnary, AuthenticateFleet, AuthMethods, EnrollmentMethods, Administered
<1>3. m \notin Reads /\ m \notin Operations
  BY DEF Reads, Operations, Administered
<1>4. call[c].role >= Admin
  BY <1>2, <1>3 DEF MethodAllowed
<1>5. QED
  BY <1>1, <1>2, <1>4 DEF Admin, Live

\* Rows of users are written together with the history of administrators.
LEMMA AdminsGrow ==
  ASSUME IInv, Trusted, [AccountsNext]_accountVars
  PROVE  admins \subseteq admins' /\ \A n \in Users : user'[n] = Admin => n \in admins'
<1>1. ASSUME UNCHANGED <<user, admins>>
      PROVE  admins \subseteq admins' /\ \A n \in Users : user'[n] = Admin => n \in admins'
  BY <1>1 DEF Trusted
<1>2. ASSUME NEW m \in Users, NEW r, Write(m, r)
      PROVE  admins \subseteq admins' /\ \A n \in Users : user'[n] = Admin => n \in admins'
  BY <1>2 DEF Write, Trusted, IInv, AccountTypes
<1>3. ASSUME NEW c \in Calls, Redeem(c) PROVE \E m \in Users, r \in Roles : Write(m, r)
  <2>1. invite[call[c].invite] \in Invitation
    BY <1>3 DEF Redeem, IInv, Known, AccountTypes, At, Shown
  <2>2. QED
    BY <1>3, <2>1 DEF Redeem, Redeemed, Invitation
<1>4. \/ UNCHANGED <<user, admins>>
      \/ \E m \in Users, r \in Roles : Write(m, r)
      \/ \E c \in Calls : Redeem(c)
  BY DEF AccountsNext, accountVars, Administer, Start, Stop, InvitationExpires, TokenExpires, Expires,
         WindowEnds, Login, JoinPin, RedeemBegins, RedeemFails, NotIssued, GivesUp, Issue,
         SaveToken, SaveProfile,
         RequestFails, AskLocally, Ask, CreateUser, SetUserRole, CreateClientInvitation,
         RevokeClientInvitation, AddSshKey, DeleteSshKey
<1>5. QED
  BY <1>1, <1>2, <1>3, <1>4

\* What a step makes of a call: it is not made, or shows an invitation; it is as it was, but for
\* its place; or it has just read the role of a user.
CallSteps(c) ==
  \/ call[c].at \notin Issued /\ call'[c].at \notin Named /\ call'[c].name = Nobody
  \/ /\ call'[c].name = call[c].name /\ call'[c].role = call[c].role
     /\ call[c].at \in Issued => call'[c].at \in Issued
     /\ call'[c].at \in Named => call[c].at \in Named
  \/ /\ call[c].at \notin Issued
     /\ call'[c].name \in Users /\ call'[c].role = user'[call'[c].name]

LEMMA CallsStep ==
  ASSUME IInv, [AccountsNext]_accountVars, NEW c \in Calls
  PROVE  CallSteps(c)
<1>1. ASSUME UNCHANGED call PROVE CallSteps(c)
  BY <1>1 DEF CallSteps
<1>2. CASE Stop
  <2>1. call'[c] = call[c] \/ (call'[c] = Idle /\ call[c].at \in {"hashing", "redeeming", "committed"})
    BY <1>2 DEF Stop, At
  <2>2. QED
    BY <2>1, EmptyCall DEF CallSteps, Issued, Named
<1>3. ASSUME NEW d \in Calls, NEW s \in Sources, NEW n \in Users, Login(d, s, n)
      PROVE  CallSteps(c)
  <2>1. CASE c # d
    BY <1>3, <2>1 DEF Login, CallSteps, IInv, AccountTypes
  <2>2. CASE c = d /\ user[n] = Nobody
    <3>1. call'[c] = Idle /\ call[c].at = "idle"
      BY <1>3, <2>2 DEF Login, At, IInv, AccountTypes
    <3>2. QED
      BY <3>1, EmptyCall DEF CallSteps, Issued, Named
  <2>3. CASE c = d /\ user[n] # Nobody
    <3>1. /\ call'[c] = [Idle EXCEPT !.at = "hashing", !.name = n, !.role = user[n]]
          /\ call[c].at = "idle" /\ user' = user
      BY <1>3, <2>3 DEF Login, At, IInv, AccountTypes
    <3>2. call'[c].name = n /\ call'[c].role = user[n]
      BY <3>1 DEF Idle
    <3>3. QED
      BY <3>1, <3>2 DEF CallSteps, Issued
  <2>4. QED
    BY <2>1, <2>2, <2>3
<1>4. ASSUME NEW d \in Calls, NEW v \in Invites, JoinPin(d, v) PROVE CallSteps(c)
  <2>1. CASE c # d
    BY <1>4, <2>1 DEF JoinPin, CallSteps, IInv, AccountTypes
  <2>2. CASE c = d
    <3>1. call'[c] = [Idle EXCEPT !.at = "pinned", !.invite = v] /\ call[c].at = "idle"
      BY <1>4, <2>2 DEF JoinPin, At, IInv, AccountTypes
    <3>2. call'[c].name = Nobody /\ call'[c].at = "pinned"
      BY <3>1 DEF Idle
    <3>3. QED
      BY <3>1, <3>2 DEF CallSteps, Issued, Named
  <2>3. QED
    BY <2>1, <2>2
<1>5. ASSUME NEW d \in Calls, RedeemFails(d) \/ NotIssued(d) PROVE CallSteps(c)
  <2>1. CASE c # d
    BY <1>5, <2>1 DEF RedeemFails, NotIssued, GivesUp, CallSteps, IInv, AccountTypes
  <2>2. CASE c = d
    <3>1. call'[c] = Idle /\ call[c].at \in {"pinned", "redeeming", "hashing", "committed"}
      BY <1>5, <2>2 DEF RedeemFails, NotIssued, GivesUp, At, IInv, AccountTypes
    <3>2. QED
      BY <3>1, EmptyCall DEF CallSteps, Issued, Named
  <2>3. QED
    BY <2>1, <2>2
<1>6. ASSUME NEW d \in Calls, Redeem(d) PROVE CallSteps(c)
  <2>1. CASE c # d
    BY <1>6, <2>1 DEF Redeem, Redeemed, CallSteps, IInv, AccountTypes
  <2>2. CASE c = d
    <3> DEFINE i == invite[call[c].invite]
    <3>1. i \in Invitation
      BY <1>6, <2>2 DEF Redeem, IInv, Known, AccountTypes, At, Shown
    <3>2. /\ call'[c] = [at |-> "committed", name |-> i.name, role |-> i.role,
                         invite |-> call[c].invite]
          /\ call[c].at = "redeeming" /\ user' = [user EXCEPT ![i.name] = i.role]
      BY <1>6, <2>2 DEF Redeem, Redeemed, Write, At, IInv, AccountTypes
    <3>3. i.name \in Users
      BY <3>1 DEF Invitation
    <3>4. user'[i.name] = i.role
      BY <3>2, <3>3 DEF IInv, AccountTypes
    <3>5. call'[c].name = i.name /\ call'[c].role = i.role
      BY <3>2
    <3> HIDE DEF i
    <3>6. QED
      BY <3>2, <3>3, <3>4, <3>5 DEF CallSteps, Issued
  <2>3. QED
    BY <2>1, <2>2
<1>7. ASSUME NEW d \in Calls, Issue(d) \/ SaveToken(d) \/ SaveProfile(d) PROVE CallSteps(c)
  <2>1. CASE c # d
    BY <1>7, <2>1 DEF Issue, SaveToken, SaveProfile, CallSteps, IInv, AccountTypes
  <2>2. CASE c = d
    <3>1. PICK p \in Issued : call'[c] = [call[c] EXCEPT !.at = p]
      BY <1>7, <2>2 DEF Issue, SaveToken, SaveProfile, Issued, IInv, AccountTypes
    <3>2. call[c] \in Call
      BY DEF IInv, AccountTypes
    <3>3. call'[c].at = p /\ call'[c].name = call[c].name /\ call'[c].role = call[c].role
      BY <3>1, <3>2 DEF Call
    <3>4. call[c].at \in Named
      BY <1>7, <2>2 DEF Issue, SaveToken, SaveProfile, At, Named, Issued
    <3>5. QED
      BY <3>3, <3>4 DEF CallSteps
  <2>3. QED
    BY <2>1, <2>2
<1>10. ASSUME NEW d \in Calls, RedeemBegins(d) PROVE CallSteps(c)
  <2>1. CASE c # d
    BY <1>10, <2>1 DEF RedeemBegins, CallSteps, IInv, AccountTypes
  <2>2. CASE c = d
    <3>1. call'[c] = [call[c] EXCEPT !.at = "redeeming"] /\ call[c].at = "pinned" /\ call[c] \in Call
      BY <1>10, <2>2 DEF RedeemBegins, At, IInv, AccountTypes
    <3>2. call'[c].at = "redeeming" /\ call'[c].name = call[c].name /\ call'[c].role = call[c].role
      BY <3>1 DEF Call
    <3> QED
      BY <3>1, <3>2 DEF CallSteps, Issued, Named
  <2> QED
    BY <2>1, <2>2
<1>8. AccountsNext =>
        \/ UNCHANGED call \/ Stop
        \/ \E d \in Calls :
             \/ RedeemBegins(d) \/ RedeemFails(d) \/ NotIssued(d) \/ Redeem(d)
             \/ Issue(d) \/ SaveToken(d) \/ SaveProfile(d)
             \/ \E s \in Sources, n \in Users : Login(d, s, n)
             \/ \E v \in Invites : JoinPin(d, v)
  BY DEF AccountsNext, Administer, Start, InvitationExpires, TokenExpires, Expires, WindowEnds,
         RequestFails, AskLocally, Ask, CreateUser, SetUserRole, CreateClientInvitation,
         RevokeClientInvitation, AddSshKey, DeleteSshKey, Answers
<1>9. QED
  BY <1>1, <1>2, <1>3, <1>4, <1>5, <1>6, <1>7, <1>8, <1>10 DEF accountVars

\* A request is let in under a token of an administrator or through the socket; from then on
\* it is as it was, or no more.
LEMMA RequestsStep ==
  ASSUME IInv, [AccountsNext]_accountVars, NEW q \in Requests, request'[q] # Nobody
  PROVE  \/ request'[q] = request[q]
         \/ request'[q].by = Nobody
         \/ /\ request'[q].by \in Calls
            /\ call[request'[q].by].at \in Issued /\ call[request'[q].by].role = Admin
<1>1. ASSUME NEW p \in Requests, Answers(p) PROVE request'[q] = request[q]
  BY <1>1 DEF Answers, IInv, AccountTypes
<1>2. ASSUME NEW p \in Requests, NEW m \in Administered, AskLocally(p, m)
      PROVE  request'[q] = request[q] \/ request'[q].by = Nobody
  BY <1>2 DEF AskLocally, IInv, AccountTypes
<1>3. ASSUME NEW p \in Requests, NEW m \in Administered, NEW c \in Calls, Ask(p, c, m)
      PROVE  \/ request'[q] = request[q]
             \/ /\ request'[q].by \in Calls
                /\ call[request'[q].by].at \in Issued /\ call[request'[q].by].role = Admin
  <2>1. call[c].at \in Issued /\ call[c].role = Admin
    BY <1>3, NeedsAdmin DEF Ask, IInv, AccountTypes
  <2>2. request'[q] = request[q] \/ request'[q].by = c
    BY <1>3 DEF Ask, IInv, AccountTypes
  <2>3. QED
    BY <2>1, <2>2
<1>4. AccountsNext =>
        \/ UNCHANGED request \/ request' = [p \in Requests |-> Nobody]
        \/ \E p \in Requests :
             \/ Answers(p)
             \/ \E m \in Administered : AskLocally(p, m) \/ \E c \in Calls : Ask(p, c, m)
  BY DEF AccountsNext, Administer, Start, Stop, InvitationExpires, TokenExpires, Expires, WindowEnds,
         Login, JoinPin, RedeemBegins, Redeem, Redeemed, RedeemFails, NotIssued, GivesUp, Issue,
         SaveToken, SaveProfile, RequestFails, CreateUser, SetUserRole, CreateClientInvitation,
         RevokeClientInvitation, AddSshKey, DeleteSshKey
<1>5. QED
  BY <1>1, <1>2, <1>3, <1>4 DEF accountVars

LEMMA NextTrusted == IInv /\ IInv' /\ Trusted /\ [AccountsNext]_accountVars => Trusted'
<1> SUFFICES ASSUME IInv, IInv', Trusted, [AccountsNext]_accountVars PROVE Trusted'
  OBVIOUS
<1>1. admins \subseteq admins' /\ \A n \in Users : user'[n] = Admin => n \in admins'
  BY AdminsGrow
<1>2. \A c \in Calls : CallSteps(c)
  BY CallsStep
<1>3. \A c \in Calls : call'[c].at \in Named => call'[c].name # Nobody
  BY <1>2 DEF CallSteps, Trusted
<1>4. \A c \in Calls : call'[c].name # Nobody /\ call'[c].role = Admin => call'[c].name \in admins'
  BY <1>1, <1>2 DEF CallSteps, Trusted
<1>5. ASSUME NEW q \in Requests, request'[q] # Nobody, request'[q].by # Nobody
      PROVE  call'[request'[q].by].at \in Issued /\ call'[request'[q].by].role = Admin
  <2>1. request'[q].by \in Calls
    BY <1>5 DEF IInv, AccountTypes, Request
  <2>2. call[request'[q].by].at \in Issued /\ call[request'[q].by].role = Admin
    BY <1>5, RequestsStep DEF Trusted
  <2>3. QED
    BY <1>2, <2>1, <2>2 DEF CallSteps
<1>6. QED
  BY <1>1, <1>3, <1>4, <1>5 DEF Trusted

LEMMA TrustedAlways == AccountsSpec => []Trusted
<1>1. AccountsInit => Trusted
  <2> SUFFICES ASSUME AccountsInit PROVE Trusted
    OBVIOUS
  <2>1. \A n \in Users : user[n] # Admin
    BY DEF AccountsInit
  <2>2. \A c \in Calls : call[c] = Idle
    BY DEF AccountsInit
  <2>3. \A q \in Requests : request[q] = Nobody
    BY DEF AccountsInit
  <2>4. QED
    BY <2>1, <2>2, <2>3, EmptyCall DEF Trusted, Named, Issued
<1>2. QED
  BY <1>1, IInvAlways, NextTrusted, PTL DEF AccountsSpec

\* A request that is answered came from an administrator or through the socket.
LEMMA AnswerAdministers ==
  ASSUME IInv, Trusted, NEW q \in Requests, request[q] # Nobody, Answers(q),
         \A k \in SshKeys : sshkey'[k] # sshkey[k] =>
           request[q].by # Nobody /\ call[request[q].by].name \in {sshkey[k], sshkey'[k]}
  PROVE  Administers
<1>1. request'[q] = Nobody
  BY DEF Answers, IInv, AccountTypes
<1>2. ASSUME request[q].by # Nobody PROVE call[request[q].by].name \in admins
  <2>1. request[q].by \in Calls
    BY <1>2 DEF IInv, AccountTypes, Request
  <2>2. QED
    BY <1>2, <2>1 DEF Trusted, Named
<1>3. QED
  BY <1>1, <1>2 DEF Administers

\* What each step may change.
LEMMA Changes ==
  ASSUME IInv, Trusted, [AccountsNext]_accountVars
  PROVE  UNCHANGED <<user, invite, sshkey>> \/ Bootstraps \/ Redeems \/ Administers
<1>1. ASSUME NEW q \in Requests, NEW k \in SshKeys, AddSshKey(q, k) \/ DeleteSshKey(q, k)
      PROVE  Administers
  <2>1. request[q] # Nobody /\ request[q].by # Nobody /\ Answers(q)
    BY <1>1 DEF AddSshKey, DeleteSshKey, Asked
  <2>2. \A j \in SshKeys : sshkey'[j] # sshkey[j] =>
          call[request[q].by].name \in {sshkey[j], sshkey'[j]}
    BY <1>1 DEF AddSshKey, DeleteSshKey, IInv, AccountTypes
  <2>3. QED
    BY <2>1, <2>2, AnswerAdministers
<1>2. ASSUME NEW q \in Requests, NEW n \in Users, NEW r \in Roles,
             \/ CreateUser(q, n, r) \/ SetUserRole(q, n, r)
             \/ \E v \in Invites : CreateClientInvitation(q, v, n, r)
      PROVE  Administers
  BY <1>2, AnswerAdministers DEF CreateUser, SetUserRole, CreateClientInvitation, Asked
<1>3. ASSUME NEW q \in Requests, NEW v \in Invites, RevokeClientInvitation(q, v) PROVE Administers
  BY <1>3, AnswerAdministers DEF RevokeClientInvitation, Asked
<1>4. CASE Start
  BY <1>4 DEF Start, Write, Bootstraps, IInv, AccountTypes
<1>5. ASSUME NEW c \in Calls, Redeem(c) PROVE Redeems
  BY <1>5, RedeemKeeps
<1>6. AccountsNext =>
        \/ UNCHANGED <<user, invite, sshkey>> \/ Start
        \/ \E c \in Calls : Redeem(c)
        \/ \E q \in Requests :
             \/ \E k \in SshKeys : AddSshKey(q, k) \/ DeleteSshKey(q, k)
             \/ \E n \in Users, r \in Roles :
                  \/ CreateUser(q, n, r) \/ SetUserRole(q, n, r)
                  \/ \E v \in Invites : CreateClientInvitation(q, v, n, r)
             \/ \E v \in Invites : RevokeClientInvitation(q, v)
  BY DEF AccountsNext, Administer, Stop, InvitationExpires, TokenExpires, Expires, WindowEnds, Login,
         JoinPin, RedeemBegins, RedeemFails, NotIssued, GivesUp, Issue, SaveToken, SaveProfile,
         RequestFails,
         AskLocally, Ask
<1>7. QED
  BY <1>1, <1>2, <1>3, <1>4, <1>5, <1>6 DEF accountVars

-----------------------------------------------------------------------------
(* Theorems.                                                               *)

\* The transaction of RedeemClientInvitation consumes an invitation exactly when it makes the
\* user, whatever races with it.
THEOREM RedemptionIsWhole == AccountsSpec => []ConsumedIsUser
<1>1. IInv => ConsumedIsUser
  BY DEF IInv, AccountTypes, Invitation, Made, Consumed, ConsumedIsUser
<1>2. QED
  BY <1>1, IInvAlways, PTL

\* Login and Issue hand out the role the user has, but for a change after it was read.
THEOREM TokensCarryRole == AccountsSpec => []TokensMatchRole
<1>1. IInv => TokensMatchRole
  BY DEF IInv
<1>2. QED
  BY <1>1, IInvAlways, PTL

\* Whoever writes to users, invitations or keys was let in as an administrator, whatever has
\* expired or changed between the interceptor's check and the statement.
THEOREM AdministrationIsAdmins == AccountsSpec => AdministeredByAdmins
<1>1. IInv /\ Trusted /\ [AccountsNext]_accountVars
        => [UNCHANGED <<user, invite, sshkey>> \/ Bootstraps \/ Redeems \/ Administers]_accountVars
  BY Changes
<1>2. QED
  BY <1>1, IInvAlways, TrustedAlways, PTL DEF AccountsSpec, AdministeredByAdmins

=============================================================================
