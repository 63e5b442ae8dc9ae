------------------------------- MODULE Access -------------------------------
(***************************************************************************)
(* Which calls the validator lets in: the methods of its services, the     *)
(* action and role each needs (auth/service.go), the interceptors of the   *)
(* network server (auth/endpoints.go, stream.go, policy.go) and of the     *)
(* local socket (localcontrol), and the methods that the two command lines *)
(* send (clientapi/client.go, cmd/validator/local.go).                     *)
(*                                                                         *)
(* A peer is the set of endpoint policies whose address ranges it is in; a *)
(* caller is the role in its token, NoRole without exactly one that is     *)
(* signed and alive.                                                       *)
(***************************************************************************)
EXTENDS Naturals

NoRole == 0
Viewer == 1
Operator == 2
Admin == 3
Policies == {"enrollment", "agent", "client"}

EnrollmentMethods == {"Enroll", "Renew"}
AgentMethods == {"Connect", "OpenTunnel"}
AuthMethods == {"Login", "RedeemClientInvitation"}

\* The methods of FleetService: 32 calls and two streams.
FleetMethods == {"ListAgents", "GetAgent", "GetMetrics", "ListProcesses", "ListServices",
  "GetService", "StartService", "StopService", "RestartService", "ReadLogs", "PreviewCleanup",
  "RunCleanup", "Reboot", "Exec", "CancelJob", "PrepareSsh", "GetSshSession", "CloseSsh",
  "ListAudit", "CreateEnrollmentToken", "ListEnrollmentTokens", "RevokeEnrollmentToken",
  "RevokeAgent", "CreateUser", "ListUsers", "SetUserRole", "CreateClientInvitation",
  "ListClientInvitations", "RevokeClientInvitation", "AddSshKey", "ListSshKeys",
  "DeleteSshKey", "StreamJobOutput", "BridgeSsh"}
Methods == EnrollmentMethods \cup AgentMethods \cup AuthMethods \cup FleetMethods

-----------------------------------------------------------------------------
(* methodActions: what a method needs.                                     *)

Reads == {"ListAgents", "GetAgent", "GetMetrics", "StreamJobOutput", "ListAudit",
  "ListProcesses", "ListServices", "GetService", "ReadLogs"}
Operations == {"StartService", "StopService", "RestartService", "PreviewCleanup",
  "RunCleanup", "Reboot", "CancelJob", "PrepareSsh", "GetSshSession", "CloseSsh", "BridgeSsh"}
Administration == {"Exec", "CreateClientInvitation", "ListClientInvitations",
  "RevokeClientInvitation", "CreateEnrollmentToken", "ListEnrollmentTokens",
  "RevokeEnrollmentToken", "RevokeAgent", "CreateUser", "ListUsers", "SetUserRole",
  "AddSshKey", "ListSshKeys", "DeleteSshKey"}

MethodAllowed(m, role) ==
  \/ m \in Reads /\ role >= Viewer
  \/ m \in Operations /\ role >= Operator
  \/ m \in Administration /\ role >= Admin

AuthorizePeer(m, peer) ==
  \/ m \in EnrollmentMethods /\ "enrollment" \in peer
  \/ m \in AgentMethods /\ "agent" \in peer
  \/ m \in AuthMethods \cup FleetMethods /\ "client" \in peer

AuthenticateFleet(m, peer, role) == AuthorizePeer(m, peer) /\ MethodAllowed(m, role)

\* Calls that answer once.  Login, redemption, enrollment and renewal check their own proof.
EndpointUnary(m, peer, role) ==
  /\ AuthorizePeer(m, peer)
  /\ m \in AuthMethods \cup EnrollmentMethods \/ AuthenticateFleet(m, peer, role)

\* Streams.  Those of agents are left to the certificate, in their handlers.
StreamAdmits(m, peer, role) ==
  /\ AuthorizePeer(m, peer)
  /\ m \in AgentMethods \/ AuthenticateFleet(m, peer, role)

\* The socket has the fleet's methods; its interceptor makes every peer an administrator, but
\* it is for calls that answer once: BridgeSsh finds no claims and refuses.
LocalAdmits(m) == m \in FleetMethods \ {"BridgeSsh"}

-----------------------------------------------------------------------------
(* What the programs ask for.                                              *)

ClientCalls == {"ListAgents", "GetAgent", "GetMetrics", "ListServices", "GetService",
  "StartService", "StopService", "RestartService", "ReadLogs", "PreviewCleanup", "Reboot",
  "Exec", "StreamJobOutput", "CreateEnrollmentToken", "ListEnrollmentTokens",
  "RevokeEnrollmentToken", "ListUsers", "ListSshKeys", "AddSshKey", "DeleteSshKey", "ListAudit",
  "GetSshSession", "CloseSsh", "PrepareSsh", "BridgeSsh"}

LocalCalls == {"ListAgents", "GetAgent", "GetMetrics", "ListEnrollmentTokens",
  "RevokeEnrollmentToken", "RevokeAgent", "CreateEnrollmentToken", "ListAudit",
  "ListClientInvitations", "RevokeClientInvitation", "CreateClientInvitation", "CreateUser"}

-----------------------------------------------------------------------------
(* Facts about the tables, evaluated by every run of a module on top.      *)

\* The table of actions and the generated service agree: no method is without an action,
\* which would deny it to everybody, and no entry is misspelt.
ASSUME TableIsComplete == Reads \cup Operations \cup Administration = FleetMethods

\* Without a live token neither interceptor of the network lets a fleet method in, from
\* wherever; without an address in the endpoint's ranges neither lets anything in.
ASSUME NothingByDefault ==
  \A m \in Methods, peer \in SUBSET Policies :
    /\ EndpointUnary(m, peer, NoRole) \/ StreamAdmits(m, peer, NoRole) => m \notin FleetMethods
    /\ ~EndpointUnary(m, {}, Admin) /\ ~StreamAdmits(m, {}, Admin)

\* No program of the repository ever changes a role, cancels a job, lists processes or runs a
\* cleanup: the four are reached by their RPC alone.
ASSUME Unasked ==
  FleetMethods \ (ClientCalls \cup LocalCalls)
    = {"SetUserRole", "CancelJob", "ListProcesses", "RunCleanup"}
=============================================================================
