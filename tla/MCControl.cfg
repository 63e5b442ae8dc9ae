CONSTANTS
  Codes = {y1, y2}
  Joins = {x1, x2}
  Renewals = {r1}
  MinDelay = 1
  MaxDelay = 1
  None = None
  Users = {a, b}
  First = a
  Invites = {v1}
  Calls = {x1, x2}
  Roles = {1, 3}
  SshKeys = {s}
  Requests = {q}
  Sources = {p}
  Limit = 1
  Peer = {"client"}
  Nobody = Nobody
SPECIFICATION ControlSpec
SYMMETRY Symmetry
CONSTRAINT FewLapse
INVARIANTS
  CodesEnrollOnce
  StoredIsRegistered
  OnlineIsOneIdentity
  MixedTakesTwo
  ConsumedIsUser
  TokensMatchRole
PROPERTIES
  RevokedIsFinal
  AdministeredByAdmins
CHECK_DEADLOCK FALSE
