----------------------------- MODULE MCControl -----------------------------
(***************************************************************************)
(* Instances of Identity and Accounts for TLC: who may connect, and who    *)
(* may call.  The two share no step, so a behaviour is one of a part that  *)
(* is chosen at its start: the states are the sum of theirs, not the       *)
(* product.  The facts of Access and CommandLine, which have no state, are *)
(* evaluated along.                                                        *)
(***************************************************************************)
EXTENDS Identity, Accounts, CommandLine, TLC

VARIABLE part

controlVars == <<part, identityVars, accountVars>>

ControlInit ==
  /\ part \in {"identity", "accounts"}
  /\ IdentityInit /\ AccountsInit

ControlNext ==
  /\ UNCHANGED part
  /\ \/ part = "identity" /\ IdentityNext /\ UNCHANGED accountVars
     \/ part = "accounts" /\ AccountsNext /\ UNCHANGED identityVars

ControlSpec == ControlInit /\ [][ControlNext]_controlVars

\* One invitation or token is past its expiry, two codes or certificates are: no step compares
\* the expiries of two of them but AuthorizeRenewal, of the two certificates of an identity.
FewLapse == Cardinality(stale) <= 1 /\ Cardinality(lapsed) <= 2

\* Joins and calls have the same names, so that one swap serves both.
Symmetry == Permutations(Joins) \cup Permutations(Codes)
=============================================================================
