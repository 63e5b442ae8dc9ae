---------------------------- MODULE MCValidator ----------------------------
(***************************************************************************)
(* Instances for TLC of the validator: AgentRegistry, whom it serves, and  *)
(* Startup, its process and files.  They share no step, so a behaviour is  *)
(* one of a part that is chosen at its start: the states are the sum of    *)
(* theirs, not the product.                                                *)
(***************************************************************************)
EXTENDS MCAgentRegistry, Startup

VARIABLE part

validatorVars == <<part, vars, startupVars>>

ValidatorInit ==
  /\ part \in {"registry", "startup"}
  /\ Init /\ StartupInit

ValidatorNext ==
  /\ UNCHANGED part
  /\ \/ part = "registry" /\ Next /\ UNCHANGED startupVars
     \/ part = "startup" /\ StartupNext /\ UNCHANGED vars

ValidatorSpec == ValidatorInit /\ [][ValidatorNext]_validatorVars
=============================================================================
