----------------------------- MODULE MCOperators -----------------------------
(***************************************************************************)
(* Instances for TLC of what operators ask for: JobLifecycle, the jobs,    *)
(* and Dashboard, the terminal.  They share no step, so a behaviour is one *)
(* of a part that is chosen at its start: the states are the sum of        *)
(* theirs, not the product.                                                *)
(***************************************************************************)
EXTENDS MCJobLifecycle, Dashboard

VARIABLE part

operatorVars == <<part, vars, dashboardVars>>

OperatorsInit ==
  /\ part \in {"jobs", "dashboard"}
  /\ Init /\ DashboardInit
  \* One initial state of the parts that do not move.
  /\ part = "dashboard" \/ enrolled = {}
  /\ part = "jobs" \/ KeyOf = [j \in Jobs |-> k1]

OperatorsNext ==
  /\ UNCHANGED part
  /\ \/ part = "jobs" /\ Next /\ UNCHANGED dashboardVars
     \/ part = "dashboard" /\ DashboardNext /\ UNCHANGED vars

\* The agent that is last in every listing is the first to be there: those that follow shift it.
LastIsFirst == enrolled # {} => LastRank \in enrolled

OperatorsSpec == OperatorsInit /\ [][OperatorsNext]_operatorVars
=============================================================================
