----------------------------- MODULE JobPromise -----------------------------
(***************************************************************************)
(* What a job is to the one who submitted it, with streams, queues,        *)
(* results in flight and crashes left out: the record the validator keeps  *)
(* and what really happened on the agent.  A job takes effect at most once,*)
(* no key takes effect twice, a job recorded as unknown has no effect now  *)
(* or later, and a recorded result is what happened and is never revised.  *)
(***************************************************************************)
CONSTANTS Jobs, Keys

VARIABLES KeyOf, record, effect

Results == {"succeeded", "failed", "timed_out", "rejected", "stopped"}

PromiseInit ==
  /\ KeyOf \in [Jobs -> Keys]
  /\ record = [j \in Jobs |-> "none"]
  /\ effect = [j \in Jobs |-> "none"]

\* A key is accepted once.
Accept(j) ==
  /\ \A k \in Jobs : KeyOf[k] = KeyOf[j] => record[k] = "none"
  /\ record' = [record EXCEPT ![j] = "dispatched"]
  /\ UNCHANGED <<KeyOf, effect>>

\* The agent begins, even when the record already says cancelled.
Start(j) ==
  /\ record[j] \in {"dispatched", "cancelled"} /\ effect[j] = "none"
  /\ effect' = [effect EXCEPT ![j] = "started"]
  /\ UNCHANGED <<KeyOf, record>>

\* It ends, or the agent turned it down, or was itself stopped, without starting it.
End(j, result) ==
  /\ \/ effect[j] = "started" /\ result # "rejected"
     \/ effect[j] = "none" /\ result \in {"rejected", "stopped"} /\ record[j] \in {"dispatched", "cancelled"}
  /\ effect' = [effect EXCEPT ![j] = result]
  /\ UNCHANGED <<KeyOf, record>>

\* The validator learns the result of a job it still waits for.
Learn(j) ==
  /\ record[j] = "dispatched" /\ effect[j] \in Results
  /\ record' = [record EXCEPT ![j] = effect[j]]
  /\ UNCHANGED <<KeyOf, effect>>

Cancel(j) ==
  /\ record[j] = "dispatched"
  /\ record' = [record EXCEPT ![j] = "cancelled"]
  /\ UNCHANGED <<KeyOf, effect>>

\* Nobody was told about the job.
GiveUp(j) ==
  /\ record[j] \in {"dispatched", "cancelled"} /\ effect[j] = "none"
  /\ record' = [record EXCEPT ![j] = "unknown"]
  /\ UNCHANGED <<KeyOf, effect>>

PromiseNext ==
  \E j \in Jobs :
    \/ Accept(j) \/ Start(j) \/ Learn(j) \/ Cancel(j) \/ GiveUp(j)
    \/ \E result \in Results : End(j, result)

PromiseSpec == PromiseInit /\ [][PromiseNext]_<<KeyOf, record, effect>>
=============================================================================
