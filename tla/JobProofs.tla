----------------------------- MODULE JobProofs -----------------------------
(***************************************************************************)
(* Proofs about JobLifecycle for any number of jobs, keys, cancellations   *)
(* and streams.                                                            *)
(***************************************************************************)
EXTENDS JobLifecycle, FiniteSetTheorems, TLAPS

Message == [kind : {"job", "cancel"}, job : Jobs]
Result == [job : Jobs, state : Results]

JobTypes ==
  /\ KeyOf \in [Jobs -> Keys]
  /\ record \in [Jobs -> {"none", "dispatched", "cancelled", "unknown"} \cup Results]
  /\ submit \in [Jobs -> {"idle", "stored", "duplicate", "failed", "accepted", "offline",
                          "unavailable", "lost"}]
  /\ cancel \in [Cancels -> {"idle", "read", "sent", "error", "lost", "cancelled"} \cup Results]
  /\ target \in [Cancels -> Jobs \cup {NoJob}]
  /\ \A c \in Cancels : cancel[c] \in {"read", "sent"} => target[c] \in Jobs
  /\ stream \in [Streams -> {"new", "open", "ended"}]
  /\ down \in [Streams -> Seq(Message)]
  /\ up \in [Streams -> Seq(Result)]
  /\ running \in [Streams -> Jobs \cup {NoJob}]
  /\ effect \in [Jobs -> {"none", "started"} \cup Results]

\* What the place of a submission says of its row.
Rows ==
  \A j \in Jobs :
    /\ record[j] = "none" <=> submit[j] \in {"idle", "duplicate", "failed"}
    /\ record[j] = "unknown" => submit[j] = "unavailable"

\* The unique index.
OneRow ==
  \A j, k \in Jobs : KeyOf[j] = KeyOf[k] /\ record[j] # "none" /\ record[k] # "none" => j = k

\* Only a job whose dispatch was answered happens, and a recorded result is what happened.
Effects ==
  \A j \in Jobs :
    /\ effect[j] # "none" => submit[j] = "accepted"
    /\ record[j] \in Results => effect[j] = record[j]

JobAt(s, i, j) == i \in DOMAIN down[s] /\ down[s][i].kind = "job" /\ down[s][i].job = j

\* A job that was queued has not happened, and no other message carries it.
QueuedFresh ==
  \A s \in Streams, i \in Nat, j \in Jobs : JobAt(s, i, j) =>
    submit[j] = "accepted" /\ effect[j] = "none"

QueuedOnce ==
  \A s, t \in Streams, i, k \in Nat, j \in Jobs :
    JobAt(s, i, j) /\ JobAt(t, k, j) => s = t /\ i = k

\* A job that runs has been started, on one stream.
RunningOnce ==
  \A s, t \in Streams : running[s] # NoJob =>
    /\ effect[running[s]] = "started"
    /\ running[s] = running[t] => s = t

ResultAt(s, i, j) == i \in DOMAIN up[s] /\ up[s][i].job = j

UpFresh ==
  \A s \in Streams, i \in Nat, j \in Jobs : ResultAt(s, i, j) =>
    record[j] \in {"dispatched", "cancelled"} /\ up[s][i].state = effect[j]

UpOnce ==
  \A s, t \in Streams, i, k \in Nat, j \in Jobs :
    ResultAt(s, i, j) /\ ResultAt(t, k, j) => s = t /\ i = k

IInv == /\ JobTypes /\ Rows /\ OneRow /\ Effects /\ QueuedFresh /\ QueuedOnce
        /\ RunningOnce /\ UpFresh /\ UpOnce

USE JobAssumption
USE DEF server, links, agent

-----------------------------------------------------------------------------
(* Channels.                                                               *)

\* A receive takes the head: what is left keeps its order.
LEMMA TailIs ==
  ASSUME NEW S, NEW q \in Seq(S), q # <<>>
  PROVE  /\ Tail(q) \in Seq(S) /\ Head(q) \in S /\ 1 \in DOMAIN q /\ Head(q) = q[1]
         /\ \A i \in DOMAIN Tail(q) : i \in Nat /\ i # 0 /\ i + 1 \in DOMAIN q /\ Tail(q)[i] = q[i + 1]
  OBVIOUS

\* A send adds at the end.
LEMMA AppendIs ==
  ASSUME NEW S, NEW q \in Seq(S), NEW x \in S
  PROVE  /\ Append(q, x) \in Seq(S)
         /\ \A i \in DOMAIN Append(q, x) :
              \/ i \in DOMAIN q /\ Append(q, x)[i] = q[i]
              \/ i = Len(q) + 1 /\ i \notin DOMAIN q /\ Append(q, x)[i] = x
  OBVIOUS

\* A broken stream loses what came last.
LEMMA PrefixIs ==
  ASSUME NEW S, NEW q \in Seq(S), NEW n \in Nat, n <= Len(q)
  PROVE  /\ SubSeq(q, 1, n) \in Seq(S)
         /\ \A i \in DOMAIN SubSeq(q, 1, n) : i \in DOMAIN q /\ SubSeq(q, 1, n)[i] = q[i]
  OBVIOUS

\* Every job that is queued was queued before, f[s] places further back.
DownKeeps(f) ==
  /\ down' \in [Streams -> Seq(Message)] /\ f \in [Streams -> Nat]
  /\ \A s \in Streams : \A i \in DOMAIN down'[s] :
       down'[s][i].kind = "job" => i + f[s] \in DOMAIN down[s] /\ down'[s][i] = down[s][i + f[s]]

UpKeeps(f) ==
  /\ up' \in [Streams -> Seq(Result)] /\ f \in [Streams -> Nat]
  /\ \A s \in Streams : \A i \in DOMAIN up'[s] :
       i + f[s] \in DOMAIN up[s] /\ up'[s][i] = up[s][i + f[s]]

Still == [s \in Streams |-> 0]
After(s) == [t \in Streams |-> IF t = s THEN 1 ELSE 0]

\* What is queued and not touched stays where it was.
LEMMA DownStill == ASSUME JobTypes, UNCHANGED down PROVE DownKeeps(Still)
  BY DEF JobTypes, DownKeeps, Still

\* The same of results.
LEMMA UpStill == ASSUME JobTypes, UNCHANGED up PROVE UpKeeps(Still)
  BY DEF JobTypes, UpKeeps, Still

\* A receive moves what is queued one place up.
LEMMA DownDropped ==
  ASSUME JobTypes, NEW s \in Streams, down[s] # <<>>, Drop(s)
  PROVE  DownKeeps(After(s))
<1>1. down[s] \in Seq(Message)
  BY DEF JobTypes
<1>2. /\ down'[s] = Tail(down[s]) /\ down' \in [Streams -> Seq(Message)]
      /\ \A t \in Streams : t # s => down'[t] = down[t]
  BY <1>1, TailIs DEF JobTypes, Drop
<1>3. After(s) \in [Streams -> Nat] /\ After(s)[s] = 1 /\ \A t \in Streams : t # s => After(s)[t] = 0
  BY DEF After
<1>4. ASSUME NEW t \in Streams, NEW i \in DOMAIN down'[t]
      PROVE  i + After(s)[t] \in DOMAIN down[t] /\ down'[t][i] = down[t][i + After(s)[t]]
  <2>1. CASE t = s
    BY <1>1, <1>2, <1>3, <2>1, TailIs
  <2>2. CASE t # s
    <3>1. i \in DOMAIN down[t] /\ i \in Nat
      BY <1>2, <2>2 DEF JobTypes
    <3>2. QED
      BY <1>2, <1>3, <2>2, <3>1
  <2>3. QED
    BY <2>1, <2>2
<1>5. QED
  BY <1>2, <1>3, <1>4 DEF DownKeeps

\* The same of results.
LEMMA UpDropped ==
  ASSUME JobTypes, NEW s \in Streams, up[s] # <<>>, up' = [up EXCEPT ![s] = Tail(@)]
  PROVE  UpKeeps(After(s))
<1>1. up[s] \in Seq(Result)
  BY DEF JobTypes
<1>2. /\ up'[s] = Tail(up[s]) /\ up' \in [Streams -> Seq(Result)]
      /\ \A t \in Streams : t # s => up'[t] = up[t]
  BY <1>1, TailIs DEF JobTypes
<1>3. After(s) \in [Streams -> Nat] /\ After(s)[s] = 1 /\ \A t \in Streams : t # s => After(s)[t] = 0
  BY DEF After
<1>4. ASSUME NEW t \in Streams, NEW i \in DOMAIN up'[t]
      PROVE  i + After(s)[t] \in DOMAIN up[t] /\ up'[t][i] = up[t][i + After(s)[t]]
  <2>1. CASE t = s
    BY <1>1, <1>2, <1>3, <2>1, TailIs
  <2>2. CASE t # s
    <3>1. i \in DOMAIN up[t] /\ i \in Nat
      BY <1>2, <2>2 DEF JobTypes
    <3>2. QED
      BY <1>2, <1>3, <2>2, <3>1
  <2>3. QED
    BY <2>1, <2>2
<1>5. QED
  BY <1>2, <1>3, <1>4 DEF UpKeeps

\* The end of streams leaves a prefix of what was sent and no results.
LEMMA EndKeeps ==
  ASSUME JobTypes, NEW S \in SUBSET Streams, EndStreams(S)
  PROVE  /\ DownKeeps(Still) /\ UpKeeps(Still)
         /\ stream' \in [Streams -> {"new", "open", "ended"}]
<1>1. Cardinality(Jobs \cup Cancels) \in Nat
  BY FS_CardinalityType, FiniteJobs
<1>2. PICK received \in [S -> 0..Cardinality(Jobs \cup Cancels)] :
        /\ \A s \in S : received[s] <= Len(down[s])
        /\ down' = [s \in Streams |->
                      IF s \in S THEN SubSeq(down[s], 1, received[s]) ELSE down[s]]
  BY DEF EndStreams
<1>3. \A s \in S : received[s] \in Nat
  BY <1>1, <1>2
<1>4. ASSUME NEW s \in Streams
      PROVE  down'[s] \in Seq(Message) /\ \A i \in DOMAIN down'[s] : i \in DOMAIN down[s] /\ i \in Nat
                                                                    /\ down'[s][i] = down[s][i]
  <2>1. down[s] \in Seq(Message)
    BY DEF JobTypes
  <2>2. CASE s \in S
    BY <1>2, <1>3, <2>1, <2>2, PrefixIs
  <2>3. CASE s \notin S
    BY <1>2, <2>1, <2>3
  <2>4. QED
    BY <2>2, <2>3
<1>5. down' \in [Streams -> Seq(Message)]
  BY <1>2, <1>4
<1>6. DownKeeps(Still)
  BY <1>4, <1>5 DEF DownKeeps, Still
<1>7. up' = [s \in Streams |-> IF s \in S THEN <<>> ELSE up[s]]
  BY DEF EndStreams
<1>8. UpKeeps(Still)
  BY <1>7 DEF UpKeeps, Still, JobTypes
<1>9. stream' \in [Streams -> {"new", "open", "ended"}]
  BY DEF EndStreams, JobTypes
<1>10. QED
  BY <1>6, <1>8, <1>9

\* A message for a job that is not in the channels yet, or for a cancellation.
LEMMA PutIs ==
  ASSUME JobTypes, NEW s \in Streams, NEW m \in Message, Put(s, m)
  PROVE  /\ down' \in [Streams -> Seq(Message)]
         /\ \A t \in Streams : \A i \in DOMAIN down'[t] :
              \/ i \in DOMAIN down[t] /\ down'[t][i] = down[t][i]
              \/ t = s /\ i = Len(down[s]) + 1 /\ down'[t][i] = m
<1>1. down[s] \in Seq(Message)
  BY DEF JobTypes
<1>2. /\ down'[s] = Append(down[s], m) /\ down' \in [Streams -> Seq(Message)]
      /\ \A t \in Streams : t # s => down'[t] = down[t]
  BY <1>1, AppendIs DEF JobTypes, Put
<1>3. ASSUME NEW t \in Streams, NEW i \in DOMAIN down'[t]
      PROVE  \/ i \in DOMAIN down[t] /\ down'[t][i] = down[t][i]
             \/ t = s /\ i = Len(down[s]) + 1 /\ down'[t][i] = m
  <2>1. CASE t = s
    BY <1>1, <1>2, <2>1, AppendIs
  <2>2. CASE t # s
    BY <1>2, <2>2
  <2>3. QED
    BY <2>1, <2>2
<1>4. QED
  BY <1>2, <1>3

\* A result is put on its stream while that is open.
LEMMA ReportIs ==
  ASSUME JobTypes, NEW s \in Streams, NEW j \in Jobs, NEW x \in Results, Report(s, j, x)
  PROVE  /\ up' \in [Streams -> Seq(Result)]
         /\ \A t \in Streams : \A i \in DOMAIN up'[t] :
              \/ i \in DOMAIN up[t] /\ up'[t][i] = up[t][i]
              \/ t = s /\ i = Len(up[s]) + 1 /\ up'[t][i] = [job |-> j, state |-> x]
<1>1. up[s] \in Seq(Result) /\ [job |-> j, state |-> x] \in Result
  BY DEF JobTypes, Result
<1>2. CASE s \notin Open
  BY <1>2 DEF Report, JobTypes
<1>3. CASE s \in Open
  <2>1. /\ up'[s] = Append(up[s], [job |-> j, state |-> x]) /\ up' \in [Streams -> Seq(Result)]
        /\ \A t \in Streams : t # s => up'[t] = up[t]
    BY <1>1, <1>3, AppendIs DEF JobTypes, Report
  <2>2. ASSUME NEW t \in Streams, NEW i \in DOMAIN up'[t]
        PROVE  \/ i \in DOMAIN up[t] /\ up'[t][i] = up[t][i]
               \/ t = s /\ i = Len(up[s]) + 1 /\ up'[t][i] = [job |-> j, state |-> x]
    <3>1. CASE t = s
      BY <1>1, <2>1, <3>1, AppendIs
    <3>2. CASE t # s
      BY <2>1, <2>2, <3>2
    <3>3. QED
      BY <3>1, <3>2
  <2>3. QED
    BY <2>1, <2>2
<1>4. QED
  BY <1>2, <1>3

\* Uniqueness survives what only drops messages.
LEMMA QueuedKept ==
  ASSUME IInv, NEW f, DownKeeps(f)
  PROVE  /\ QueuedOnce'
         /\ \A s \in Streams, i \in Nat, j \in Jobs : JobAt(s, i, j)' =>
              f[s] \in Nat /\ i + f[s] \in Nat /\ JobAt(s, i + f[s], j)
<1>1. ASSUME NEW s \in Streams, NEW i \in Nat, NEW j \in Jobs, JobAt(s, i, j)'
      PROVE  f[s] \in Nat /\ i + f[s] \in Nat /\ JobAt(s, i + f[s], j)
  BY <1>1 DEF JobAt, DownKeeps
<1>2. ASSUME NEW s \in Streams, NEW t \in Streams, NEW i \in Nat, NEW k \in Nat, NEW j \in Jobs,
             JobAt(s, i, j)', JobAt(t, k, j)'
      PROVE  s = t /\ i = k
  <2>1. s = t /\ i + f[s] = k + f[t] /\ f[s] \in Nat
    BY <1>1, <1>2 DEF IInv, QueuedOnce
  <2>2. QED
    BY <2>1
<1>3. QED
  BY <1>1, <1>2 DEF QueuedOnce

\* A result that is still under way was under way.
LEMMA UpKept ==
  ASSUME IInv, NEW g, UpKeeps(g)
  PROVE  /\ UpOnce'
         /\ \A s \in Streams, i \in Nat, j \in Jobs : ResultAt(s, i, j)' =>
              /\ g[s] \in Nat /\ i + g[s] \in Nat /\ ResultAt(s, i + g[s], j)
              /\ up'[s][i] = up[s][i + g[s]] /\ up[s][i + g[s]].state \in Results
<1>1. ASSUME NEW s \in Streams, NEW i \in Nat, NEW j \in Jobs, ResultAt(s, i, j)'
      PROVE  /\ g[s] \in Nat /\ i + g[s] \in Nat /\ ResultAt(s, i + g[s], j)
             /\ up'[s][i] = up[s][i + g[s]] /\ up[s][i + g[s]].state \in Results
  <2>1. g[s] \in Nat /\ i + g[s] \in DOMAIN up[s] /\ up'[s][i] = up[s][i + g[s]]
    BY <1>1 DEF ResultAt, UpKeeps
  <2>2. up[s] \in Seq(Result)
    BY DEF IInv, JobTypes
  <2>3. up[s][i + g[s]] \in Result
    BY <2>1, <2>2
  <2>4. QED
    BY <1>1, <2>1, <2>3 DEF ResultAt, Result
<1>2. ASSUME NEW s \in Streams, NEW t \in Streams, NEW i \in Nat, NEW k \in Nat, NEW j \in Jobs,
             ResultAt(s, i, j)', ResultAt(t, k, j)'
      PROVE  s = t /\ i = k
  <2>1. /\ ResultAt(s, i + g[s], j) /\ g[s] \in Nat /\ i + g[s] \in Nat
        /\ ResultAt(t, k + g[t], j) /\ k + g[t] \in Nat
    BY <1>1, <1>2
  <2>2. QED
    <3>1. s = t /\ i + g[s] = k + g[t]
      BY <2>1 DEF IInv, UpOnce
    <3>2. QED
      BY <2>1, <3>1
<1>3. QED
  BY <1>1, <1>2 DEF UpOnce

-----------------------------------------------------------------------------
(* Steps that let a submission and its row proceed and nothing happen on the agent. *)

\* One job of such a step.
Proceeds(j) ==
  \/ submit'[j] = submit[j] /\ record'[j] = record[j]
  \/ submit'[j] = submit[j] /\ record[j] = "dispatched" /\ record'[j] = "cancelled"
  \/ /\ record'[j] = record[j]
     /\ \/ submit[j] = "idle" /\ submit'[j] \in {"duplicate", "failed"}
        \/ submit[j] = "stored" /\ submit'[j] \in {"accepted", "offline", "unavailable", "lost"}
        \/ submit[j] = "offline" /\ submit'[j] \in {"unavailable", "lost"}
  \/ submit[j] = "idle" /\ submit'[j] = "stored" /\ record'[j] = "dispatched"
  \/ submit[j] = "offline" /\ submit'[j] = "unavailable" /\ record'[j] = "unknown"

Ledger ==
  /\ \A j \in Jobs : Proceeds(j)
  /\ effect' = effect
  /\ \A s \in Streams : running'[s] = running[s] \/ running'[s] = NoJob
  /\ \E f : DownKeeps(f)
  /\ \E f : UpKeeps(f)

\* A step that keeps to the ledger keeps the invariant.
LEMMA LedgerKeeps == ASSUME IInv, JobTypes', OneRow', Ledger PROVE IInv'
<1>1. PICK f : DownKeeps(f)
  BY DEF Ledger
<1>2. PICK g : UpKeeps(g)
  BY DEF Ledger
<1>3. ASSUME NEW j \in Jobs
      PROVE  /\ record'[j] = "none" <=> submit'[j] \in {"idle", "duplicate", "failed"}
             /\ record'[j] = "unknown" => submit'[j] = "unavailable"
             /\ effect'[j] # "none" => submit'[j] = "accepted"
             /\ record'[j] \in Results => effect'[j] = record'[j]
             /\ submit[j] = "accepted" => submit'[j] = "accepted"
             /\ effect[j] \in Results /\ record[j] \in {"dispatched", "cancelled"}
                  => record'[j] \in {"dispatched", "cancelled"}
  <2>1. Proceeds(j) /\ effect'[j] = effect[j]
    BY DEF Ledger
  <2>2. QED
    BY <2>1 DEF IInv, Rows, Effects, Proceeds, Results
<1>4. Rows' /\ Effects'
  BY <1>3 DEF Rows, Effects
<1>5. QueuedOnce' /\ UpOnce'
  BY <1>1, <1>2, QueuedKept, UpKept
<1>6. QueuedFresh'
  <2>1. \A s \in Streams, i \in Nat, j \in Jobs : JobAt(s, i, j)' =>
          i + f[s] \in Nat /\ JobAt(s, i + f[s], j)
    BY <1>1, QueuedKept
  <2>2. QED
    BY <1>3, <2>1 DEF IInv, QueuedFresh, Ledger
<1>7. UpFresh'
  <2>1. ASSUME NEW s \in Streams, NEW i \in Nat, NEW j \in Jobs, ResultAt(s, i, j)'
        PROVE  record'[j] \in {"dispatched", "cancelled"} /\ up'[s][i].state = effect'[j]
    <3>1. /\ i + g[s] \in Nat /\ ResultAt(s, i + g[s], j) /\ up'[s][i] = up[s][i + g[s]]
          /\ up[s][i + g[s]].state \in Results
      BY <1>2, <2>1, UpKept
    <3>2. record[j] \in {"dispatched", "cancelled"} /\ up[s][i + g[s]].state = effect[j]
      BY <3>1 DEF IInv, UpFresh
    <3>3. up'[s][i].state = effect[j] /\ effect[j] \in Results
      BY <3>1, <3>2
    <3>4. QED
      BY <1>3, <3>2, <3>3 DEF Ledger
  <2>2. QED
    BY <2>1 DEF UpFresh
<1>8. RunningOnce'
  BY DEF IInv, RunningOnce, Ledger
<1>9. QED
  BY <1>4, <1>5, <1>6, <1>7, <1>8 DEF IInv

\* No row is new.
LEMMA NoNewRow ==
  ASSUME IInv, KeyOf' = KeyOf, \A j \in Jobs : record'[j] # "none" => record[j] # "none"
  PROVE  OneRow'
  BY DEF IInv, OneRow

\* Submissions whose messages reach no channel, and the clock.
LEMMA KeepSubmission ==
  ASSUME IInv, NEW j \in Jobs,
         \/ Submit(j) \/ SubmitDuplicate(j) \/ SubmitFails(j) \/ DispatchLost(j)
         \/ DispatchOffline(j) \/ DispatchCancelled(j) \/ RecordUnknown(j)
         \/ RecordUnknownFails(j) \/ DeadlinePasses(j)
  PROVE  IInv'
<1> USE DEF Submit, SubmitDuplicate, SubmitFails, DispatchLost, DispatchOffline,
            DispatchCancelled, RecordUnknown, RecordUnknownFails, DeadlinePasses
<1>1. UNCHANGED <<KeyOf, cancel, target, stream, down, up, running, effect>>
  OBVIOUS
<1>2. /\ submit' \in [Jobs -> {"idle", "stored", "duplicate", "failed", "accepted", "offline",
                               "unavailable", "lost"}]
      /\ record' \in [Jobs -> {"none", "dispatched", "cancelled", "unknown"} \cup Results]
  BY DEF IInv, JobTypes
<1>3. JobTypes'
  BY <1>1, <1>2 DEF IInv, JobTypes
<1>4. \A k \in Jobs : Proceeds(k)
  <2>1. \A k \in Jobs : k # j => submit'[k] = submit[k] /\ record'[k] = record[k]
    BY DEF IInv, JobTypes
  <2>2. Proceeds(j)
    BY DEF IInv, JobTypes, Proceeds
  <2>3. QED
    BY <2>1, <2>2 DEF Proceeds
<1>5. Ledger
  BY <1>1, <1>4, DownStill, UpStill DEF IInv, Ledger
<1>6. OneRow'
  <2>1. CASE Submit(j)
    <3>1. /\ record' = [record EXCEPT ![j] = "dispatched"]
          /\ \A k \in Jobs : KeyOf[k] = KeyOf[j] => record[k] = "none"
      BY <2>1 DEF Taken
    <3>2. QED
      BY <1>1, <3>1 DEF IInv, JobTypes, OneRow
  <2>2. CASE ~Submit(j)
    <3>1. \A k \in Jobs : record'[k] # "none" => record[k] # "none"
      BY <2>2 DEF IInv, JobTypes, Rows
    <3>2. QED
      BY <1>1, <3>1, NoNewRow
  <2>3. QED
    BY <2>1, <2>2
<1>7. QED
  BY <1>3, <1>5, <1>6, LedgerKeeps

\* A cancellation, whose message is for no job handler.
LEMMA KeepCancel ==
  ASSUME IInv, NEW c \in Cancels,
         \/ \E j \in Jobs : CancelRead(c, j)
         \/ CancelDispatch(c) \/ CancelFails(c) \/ CancelRecord(c)
  PROVE  IInv'
<1>1. UNCHANGED <<KeyOf, submit, stream, up, running, effect>>
  BY DEF CancelRead, CancelDispatch, CancelFails, CancelRecord
<1>2. /\ record' \in [Jobs -> {"none", "dispatched", "cancelled", "unknown"} \cup Results]
      /\ \A j \in Jobs : \/ record'[j] = record[j]
                         \/ record[j] = "dispatched" /\ record'[j] = "cancelled"
  BY DEF IInv, JobTypes, CancelRead, CancelDispatch, CancelFails, CancelRecord
<1>3. /\ cancel' \in [Cancels -> {"idle", "read", "sent", "error", "lost", "cancelled"} \cup Results]
      /\ target' \in [Cancels -> Jobs \cup {NoJob}]
      /\ \A d \in Cancels : cancel'[d] \in {"read", "sent"} => target'[d] \in Jobs
  <2>1. ASSUME NEW j \in Jobs, CancelRead(c, j)
        PROVE  <1>3!1 /\ <1>3!2 /\ <1>3!3
    BY <2>1 DEF IInv, JobTypes, CancelRead, Results
  <2>2. CASE CancelDispatch(c) \/ CancelFails(c) \/ CancelRecord(c)
    BY <2>2 DEF IInv, JobTypes, CancelDispatch, CancelFails, CancelRecord
  <2>3. QED
    BY <2>1, <2>2
<1>4. DownKeeps(Still)
  <2>1. CASE UNCHANGED down
    BY <2>1, DownStill DEF IInv
  <2>2. CASE ~UNCHANGED down
    <3> DEFINE m == [kind |-> "cancel", job |-> target[c]]
    <3>1. PICK s \in Streams : Put(s, m)
      BY <2>2 DEF CancelRead, CancelDispatch, CancelFails, CancelRecord, Open
    <3>2. m \in Message /\ m.kind = "cancel"
      BY <2>2 DEF IInv, JobTypes, CancelRead, CancelDispatch, CancelFails, CancelRecord, Message
    <3> HIDE DEF m
    <3>3. /\ down' \in [Streams -> Seq(Message)]
          /\ \A t \in Streams : \A i \in DOMAIN down'[t] :
               i \in Nat /\ (down'[t][i].kind = "job" =>
                               i \in DOMAIN down[t] /\ down'[t][i] = down[t][i])
      BY <3>1, <3>2, PutIs DEF IInv
    <3>4. QED
      BY <3>3 DEF DownKeeps, Still
  <2>3. QED
    BY <2>1, <2>2
<1>5. JobTypes'
  BY <1>1, <1>2, <1>3, <1>4 DEF IInv, JobTypes, DownKeeps
<1>6. Ledger
  BY <1>1, <1>2, <1>4, UpStill DEF IInv, Ledger, Proceeds
<1>7. OneRow'
  BY <1>1, <1>2, NoNewRow
<1>8. QED
  BY <1>5, <1>6, <1>7, LedgerKeeps

\* Streams begin and end, processes die, and the agent drops messages.
LEMMA KeepStreams ==
  ASSUME IInv,
         \/ UNCHANGED vars \/ AgentCrash \/ ValidatorCrash
         \/ \E s \in Streams : \/ Connect(s) \/ Break(s) \/ RejectResult(s)
                               \/ AgentIgnoresCancel(s) \/ AgentDropsJob(s)
  PROVE  IInv'
<1>0. JobTypes
  BY DEF IInv
<1>1. UNCHANGED <<KeyOf, record, target, effect>>
  BY DEF vars, AgentCrash, ValidatorCrash, Connect, Break, RejectResult, AgentIgnoresCancel,
         AgentDropsJob
<1>9. \/ submit' = submit
      \/ submit' = [j \in Jobs |-> IF submit[j] \in {"stored", "offline"} THEN "lost" ELSE submit[j]]
  BY DEF vars, AgentCrash, ValidatorCrash, Connect, Break, RejectResult, AgentIgnoresCancel,
         AgentDropsJob
<1>10. submit' \in [Jobs -> {"idle", "stored", "duplicate", "failed", "accepted", "offline",
                             "unavailable", "lost"}]
  BY <1>0, <1>9 DEF JobTypes
<1>11. \A j \in Jobs : \/ submit'[j] = submit[j]
                       \/ submit[j] \in {"stored", "offline"} /\ submit'[j] = "lost"
  BY <1>9
<1>2. /\ cancel' \in [Cancels -> {"idle", "read", "sent", "error", "lost", "cancelled"} \cup Results]
      /\ \A c \in Cancels : cancel'[c] \in {"read", "sent"} => target[c] \in Jobs
  BY <1>0 DEF JobTypes, vars, AgentCrash, ValidatorCrash, Connect, Break, RejectResult,
              AgentIgnoresCancel, AgentDropsJob
<1>3. /\ running' \in [Streams -> Jobs \cup {NoJob}]
      /\ \A s \in Streams : running'[s] = running[s] \/ running'[s] = NoJob
  BY <1>0 DEF JobTypes, vars, AgentCrash, ValidatorCrash, Connect, Break, RejectResult,
              AgentIgnoresCancel, AgentDropsJob
<1>4. /\ stream' \in [Streams -> {"new", "open", "ended"}]
      /\ \E f : DownKeeps(f)
      /\ \E f : UpKeeps(f)
  <2>1. CASE UNCHANGED vars \/ \E s \in Streams : Connect(s)
    <3>1. UNCHANGED <<down, up>> /\ stream' \in [Streams -> {"new", "open", "ended"}]
      BY <1>0, <2>1 DEF JobTypes, vars, Connect
    <3>2. QED
      BY <1>0, <3>1, DownStill, UpStill
  <2>2. CASE AgentCrash
    <3>1. DownKeeps(Still)
      BY <2>2 DEF AgentCrash, DownKeeps, Still
    <3>2. UNCHANGED <<stream, up>>
      BY <2>2 DEF AgentCrash
    <3>3. QED
      BY <1>0, <3>1, <3>2, UpStill DEF JobTypes
  <2>3. CASE ValidatorCrash \/ \E s \in Streams : Break(s) \/ RejectResult(s)
    <3>1. \E S \in SUBSET Streams : EndStreams(S)
      BY <2>3 DEF ValidatorCrash, Break, RejectResult, Open
    <3>2. QED
      BY <1>0, <3>1, EndKeeps
  <2>4. ASSUME NEW s \in Streams, AgentIgnoresCancel(s) \/ AgentDropsJob(s)
        PROVE  <1>4!1 /\ <1>4!2 /\ <1>4!3
    <3>1. Drop(s) /\ down[s] # <<>> /\ UNCHANGED <<stream, up>>
      BY <2>4 DEF AgentIgnoresCancel, AgentDropsJob, CanTake
    <3>2. QED
      BY <1>0, <3>1, DownDropped, UpStill DEF JobTypes
  <2>5. QED
    BY <2>1, <2>2, <2>3, <2>4
<1>5. JobTypes'
  BY <1>0, <1>1, <1>10, <1>2, <1>3, <1>4 DEF JobTypes, DownKeeps, UpKeeps
<1>6. Ledger
  BY <1>1, <1>11, <1>3, <1>4 DEF Ledger, Proceeds
<1>7. OneRow'
  BY <1>1, NoNewRow
<1>8. QED
  BY <1>5, <1>6, <1>7, LedgerKeeps

-----------------------------------------------------------------------------
(* Steps that send a job, or after which something has happened on the agent. *)

\* The queue of the agent's stream takes the only message of the job.
LEMMA KeepDispatch == ASSUME IInv, NEW j \in Jobs, Dispatch(j) PROVE IInv'
<1> DEFINE m == [kind |-> "job", job |-> j]
<1>1. PICK s \in Streams : Put(s, m)
  BY DEF Dispatch, Open
<1>2. m \in Message /\ m.job = j
  BY DEF Message
<1> HIDE DEF m
<1>3. /\ down' \in [Streams -> Seq(Message)]
      /\ \A t \in Streams : \A i \in DOMAIN down'[t] :
           \/ i \in DOMAIN down[t] /\ down'[t][i] = down[t][i]
           \/ t = s /\ i = Len(down[s]) + 1 /\ down'[t][i] = m
  BY <1>1, <1>2, PutIs DEF IInv
<1>4. /\ submit[j] = "stored" /\ submit' = [submit EXCEPT ![j] = "accepted"]
      /\ UNCHANGED <<KeyOf, record, cancel, target, stream, up, running, effect>>
  BY DEF Dispatch
<1>5. JobTypes'
  BY <1>3, <1>4 DEF IInv, JobTypes
<1>6. \A k \in Jobs : submit'[k] = IF k = j THEN "accepted" ELSE submit[k]
  BY <1>4 DEF IInv, JobTypes
<1>7. Rows' /\ OneRow' /\ Effects'
  BY <1>4, <1>6 DEF IInv, Rows, OneRow, Effects
<1>8. effect[j] = "none" /\ \A t \in Streams, i \in Nat : ~JobAt(t, i, j)
  BY <1>4 DEF IInv, Effects, QueuedFresh
<1>9. \A t \in Streams, i \in Nat, k \in Jobs : JobAt(t, i, k)' =>
        \/ JobAt(t, i, k)
        \/ k = j /\ t = s /\ i = Len(down[s]) + 1
  BY <1>2, <1>3 DEF JobAt
<1>10. QueuedFresh'
  BY <1>4, <1>6, <1>8, <1>9 DEF IInv, QueuedFresh
<1>11. QueuedOnce'
  BY <1>8, <1>9 DEF IInv, QueuedOnce
<1>12. RunningOnce' /\ UpFresh' /\ UpOnce'
  BY <1>4 DEF IInv, RunningOnce, UpFresh, UpOnce, ResultAt
<1>13. QED
  BY <1>5, <1>7, <1>10, <1>11, <1>12 DEF IInv

\* A job whose effect is not final waits for its result, if it was dispatched at all.
LEMMA Awaited ==
  ASSUME IInv, NEW j \in Jobs, submit[j] = "accepted", effect[j] \notin Results
  PROVE  /\ record[j] \in {"dispatched", "cancelled"}
         /\ \A t \in Streams, i \in Nat : ~ResultAt(t, i, j)
<1>1. record[j] \in {"dispatched", "cancelled"}
  BY DEF IInv, JobTypes, Rows, Effects
<1>2. ASSUME NEW t \in Streams, NEW i \in Nat, ResultAt(t, i, j) PROVE FALSE
  <2>1. up[t] \in Seq(Result) /\ i \in DOMAIN up[t]
    BY <1>2 DEF IInv, JobTypes, ResultAt
  <2>2. up[t][i] \in Result
    BY <2>1
  <2>3. up[t][i].state \in Results
    BY <2>2 DEF Result
  <2>4. QED
    BY <1>2, <2>3 DEF IInv, UpFresh
<1>3. QED
  BY <1>1, <1>2

\* The message the receive loop takes was the only one of its job.
LEMMA TakenIs ==
  ASSUME IInv, NEW s \in Streams, CanTake(s), NextDown(s).kind = "job", Drop(s),
         NEW j, j = NextDown(s).job
  PROVE  /\ j \in Jobs /\ submit[j] = "accepted" /\ effect[j] = "none"
         /\ down' \in [Streams -> Seq(Message)]
         /\ QueuedOnce'
         /\ \A t \in Streams, i \in Nat : ~JobAt(t, i, j)'
         /\ \A t \in Streams, i \in Nat, k \in Jobs : JobAt(t, i, k)' =>
              \E n \in Nat : JobAt(t, n, k)
<1>1. down[s] \in Seq(Message) /\ down[s] # <<>>
  BY DEF IInv, JobTypes, CanTake
<1>2. j \in Jobs /\ JobAt(s, 1, j)
  <2>1. NextDown(s) \in Message /\ 1 \in DOMAIN down[s] /\ NextDown(s) = down[s][1]
    BY <1>1, TailIs DEF NextDown
  <2>2. QED
    BY <2>1 DEF JobAt, Message
<1>3. submit[j] = "accepted" /\ effect[j] = "none"
  BY <1>2 DEF IInv, QueuedFresh
<1>4. DownKeeps(After(s))
  BY <1>1, DownDropped DEF IInv
<1>5. /\ QueuedOnce'
      /\ \A t \in Streams, i \in Nat, k \in Jobs : JobAt(t, i, k)' =>
           i + After(s)[t] \in Nat /\ JobAt(t, i + After(s)[t], k)
  BY <1>4, QueuedKept
<1>6. ASSUME NEW t \in Streams, NEW i \in Nat, JobAt(t, i, j)' PROVE FALSE
  <2>0. i + After(s)[t] \in Nat /\ JobAt(t, i + After(s)[t], j)
    BY <1>2, <1>5, <1>6
  <2>1. t = s /\ i + After(s)[t] = 1
    BY <1>2, <2>0 DEF IInv, QueuedOnce
  <2>2. i = 0
    BY <2>1 DEF After
  <2>3. down'[s] \in Seq(Message) /\ i \in DOMAIN down'[s]
    BY <1>4, <1>6, <2>1 DEF DownKeeps, JobAt
  <2>4. QED
    BY <2>2, <2>3
<1>7. QED
  BY <1>2, <1>3, <1>4, <1>5, <1>6 DEF DownKeeps

\* The result of a job that had none is the only one.
LEMMA ReportKeeps ==
  ASSUME IInv, NEW s \in Streams, NEW j \in Jobs, NEW x \in Results, Report(s, j, x),
         submit[j] = "accepted", effect[j] \notin Results,
         record' = record, effect' = [effect EXCEPT ![j] = x]
  PROVE  up' \in [Streams -> Seq(Result)] /\ UpFresh' /\ UpOnce'
<1> DEFINE r == [job |-> j, state |-> x]
<1>1. r.job = j /\ r.state = x
  OBVIOUS
<1> HIDE DEF r
<1>2. /\ up' \in [Streams -> Seq(Result)]
      /\ \A t \in Streams : \A i \in DOMAIN up'[t] :
           \/ i \in DOMAIN up[t] /\ up'[t][i] = up[t][i]
           \/ t = s /\ i = Len(up[s]) + 1 /\ up'[t][i] = r
  BY ReportIs DEF IInv, r
<1>3. record[j] \in {"dispatched", "cancelled"} /\ \A t \in Streams, i \in Nat : ~ResultAt(t, i, j)
  BY Awaited
<1>4. \A t \in Streams, i \in Nat, k \in Jobs : ResultAt(t, i, k)' =>
        \/ ResultAt(t, i, k) /\ k # j /\ up'[t][i] = up[t][i]
        \/ k = j /\ t = s /\ i = Len(up[s]) + 1 /\ up'[t][i].state = x
  BY <1>1, <1>2, <1>3 DEF ResultAt
<1>5. \A k \in Jobs : effect'[k] = IF k = j THEN x ELSE effect[k]
  BY DEF IInv, JobTypes
<1>6. UpFresh'
  BY <1>3, <1>4, <1>5 DEF IInv, UpFresh
<1>7. UpOnce'
  <2>1. ASSUME NEW t \in Streams, NEW u \in Streams, NEW i \in Nat, NEW k \in Nat, NEW m \in Jobs,
               ResultAt(t, i, m)', ResultAt(u, k, m)'
        PROVE  t = u /\ i = k
    <3>1. CASE m = j
      BY <1>4, <2>1, <3>1, <1>3
    <3>2. CASE m # j
      <4>1. ResultAt(t, i, m) /\ ResultAt(u, k, m)
        BY <1>4, <2>1, <3>2
      <4>2. QED
        BY <4>1 DEF IInv, UpOnce
    <3>3. QED
      BY <3>1, <3>2
  <2>2. QED
    BY <2>1 DEF UpOnce
<1>8. QED
  BY <1>2, <1>6, <1>7

\* What the submission and the row say is not touched by an effect.
LEMMA EffectKeeps ==
  ASSUME IInv, NEW j \in Jobs, NEW x \in {"started"} \cup Results, submit[j] = "accepted",
         effect[j] \notin Results, UNCHANGED <<KeyOf, record, submit>>,
         effect' = [effect EXCEPT ![j] = x]
  PROVE  /\ Rows' /\ OneRow' /\ Effects'
         /\ effect' \in [Jobs -> {"none", "started"} \cup Results]
<1>1. \A k \in Jobs : effect'[k] = IF k = j THEN x ELSE effect[k]
  BY DEF IInv, JobTypes
<1>2. record[j] \notin Results
  BY Awaited DEF Results
<1>3. Rows' /\ OneRow' /\ Effects'
  BY <1>1, <1>2 DEF IInv, Rows, OneRow, Effects
<1>4. effect' \in [Jobs -> {"none", "started"} \cup Results]
  BY DEF IInv, JobTypes
<1>5. QED
  BY <1>3, <1>4

\* Handle answers a job it cannot run.
LEMMA KeepRejected == ASSUME IInv, NEW s \in Streams, AgentRejectsJob(s) PROVE IInv'
<1>0. PICK j : j = NextDown(s).job
  OBVIOUS
<1>1. CanTake(s) /\ NextDown(s).kind = "job" /\ Drop(s)
  BY DEF AgentRejectsJob
<1>2. /\ j \in Jobs /\ submit[j] = "accepted" /\ effect[j] = "none"
      /\ down' \in [Streams -> Seq(Message)] /\ QueuedOnce'
      /\ \A t \in Streams, i \in Nat : ~JobAt(t, i, j)'
      /\ \A t \in Streams, i \in Nat, k \in Jobs : JobAt(t, i, k)' => \E n \in Nat : JobAt(t, n, k)
  BY <1>0, <1>1, TakenIs
<1>3. /\ effect' = [effect EXCEPT ![j] = "rejected"] /\ Report(s, j, "rejected")
      /\ UNCHANGED <<KeyOf, record, submit, cancel, target, stream, running>>
  BY <1>0 DEF AgentRejectsJob
<1>4. "rejected" \in Results /\ effect[j] \notin Results
  BY <1>2 DEF Results
<1>5. up' \in [Streams -> Seq(Result)] /\ UpFresh' /\ UpOnce'
  BY <1>2, <1>3, <1>4, ReportKeeps
<1>6. Rows' /\ OneRow' /\ Effects' /\ effect' \in [Jobs -> {"none", "started"} \cup Results]
  BY <1>2, <1>3, <1>4, EffectKeeps
<1>7. JobTypes'
  BY <1>2, <1>3, <1>5, <1>6 DEF IInv, JobTypes
<1>8. \A k \in Jobs : effect'[k] = IF k = j THEN "rejected" ELSE effect[k]
  BY <1>3 DEF IInv, JobTypes
<1>9. QueuedFresh'
  <2>1. ASSUME NEW t \in Streams, NEW i \in Nat, NEW k \in Jobs, JobAt(t, i, k)'
        PROVE  submit'[k] = "accepted" /\ effect'[k] = "none"
    <3>1. k # j /\ \E n \in Nat : JobAt(t, n, k)
      BY <1>2, <2>1
    <3>2. submit[k] = "accepted" /\ effect[k] = "none"
      BY <3>1 DEF IInv, QueuedFresh
    <3>3. QED
      BY <1>3, <1>8, <3>1, <3>2
  <2>2. QED
    BY <2>1 DEF QueuedFresh
<1>10. RunningOnce'
  BY <1>2, <1>3, <1>8 DEF IInv, JobTypes, RunningOnce
<1>11. QED
  BY <1>2, <1>5, <1>6, <1>7, <1>9, <1>10 DEF IInv

\* Handle begins a job.
LEMMA KeepStarted == ASSUME IInv, NEW s \in Streams, AgentStartsJob(s) PROVE IInv'
<1>0. PICK j : j = NextDown(s).job
  OBVIOUS
<1>1. CanTake(s) /\ NextDown(s).kind = "job" /\ Drop(s)
  BY DEF AgentStartsJob
<1>2. /\ j \in Jobs /\ submit[j] = "accepted" /\ effect[j] = "none"
      /\ down' \in [Streams -> Seq(Message)] /\ QueuedOnce'
      /\ \A t \in Streams, i \in Nat : ~JobAt(t, i, j)'
      /\ \A t \in Streams, i \in Nat, k \in Jobs : JobAt(t, i, k)' => \E n \in Nat : JobAt(t, n, k)
  BY <1>0, <1>1, TakenIs
<1>3. /\ effect' = [effect EXCEPT ![j] = "started"] /\ running' = [running EXCEPT ![s] = j]
      /\ UNCHANGED <<KeyOf, record, submit, cancel, target, stream, up>>
  BY <1>0 DEF AgentStartsJob
<1>4. effect[j] \notin Results
  BY <1>2 DEF Results
<1>5. \A t \in Streams, i \in Nat : ~ResultAt(t, i, j)
  BY <1>2, <1>4, Awaited
<1>6. Rows' /\ OneRow' /\ Effects' /\ effect' \in [Jobs -> {"none", "started"} \cup Results]
  BY <1>2, <1>3, <1>4, EffectKeeps
<1>7. JobTypes'
  BY <1>2, <1>3, <1>6 DEF IInv, JobTypes
<1>8. \A k \in Jobs : effect'[k] = IF k = j THEN "started" ELSE effect[k]
  BY <1>3 DEF IInv, JobTypes
<1>9. QueuedFresh'
  <2>1. ASSUME NEW t \in Streams, NEW i \in Nat, NEW k \in Jobs, JobAt(t, i, k)'
        PROVE  submit'[k] = "accepted" /\ effect'[k] = "none"
    <3>1. k # j /\ \E n \in Nat : JobAt(t, n, k)
      BY <1>2, <2>1
    <3>2. submit[k] = "accepted" /\ effect[k] = "none"
      BY <3>1 DEF IInv, QueuedFresh
    <3>3. QED
      BY <1>3, <1>8, <3>1, <3>2
  <2>2. QED
    BY <2>1 DEF QueuedFresh
<1>10. RunningOnce'
  <2>1. \A t \in Streams : running'[t] = IF t = s THEN j ELSE running[t]
    BY <1>3 DEF IInv, JobTypes
  <2>2. \A t \in Streams : running[t] # NoJob =>
          running[t] \in Jobs /\ effect[running[t]] = "started" /\ running[t] # j
    BY <1>2 DEF IInv, JobTypes, RunningOnce
  <2>3. ASSUME NEW t \in Streams, NEW u \in Streams, running'[t] # NoJob
        PROVE  /\ effect'[running'[t]] = "started"
               /\ running'[t] = running'[u] => t = u
    <3>1. j # NoJob
      BY <1>2
    <3>2. CASE t = s
      BY <1>2, <1>8, <2>1, <2>2, <3>1, <3>2
    <3>3. CASE t # s
      <4>1. running'[t] = running[t] /\ running[t] # NoJob
        BY <2>1, <2>3, <3>3
      <4>2. CASE u = s
        BY <1>8, <2>1, <2>2, <4>1, <4>2
      <4>3. CASE u # s
        BY <1>8, <2>1, <2>2, <4>1, <4>3 DEF IInv, RunningOnce
      <4>4. QED
        BY <4>2, <4>3
    <3>4. QED
      BY <3>2, <3>3
  <2>4. QED
    BY <2>3 DEF RunningOnce
<1>11. UpFresh' /\ UpOnce'
  BY <1>3, <1>5, <1>8 DEF IInv, UpFresh, UpOnce, ResultAt
<1>12. QED
  BY <1>2, <1>6, <1>7, <1>9, <1>10, <1>11 DEF IInv

\* Handle reports what came of the job.
LEMMA KeepFinished == ASSUME IInv, NEW s \in Streams, AgentFinishesJob(s) PROVE IInv'
<1>0. PICK j : j = running[s]
  OBVIOUS
<1>1. PICK x \in {"succeeded", "failed", "timed_out"} :
        effect' = [effect EXCEPT ![j] = x] /\ Report(s, j, x)
  BY <1>0 DEF AgentFinishesJob
<1>2. /\ running' = [running EXCEPT ![s] = NoJob]
      /\ UNCHANGED <<KeyOf, record, submit, cancel, target, stream, down>>
  BY DEF AgentFinishesJob
<1>3. j \in Jobs /\ effect[j] = "started" /\ \A t \in Streams : t # s => running[t] # j
  BY <1>0 DEF IInv, JobTypes, RunningOnce, AgentFinishesJob
<1>4. submit[j] = "accepted" /\ effect[j] \notin Results /\ x \in Results
  BY <1>3 DEF IInv, Effects, Results
<1>5. up' \in [Streams -> Seq(Result)] /\ UpFresh' /\ UpOnce'
  BY <1>1, <1>2, <1>3, <1>4, ReportKeeps
<1>6. Rows' /\ OneRow' /\ Effects' /\ effect' \in [Jobs -> {"none", "started"} \cup Results]
  BY <1>1, <1>2, <1>3, <1>4, EffectKeeps
<1>7. JobTypes'
  BY <1>2, <1>5, <1>6 DEF IInv, JobTypes
<1>8. \A k \in Jobs : effect'[k] = IF k = j THEN x ELSE effect[k]
  BY <1>1 DEF IInv, JobTypes
<1>9. QueuedFresh' /\ QueuedOnce'
  BY <1>2, <1>3, <1>8 DEF IInv, QueuedFresh, QueuedOnce, JobAt
<1>10. RunningOnce'
  <2>1. \A t \in Streams : running'[t] = IF t = s THEN NoJob ELSE running[t]
    BY <1>2 DEF IInv, JobTypes
  <2>2. QED
    BY <1>3, <1>8, <2>1 DEF IInv, JobTypes, RunningOnce
<1>11. QED
  BY <1>5, <1>6, <1>7, <1>9, <1>10 DEF IInv

\* An agent that is stopped leaves its job killed, or not begun.
LEMMA StoppedIs ==
  ASSUME IInv, NEW s \in Streams, NEW j \in Jobs, AgentStops(s, j)
  PROVE  submit[j] = "accepted" /\ effect[j] \in {"none", "started"}
<1>1. CASE running[s] = j
  BY <1>1 DEF IInv, JobTypes, RunningOnce, Effects
<1>2. CASE CanTake(s) /\ NextDown(s) = [kind |-> "job", job |-> j]
  <2>1. down[s] \in Seq(Message) /\ down[s] # <<>>
    BY <1>2 DEF IInv, JobTypes, CanTake
  <2>2. 1 \in DOMAIN down[s] /\ NextDown(s) = down[s][1]
    BY <2>1, TailIs DEF NextDown
  <2>3. NextDown(s).kind = "job" /\ NextDown(s).job = j
    BY <1>2
  <2>4. JobAt(s, 1, j)
    BY <2>2, <2>3 DEF JobAt
  <2> QED
    BY <2>4 DEF IInv, QueuedFresh
<1> QED
  BY <1>1, <1>2 DEF AgentStops

\* Nothing is left of it but the result.
LEMMA KeepStopped == ASSUME IInv, NEW s \in Streams, NEW j \in Jobs, AgentStops(s, j) PROVE IInv'
<1>1. submit[j] = "accepted" /\ effect[j] \notin Results /\ "stopped" \in Results
  BY StoppedIs DEF Results
<1>2. /\ effect' = [effect EXCEPT ![j] = "stopped"]
      /\ Report(s, j, "stopped") \/ up' = up
      /\ running' = [t \in Streams |-> NoJob] /\ down' = [t \in Streams |-> <<>>]
      /\ UNCHANGED <<KeyOf, record, submit, cancel, target, stream>>
  BY DEF AgentStops
<1>3. \A k \in Jobs : effect'[k] = IF k = j THEN "stopped" ELSE effect[k]
  BY <1>2 DEF IInv, JobTypes
<1>4. up' \in [Streams -> Seq(Result)] /\ UpFresh' /\ UpOnce'
  <2>1. CASE Report(s, j, "stopped")
    BY <1>1, <1>2, <2>1, ReportKeeps
  <2>2. CASE up' = up
    <3>1. \A t \in Streams, i \in Nat : ~ResultAt(t, i, j)
      BY <1>1, Awaited
    <3> QED
      BY <1>2, <1>3, <2>2, <3>1 DEF IInv, JobTypes, UpFresh, UpOnce, ResultAt
  <2> QED
    BY <1>2, <2>1, <2>2
<1>5. Rows' /\ OneRow' /\ Effects' /\ effect' \in [Jobs -> {"none", "started"} \cup Results]
  BY <1>1, <1>2, EffectKeeps
<1>6. JobTypes'
  BY <1>2, <1>4, <1>5 DEF IInv, JobTypes
<1>7. QueuedFresh' /\ QueuedOnce'
  BY <1>2 DEF QueuedFresh, QueuedOnce, JobAt
<1>8. RunningOnce'
  BY <1>2 DEF RunningOnce
<1> QED
  BY <1>4, <1>5, <1>6, <1>7, <1>8 DEF IInv

\* The result that is taken is what happened, and no other one of its job is under way.
LEMMA LearntIs ==
  ASSUME IInv, NEW s \in Streams, RecordResult(s)
  PROVE  /\ NextUp(s).job \in Jobs /\ record[NextUp(s).job] = "dispatched"
         /\ NextUp(s).state \in Results /\ effect[NextUp(s).job] = NextUp(s).state
         /\ ResultAt(s, 1, NextUp(s).job)
<1>1. up[s] \in Seq(Result) /\ up[s] # <<>> /\ record[NextUp(s).job] = "dispatched"
  BY DEF IInv, JobTypes, RecordResult
<1>2. NextUp(s) \in Result /\ 1 \in DOMAIN up[s] /\ NextUp(s) = up[s][1]
  BY <1>1, TailIs DEF NextUp
<1>3. NextUp(s).job \in Jobs /\ NextUp(s).state \in Results /\ ResultAt(s, 1, NextUp(s).job)
  BY <1>2 DEF Result, ResultAt
<1>4. effect[NextUp(s).job] = NextUp(s).state
  <2>1. PICK j \in Jobs : j = NextUp(s).job
    BY <1>3
  <2>2. ResultAt(s, 1, j)
    BY <1>3, <2>1
  <2>3. up[s][1].state = effect[j]
    BY ONLY IInv, s \in Streams, <2>2, j \in Jobs, 1 \in Nat DEF IInv, UpFresh
  <2> QED
    BY <1>2, <2>1, <2>3
<1>5. QED
  BY <1>1, <1>3, <1>4

\* The validator records a result.
LEMMA KeepRecorded == ASSUME IInv, NEW s \in Streams, RecordResult(s) PROVE IInv'
<1>0. PICK j, x : j = NextUp(s).job /\ x = NextUp(s).state
  OBVIOUS
<1>1. j \in Jobs /\ record[j] = "dispatched" /\ x \in Results /\ effect[j] = x /\ ResultAt(s, 1, j)
  BY <1>0, LearntIs
<1>2. /\ record' = [record EXCEPT ![j] = x] /\ up[s] # <<>> /\ up' = [up EXCEPT ![s] = Tail(@)]
      /\ UNCHANGED <<KeyOf, submit, cancel, target, stream, down, running, effect>>
  BY <1>0 DEF RecordResult
<1>3. \A k \in Jobs : record'[k] = IF k = j THEN x ELSE record[k]
  BY <1>2 DEF IInv, JobTypes
<1>4. UpKeeps(After(s))
  BY <1>2, UpDropped DEF IInv
<1>5. JobTypes'
  BY <1>1, <1>2, <1>4 DEF IInv, JobTypes, UpKeeps
<1>6. submit[j] = "accepted" /\ x \notin {"none", "unknown"}
  BY <1>1 DEF IInv, Effects, Results
<1>7. Rows' /\ OneRow' /\ Effects'
  BY <1>1, <1>2, <1>3, <1>6 DEF IInv, Rows, OneRow, Effects
<1>8. /\ UpOnce'
      /\ \A t \in Streams, i \in Nat, k \in Jobs : ResultAt(t, i, k)' =>
           /\ i + After(s)[t] \in Nat /\ ResultAt(t, i + After(s)[t], k)
           /\ up'[t][i] = up[t][i + After(s)[t]]
  BY <1>4, UpKept
<1>9. ASSUME NEW t \in Streams, NEW i \in Nat, ResultAt(t, i, j)' PROVE FALSE
  <2>0. i + After(s)[t] \in Nat /\ ResultAt(t, i + After(s)[t], j)
    BY <1>1, <1>8, <1>9
  <2>1. t = s /\ i + After(s)[t] = 1
    BY <1>1, <2>0 DEF IInv, UpOnce
  <2>2. i = 0
    BY <2>1 DEF After
  <2>3. up'[s] \in Seq(Result) /\ i \in DOMAIN up'[s]
    BY <1>4, <1>9, <2>1 DEF UpKeeps, ResultAt
  <2>4. QED
    BY <2>2, <2>3
<1>10. UpFresh'
  <2>1. ASSUME NEW t \in Streams, NEW i \in Nat, NEW k \in Jobs, ResultAt(t, i, k)'
        PROVE  record'[k] \in {"dispatched", "cancelled"} /\ up'[t][i].state = effect'[k]
    <3>1. /\ k # j /\ i + After(s)[t] \in Nat /\ ResultAt(t, i + After(s)[t], k)
          /\ up'[t][i] = up[t][i + After(s)[t]]
      BY <1>8, <1>9, <2>1
    <3>2. record[k] \in {"dispatched", "cancelled"} /\ up[t][i + After(s)[t]].state = effect[k]
      BY <3>1 DEF IInv, UpFresh
    <3>3. QED
      BY <1>2, <1>3, <3>1, <3>2
  <2>2. QED
    BY <2>1 DEF UpFresh
<1>11. QueuedFresh' /\ QueuedOnce' /\ RunningOnce'
  BY <1>2 DEF IInv, QueuedFresh, QueuedOnce, RunningOnce, JobAt
<1>12. QED
  BY <1>5, <1>7, <1>8, <1>10, <1>11 DEF IInv

-----------------------------------------------------------------------------
(* The invariant.                                                          *)

\* It holds of an empty table and no stream.
LEMMA InitIInv == Init => IInv
<1> SUFFICES ASSUME Init PROVE IInv
  OBVIOUS
<1>1. JobTypes
  BY DEF Init, JobTypes
<1>2. Rows /\ OneRow /\ Effects
  BY DEF Init, Rows, OneRow, Effects, Results
<1>3. QueuedFresh /\ QueuedOnce /\ UpFresh /\ UpOnce
  BY DEF Init, QueuedFresh, QueuedOnce, UpFresh, UpOnce, JobAt, ResultAt
<1>4. RunningOnce
  BY DEF Init, RunningOnce
<1>5. QED
  BY <1>1, <1>2, <1>3, <1>4 DEF IInv

\* No handler, agent, break or crash breaks it.
LEMMA NextIInv == IInv /\ [Next]_vars => IInv'
<1> SUFFICES ASSUME IInv, [Next]_vars PROVE IInv'
  OBVIOUS
<1>1. ASSUME NEW j \in Jobs,
             \/ Submit(j) \/ SubmitDuplicate(j) \/ SubmitFails(j) \/ DispatchLost(j)
             \/ DispatchOffline(j) \/ DispatchCancelled(j) \/ RecordUnknown(j)
             \/ RecordUnknownFails(j) \/ DeadlinePasses(j)
      PROVE  IInv'
  BY <1>1, KeepSubmission
<1>2. ASSUME NEW j \in Jobs, Dispatch(j) PROVE IInv'
  BY <1>2, KeepDispatch
<1>3. ASSUME NEW c \in Cancels, CancelStep(c) \/ \E j \in Jobs : CancelRead(c, j) PROVE IInv'
  BY <1>3, KeepCancel DEF CancelStep
<1>4. CASE \/ UNCHANGED vars \/ AgentCrash \/ ValidatorCrash
           \/ \E s \in Streams : \/ Connect(s) \/ Break(s) \/ RejectResult(s)
                                 \/ AgentIgnoresCancel(s) \/ AgentDropsJob(s)
  BY <1>4, KeepStreams
<1>5. ASSUME NEW s \in Streams,
             AgentRejectsJob(s) \/ AgentStartsJob(s) \/ AgentFinishesJob(s) \/ RecordResult(s)
      PROVE  IInv'
  BY <1>5, KeepRejected, KeepStarted, KeepFinished, KeepRecorded
<1>6. ASSUME NEW s \in Streams, NEW j \in Jobs, AgentStops(s, j) PROVE IInv'
  BY <1>6, KeepStopped
<1>7. QED
  BY <1>1, <1>2, <1>3, <1>4, <1>5, <1>6 DEF Next, SubmitStep, AgentStep, ResultStep

\* It holds throughout.
LEMMA IInvAlways == Spec => []IInv
  BY InitIInv, NextIInv, PTL DEF Spec

-----------------------------------------------------------------------------
(* Theorems.                                                               *)

\* The unique index and the single message of a job leave one effect per idempotency key,
\* whatever is retried, lost or crashes.
THEOREM KeyActsOnce == Spec => []OneEffectPerKey
<1>1. IInv => OneEffectPerKey
  BY DEF IInv, Rows, OneRow, Effects, OneEffectPerKey
<1>2. QED
  BY <1>1, IInvAlways, PTL

\* submitSafe and submitUnsafe answer "agent offline or backpressured" only of a job that no
\* stream of the agent carries or will carry.
THEOREM RefusedNeverActs == Spec => []RefusedHasNoEffect
<1>1. IInv => RefusedHasNoEffect
  <2> SUFFICES ASSUME IInv, NEW j \in Jobs, submit[j] = "unavailable" \/ record[j] = "unknown"
               PROVE  /\ effect[j] = "none"
                      /\ \A s \in Streams :
                           [kind |-> "job", job |-> j] \notin {down[s][i] : i \in DOMAIN down[s]}
    BY DEF RefusedHasNoEffect
  <2>1. submit[j] = "unavailable" /\ effect[j] = "none"
    BY DEF IInv, Rows, Effects
  <2>2. ASSUME NEW s \in Streams, NEW i \in DOMAIN down[s], down[s][i] = [kind |-> "job", job |-> j]
        PROVE  FALSE
    <3>1. down[s] \in Seq(Message)
      BY DEF IInv, JobTypes
    <3>2. i \in Nat /\ JobAt(s, i, j)
      BY <2>2, <3>1 DEF JobAt
    <3>3. QED
      BY <2>1, <3>2 DEF IInv, QueuedFresh
  <2>3. QED
    BY <2>1, <2>2
<1>2. QED
  BY <1>1, IInvAlways, PTL

\* A result the agent has sent is the only one of its job, tells the truth, and finds the row
\* in the state MessageHandler's UPDATE asks for, unless the job was cancelled.
THEOREM ResultsAreExpected == Spec => []ResultsUnderWay
<1>1. IInv => ResultsUnderWay
  <2> SUFFICES ASSUME IInv, NEW s \in Streams, NEW i \in DOMAIN up[s]
               PROVE  /\ record[up[s][i].job] \in {"dispatched", "cancelled"}
                      /\ up[s][i].state = effect[up[s][i].job]
                      /\ \A t \in Streams : \A k \in DOMAIN up[t] :
                           up[t][k].job = up[s][i].job => t = s /\ k = i
    BY DEF ResultsUnderWay
  <2>1. \A t \in Streams : \A k \in DOMAIN up[t] : k \in Nat /\ up[t][k] \in Result
    BY DEF IInv, JobTypes
  <2>2. \A t \in Streams : \A k \in DOMAIN up[t] : up[t][k].job \in Jobs
    BY <2>1 DEF Result
  <2>3. i \in Nat /\ up[s][i].job \in Jobs /\ ResultAt(s, i, up[s][i].job)
    BY <2>1, <2>2 DEF ResultAt
  <2>4. record[up[s][i].job] \in {"dispatched", "cancelled"} /\ up[s][i].state = effect[up[s][i].job]
    BY <2>3 DEF IInv, UpFresh
  <2>5. ASSUME NEW t \in Streams, NEW k \in DOMAIN up[t], up[t][k].job = up[s][i].job
        PROVE  t = s /\ k = i
    <3>1. k \in Nat /\ ResultAt(t, k, up[s][i].job)
      BY <2>1, <2>5 DEF ResultAt
    <3>2. QED
      BY <2>3, <3>1 DEF IInv, UpOnce
  <2>6. QED
    BY <2>4, <2>5
<1>2. QED
  BY <1>1, IInvAlways, PTL

-----------------------------------------------------------------------------
(* The lifecycle implements JobPromise.                                    *)

\* Every step is one of the promise, or none.
LEMMA PromiseStep ==
  ASSUME IInv, [Next]_vars
  PROVE  [Promise!PromiseNext]_<<KeyOf, record, effect>>
<1>1. ASSUME UNCHANGED <<KeyOf, record, effect>> PROVE [Promise!PromiseNext]_<<KeyOf, record, effect>>
  BY <1>1
<1>2. ASSUME NEW j \in Jobs, Submit(j) PROVE Promise!Accept(j)
  BY <1>2 DEF Submit, Taken, Promise!Accept
<1>3. ASSUME NEW j \in Jobs, RecordUnknown(j) PROVE Promise!GiveUp(j)
  <2>1. submit[j] = "offline" /\ effect[j] = "none"
    BY <1>3 DEF IInv, Effects, RecordUnknown
  <2>2. record[j] \in {"dispatched", "cancelled"}
    BY <2>1 DEF IInv, JobTypes, Rows, Effects, Results
  <2>3. QED
    BY <1>3, <2>1, <2>2 DEF RecordUnknown, Promise!GiveUp
<1>4. ASSUME NEW c \in Cancels, CancelRecord(c), record' # record
      PROVE  target[c] \in Jobs /\ Promise!Cancel(target[c])
  BY <1>4 DEF IInv, JobTypes, CancelRecord, Promise!Cancel
<1>5. ASSUME NEW s \in Streams, AgentStartsJob(s) \/ AgentRejectsJob(s)
      PROVE  /\ NextDown(s).job \in Jobs
             /\ \/ Promise!Start(NextDown(s).job)
                \/ Promise!End(NextDown(s).job, "rejected")
  <2>0. PICK j : j = NextDown(s).job
    OBVIOUS
  <2>1. CanTake(s) /\ NextDown(s).kind = "job" /\ Drop(s)
    BY <1>5 DEF AgentStartsJob, AgentRejectsJob
  <2>2. j \in Jobs /\ submit[j] = "accepted" /\ effect[j] = "none"
    BY <2>0, <2>1, TakenIs
  <2>3. record[j] \in {"dispatched", "cancelled"}
    BY <2>2, Awaited DEF Results
  <2>4. CASE AgentStartsJob(s)
    BY <2>0, <2>2, <2>3, <2>4 DEF AgentStartsJob, Promise!Start
  <2>5. CASE AgentRejectsJob(s)
    BY <2>0, <2>2, <2>3, <2>5 DEF AgentRejectsJob, Promise!End
  <2>6. QED
    BY <1>5, <2>0, <2>2, <2>4, <2>5
<1>6. ASSUME NEW s \in Streams, AgentFinishesJob(s)
      PROVE  \E j \in Jobs, x \in Results : Promise!End(j, x)
  <2>1. PICK x \in {"succeeded", "failed", "timed_out"} : effect' = [effect EXCEPT ![running[s]] = x]
    BY <1>6 DEF AgentFinishesJob
  <2>2. running[s] \in Jobs /\ effect[running[s]] = "started"
    BY <1>6 DEF IInv, JobTypes, RunningOnce, AgentFinishesJob
  <2>3. x \in Results /\ x # "rejected"
    BY DEF Results
  <2>4. UNCHANGED <<KeyOf, record>>
    BY <1>6 DEF AgentFinishesJob
  <2>5. Promise!End(running[s], x)
    BY <2>1, <2>2, <2>3, <2>4 DEF Promise!End
  <2>6. QED
    BY <2>2, <2>3, <2>5
<1>7. ASSUME NEW s \in Streams, RecordResult(s) PROVE \E j \in Jobs : Promise!Learn(j)
  <2>1. /\ NextUp(s).job \in Jobs /\ record[NextUp(s).job] = "dispatched"
        /\ NextUp(s).state \in Results /\ effect[NextUp(s).job] = NextUp(s).state
    BY <1>7, LearntIs
  <2>2. Promise!Learn(NextUp(s).job)
    BY <1>7, <2>1 DEF RecordResult, Results, Promise!Learn, Promise!Results
  <2>3. QED
    BY <2>1, <2>2
<1>8. \/ UNCHANGED <<KeyOf, record, effect>>
      \/ \E j \in Jobs : Submit(j) \/ RecordUnknown(j)
      \/ \E c \in Cancels : CancelRecord(c)
      \/ \E s \in Streams : \/ AgentStartsJob(s) \/ AgentRejectsJob(s) \/ AgentFinishesJob(s)
                            \/ RecordResult(s) \/ \E j \in Jobs : AgentStops(s, j)
  BY DEF Next, vars, SubmitStep, CancelStep, AgentStep, ResultStep, SubmitDuplicate, SubmitFails,
         Dispatch, DispatchLost, DispatchOffline, DispatchCancelled, RecordUnknownFails,
         CancelRead, CancelDispatch, CancelFails, Connect, Break, AgentIgnoresCancel,
         AgentDropsJob, RejectResult, AgentCrash, ValidatorCrash, DeadlinePasses
<1>9. ASSUME NEW c \in Cancels, CancelRecord(c)
      PROVE  [Promise!PromiseNext]_<<KeyOf, record, effect>>
  <2>1. CASE record' = record
    BY <1>9, <2>1 DEF CancelRecord
  <2>2. CASE record' # record
    BY <1>4, <1>9, <2>2 DEF Promise!PromiseNext
  <2>3. QED
    BY <2>1, <2>2
<1>10. "rejected" \in Promise!Results /\ Promise!Results = Results
  BY DEF Promise!Results, Results
<1>11. ASSUME NEW s \in Streams, NEW j \in Jobs, AgentStops(s, j)
       PROVE  Promise!End(j, "stopped") /\ "stopped" \in Promise!Results
  <2>1. submit[j] = "accepted" /\ effect[j] \in {"none", "started"}
    BY <1>11, StoppedIs
  <2>2. record[j] \in {"dispatched", "cancelled"}
    BY <2>1, Awaited DEF Results
  <2> QED
    BY <1>11, <2>1, <2>2 DEF AgentStops, Promise!End, Promise!Results
<1>12. QED
  BY <1>1, <1>2, <1>3, <1>5, <1>6, <1>7, <1>8, <1>9, <1>10, <1>11 DEF Promise!PromiseNext

\* The submission handlers, CancelJob, the result handler and the agent, with broken streams
\* and crashes, keep what JobPromise says: at most one effect, and results that are real and final.
THEOREM ImplementsPromise == Spec => PromiseSpec
<1>1. Init => Promise!PromiseInit
  BY DEF Init, Promise!PromiseInit
<1>2. IInv /\ [Next]_vars => [Promise!PromiseNext]_<<KeyOf, record, effect>>
  BY PromiseStep
<1>3. QED
  BY <1>1, <1>2, IInvAlways, PTL DEF Spec, PromiseSpec, Promise!PromiseSpec

=============================================================================
