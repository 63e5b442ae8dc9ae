------------------------------ MODULE SshPromise ------------------------------
(***************************************************************************)
(* What a temporary SSH authorization is to the two machines, with calls,  *)
(* tokens, streams, queues and rewrites of the file left out: the row of   *)
(* the session, its port, and its line in the agent's authorized_keys.  A  *)
(* port belongs to one live session.  The agent is asked once for a line,  *)
(* and once that is settled the line never comes (back); it goes only when *)
(* the session is over or the last second of its time has begun, and until *)
(* then a session becomes ready only while it is there.  Where two         *)
(* rewrites of the file overlap, and only then, lines come and go, but     *)
(* never one that was not asked for.                                       *)
(***************************************************************************)
CONSTANTS Sessions, Ports, NoPort

VARIABLES
  state,  \* of the row
  port,   \* of the row
  late,   \* sessions whose time is over
  ending, \* sessions in, or past, the last second of their time
  asked,  \* whether the agent was asked for the line: "no", "yes", "settled"
  keys,   \* sessions with a line
  raced   \* whether rewrites have overlapped

promiseVars == <<state, port, late, ending, asked, keys, raced>>

Live(x) == state[x] \in {"preparing", "ready"}
Over(x) == state[x] \in {"closed", "expired"}
Settle(X) == asked' = [x \in Sessions |-> IF x \in X THEN "settled" ELSE asked[x]]
Unsettled == {x \in Sessions : asked[x] = "yes"}

PromiseInit ==
  /\ state = [x \in Sessions |-> "none"]
  /\ port = [x \in Sessions |-> NoPort]
  /\ asked = [x \in Sessions |-> "no"]
  /\ late = {} /\ ending = {} /\ keys = {} /\ raced = FALSE

\* A session gets a port that no row has.
Opens(x) ==
  /\ state[x] = "none"
  /\ \E p \in Ports :
       /\ \A y \in Sessions : port[y] # p
       /\ port' = [port EXCEPT ![x] = p]
  /\ state' = [state EXCEPT ![x] = "preparing"]
  /\ UNCHANGED <<late, ending, asked, keys, raced>>

\* The one question, which may be lost.
Asks(x) ==
  /\ state[x] # "none" /\ asked[x] = "no"
  /\ \E answer \in {"yes", "settled"} : asked' = [asked EXCEPT ![x] = answer]
  /\ UNCHANGED <<state, port, late, ending, keys, raced>>

\* Questions are lost or turned down.
Forgets ==
  /\ \E X \in SUBSET Unsettled : Settle(X)
  /\ UNCHANGED <<state, port, late, ending, keys, raced>>

Installs(x) ==
  /\ asked[x] = "yes"
  /\ Settle({x})
  /\ keys' = keys \cup {x}
  /\ UNCHANGED <<state, port, late, ending, raced>>

Removes(x) ==
  /\ Over(x)
  /\ keys' = keys \ {x}
  /\ UNCHANGED <<state, port, late, ending, asked, raced>>

Tidies ==
  /\ \E X \in SUBSET ending : keys' = keys \ X
  /\ UNCHANGED <<state, port, late, ending, asked, raced>>

\* A rewrite replaces lines that it had not read.
Overlaps ==
  /\ raced' = TRUE
  /\ \/ \E x \in Unsettled : Settle({x})
     \/ UNCHANGED asked
  /\ keys' \in SUBSET {x \in Sessions : asked'[x] = "settled"}
  /\ UNCHANGED <<state, port, late, ending>>

BecomesReady(x) ==
  /\ state[x] = "preparing" /\ x \notin late /\ asked[x] = "settled"
  /\ x \in keys \/ x \in ending \/ raced
  /\ state' = [state EXCEPT ![x] = "ready"]
  /\ UNCHANGED <<port, late, ending, asked, keys, raced>>

Closes(x) ==
  /\ Live(x)
  /\ state' = [state EXCEPT ![x] = "closed"]
  /\ port' = [port EXCEPT ![x] = NoPort]
  /\ UNCHANGED <<late, ending, asked, keys, raced>>

\* A restart: live sessions whose time is over expire, and questions may be lost.
Restarts ==
  LET expired == {x \in late : Live(x)} IN
  /\ state' = [x \in Sessions |-> IF x \in expired THEN "expired" ELSE state[x]]
  /\ port' = [x \in Sessions |-> IF x \in expired THEN NoPort ELSE port[x]]
  /\ \E X \in SUBSET Unsettled : Settle(X)
  /\ UNCHANGED <<late, ending, keys, raced>>

TimeEnds(x) ==
  /\ state[x] # "none"
  /\ ending' = ending \cup {x}
  /\ late' \in {late, late \cup {x}}
  /\ UNCHANGED <<state, port, asked, keys, raced>>

PromiseNext ==
  \/ \E x \in Sessions :
       \/ Opens(x) \/ Asks(x) \/ Installs(x) \/ Removes(x) \/ BecomesReady(x) \/ Closes(x)
       \/ TimeEnds(x)
  \/ Forgets \/ Tidies \/ Overlaps \/ Restarts

PromiseSpec == PromiseInit /\ [][PromiseNext]_promiseVars
=============================================================================
