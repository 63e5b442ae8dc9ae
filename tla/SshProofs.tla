----------------------------- MODULE SshProofs -----------------------------
(***************************************************************************)
(* Proofs about SshSessions for any number of sessions, ports and streams. *)
(***************************************************************************)
EXTENDS SshSessions, NaturalsInduction, WellFoundedInduction, TLAPS

Message == [kind : {"prepare", "close"}, session : Sessions]
Edit == [by : Streams, for : Message \cup {Reconcile}, before : SUBSET Sessions,
         after : SUBSET Sessions]

\* Values of the rows, of the calls, of what the streams hold and of the key file.
SshTypes ==
  /\ state \in [Sessions -> {"none", "preparing", "ready", "closed", "expired"}]
  /\ port \in [Sessions -> Ports \cup {NoPort}]
  /\ late \in SUBSET Sessions
  /\ ending \in SUBSET Sessions /\ late \subseteq ending
  /\ tokens \in SUBSET Sessions
  /\ prepare \in [Sessions -> {"idle", "created", "failed", "ok", "closing", "updating",
                               "unavailable", "lost"}]
  /\ close \in [Sessions -> {"idle", "updating", "dispatching", "done", "failed", "lost"}]
  /\ stream \in [Streams -> {"new", "open", "ended"}]
  /\ down \in [Streams -> Seq(Message)]
  /\ up \in [Streams -> Seq(Sessions)]
  /\ alive \in SUBSET Streams
  /\ keys \in SUBSET Sessions
  /\ edits \in SUBSET Edit
  /\ raced \in BOOLEAN

\* The row is final.
Over(x) == state[x] \in {"closed", "expired"}

\* What the calls and the tokens say of a row: a token waits for the one SshReady of a
\* session that nobody closes, and a close is told to the agent when the row is over.
Rows ==
  \A x \in Sessions :
    /\ prepare[x] \in {"idle", "failed"} => state[x] = "none"
    /\ prepare[x] \in {"created", "closing"} => x \in tokens \/ close[x] # "idle"
    /\ prepare[x] = "updating" => x \notin tokens
    /\ x \in tokens => state[x] = "preparing" /\ close[x] = "idle"
    /\ close[x] # "idle" => state[x] # "none"
    /\ close[x] = "dispatching" => Over(x)

\* The places of a session's one PrepareSsh: a queue, a rewrite of the file, an SshReady.
MessageAt(s, i, m) == i \in DOMAIN down[s] /\ down[s][i] = m
ReadyAt(s, i, x) == i \in DOMAIN up[s] /\ up[s][i] = x
EditOf(e, s, m) == e \in edits /\ e.by = s /\ e.for = m
Untold(x) == [kind |-> "close", session |-> x]

\* In one place of one stream, once.
Once ==
  \A s, t \in Streams, x \in Sessions :
    /\ \A i, k \in Nat : MessageAt(s, i, Told(x)) /\ MessageAt(t, k, Told(x)) => s = t /\ i = k
    /\ \A i, k \in Nat : ReadyAt(s, i, x) /\ ReadyAt(t, k, x) => s = t /\ i = k
    /\ \A e, f \in edits : EditOf(e, s, Told(x)) /\ EditOf(f, t, Told(x)) => e = f
    /\ \A i, k \in Nat : ~(MessageAt(s, i, Told(x)) /\ ReadyAt(t, k, x))
    /\ \A i \in Nat, e \in edits : ~(MessageAt(s, i, Told(x)) /\ EditOf(e, t, Told(x)))
    /\ \A i \in Nat, e \in edits : ~(ReadyAt(s, i, x) /\ EditOf(e, t, Told(x)))

\* It is in one of those places on the stream s.
OnItsWay(s, x) ==
  \/ \E i \in Nat : MessageAt(s, i, Told(x)) \/ ReadyAt(s, i, x)
  \/ \E e \in edits : EditOf(e, s, Told(x))

\* It is there once the call has returned; on an open stream it is still waited for.
Expected ==
  \A s \in Streams, x \in Sessions : OnItsWay(s, x) =>
    /\ prepare[x] = "ok" /\ stream[s] # "new"
    /\ s \in Open => x \in tokens \/ close[x] # "idle"

\* A CloseSsh under way is of a row that is over.
Closes ==
  \A s \in Streams, x \in Sessions :
    /\ \A i \in Nat : MessageAt(s, i, Untold(x)) => Over(x)
    /\ \A e \in edits : EditOf(e, s, Untold(x)) => Over(x)

\* A rewrite adds or removes its session's line and drops no other before its second; the one
\* that precedes a stream is alone of its kind.
Rewrites ==
  /\ \A e, f \in edits : e.for = Reconcile /\ f.for = Reconcile => e = f
  /\ \A e \in edits :
       /\ \A x \in Sessions : e.for = Told(x) => e.after = e.before \cup {x}
       /\ \A x \in Sessions : e.for = Untold(x) => e.after = e.before \ {x}
       /\ e.for = Reconcile => e.before \ ending \subseteq e.after /\ stream[e.by] = "new"

\* A line is there from before SshReady is sent.
KeysThere ==
  ~raced => \A x \in Sessions :
    (state[x] = "ready" \/ \E s \in Streams, i \in Nat : ReadyAt(s, i, x)) =>
      x \in keys \/ x \in ending \/ Over(x)

IInv == /\ SshTypes /\ PortsOfLiveSessions /\ Rows /\ Once /\ Expected /\ Closes
        /\ Rewrites /\ KeysThere

USE SshAssumption
USE DEF manager, expiry, callers, links, file

-----------------------------------------------------------------------------
(* Ports.                                                                  *)

\* A set of ports has a least one, the one allocatePort takes.
LEMMA LeastOf ==
  ASSUME NEW T, T \subseteq Nat, T # {}
  PROVE  \E x \in T : \A y \in T : x <= y
<1> DEFINE R == {ss \in Nat \X Nat : ss[1] < ss[2]}
<1>1. IsWellFoundedOn(R, Nat)
  BY NatLessThanWellFounded DEF OpToRel
<1> HIDE DEF R
<1>2. PICK x \in T : \A y \in T : ~(<<y, x>> \in R)
  BY <1>1, WFMin
<1>3. ASSUME NEW y \in T PROVE x <= y
  <2>1. x \in Nat /\ y \in Nat
    OBVIOUS
  <2>2. ~(y < x)
    BY <1>2, <2>1 DEF R
  <2>3. QED
    BY <2>1, <2>2
<1>4. QED
  BY <1>3

\* allocatePort finds one of the manager's ports.
LEMMA AllocatedIsPort == Vacant # {} => Allocated \in Ports
<1>1. Vacant \subseteq Nat /\ Vacant \subseteq Ports
  BY DEF Vacant
<1>2. Vacant # {} => \E p \in Vacant : \A q \in Vacant : p <= q
  BY <1>1, LeastOf
<1>3. QED
  BY <1>1, <1>2 DEF Allocated

-----------------------------------------------------------------------------
(* Channels and the file.                                                  *)

\* A receive takes the head: what is left keeps its order.
LEMMA TailIs ==
  ASSUME NEW S, NEW q \in Seq(S), q # <<>>
  PROVE  /\ Tail(q) \in Seq(S) /\ Head(q) \in S /\ 1 \in DOMAIN q /\ Head(q) = q[1]
         /\ \A i \in DOMAIN Tail(q) : i \in Nat /\ i # 0 /\ i + 1 \in DOMAIN q /\ Tail(q)[i] = q[i + 1]
  OBVIOUS

\* A send adds at the end.
LEMMA AppendIs ==
  ASSUME NEW S, NEW q \in Seq(S), NEW x \in S
  PROVE  /\ Append(q, x) \in Seq(S)
         /\ \A i \in DOMAIN Append(q, x) :
              \/ i \in DOMAIN q /\ Append(q, x)[i] = q[i]
              \/ i = Len(q) + 1 /\ i \notin DOMAIN q /\ Append(q, x)[i] = x
  OBVIOUS

\* A broken stream loses what came last.
LEMMA PrefixIs ==
  ASSUME NEW S, NEW q \in Seq(S), NEW n \in Nat, n <= Len(q)
  PROVE  /\ SubSeq(q, 1, n) \in Seq(S)
         /\ \A i \in DOMAIN SubSeq(q, 1, n) : i \in DOMAIN q /\ SubSeq(q, 1, n)[i] = q[i]
  OBVIOUS

\* Each session has a PrepareSsh and a CloseSsh of its own, neither a reconciliation.
LEMMA MessagesDiffer ==
  \A x, y \in Sessions : /\ Told(x) \in Message /\ Untold(x) \in Message
                         /\ Told(x) # Untold(y) /\ Told(x) # Reconcile /\ Untold(x) # Reconcile
                         /\ Told(x) = Told(y) => x = y
                         /\ Untold(x) = Untold(y) => x = y
<1>1. TAKE x, y \in Sessions
<1>2. Told(x) \in Message /\ Untold(x) \in Message
  BY DEF Told, Untold, Message
<1>3. /\ Told(x).kind = "prepare" /\ Untold(x).kind = "close" /\ Untold(y).kind = "close"
      /\ Reconcile.kind = "reconcile" /\ Told(x).session = x /\ Told(y).session = y
      /\ Untold(x).session = x /\ Untold(y).session = y
  BY DEF Told, Untold, Reconcile
<1>4. QED
  BY <1>2, <1>3

\* A message is the PrepareSsh or the CloseSsh of its session.
LEMMA MessageIs ==
  \A m \in Message : /\ m.session \in Sessions /\ m # Reconcile
                      /\ (m.kind = "prepare" <=> m = Told(m.session))
                      /\ (m.kind = "close" <=> m = Untold(m.session))
                      /\ m.kind \in {"prepare", "close"}
  BY DEF Message, Told, Untold, Reconcile

\* Every message under way was so before, f[s] places further back.
DownKeeps(f) ==
  /\ down' \in [Streams -> Seq(Message)] /\ f \in [Streams -> Nat]
  /\ \A s \in Streams : \A i \in DOMAIN down'[s] :
       i + f[s] \in DOMAIN down[s] /\ down'[s][i] = down[s][i + f[s]]

\* The same of SshReady.
UpKeeps(g) ==
  /\ up' \in [Streams -> Seq(Sessions)] /\ g \in [Streams -> Nat]
  /\ \A s \in Streams : \A i \in DOMAIN up'[s] :
       i + g[s] \in DOMAIN up[s] /\ up'[s][i] = up[s][i + g[s]]

Still == [s \in Streams |-> 0]
After(s) == [t \in Streams |-> IF t = s THEN 1 ELSE 0]

\* What is queued and not touched stays where it was.
LEMMA DownStill == ASSUME SshTypes, UNCHANGED down PROVE DownKeeps(Still)
  BY DEF SshTypes, DownKeeps, Still

\* The same of SshReady.
LEMMA UpStill == ASSUME SshTypes, UNCHANGED up PROVE UpKeeps(Still)
  BY DEF SshTypes, UpKeeps, Still

\* A receive moves what is queued one place up.
LEMMA DownTaken ==
  ASSUME SshTypes, NEW s \in Streams, down[s] # <<>>, Take(s)
  PROVE  DownKeeps(After(s))
<1>1. down[s] \in Seq(Message)
  BY DEF SshTypes
<1>2. /\ down'[s] = Tail(down[s]) /\ down' \in [Streams -> Seq(Message)]
      /\ \A t \in Streams : t # s => down'[t] = down[t]
  BY <1>1, TailIs DEF SshTypes, Take
<1>3. After(s) \in [Streams -> Nat] /\ After(s)[s] = 1 /\ \A t \in Streams : t # s => After(s)[t] = 0
  BY DEF After
<1>4. ASSUME NEW t \in Streams, NEW i \in DOMAIN down'[t]
      PROVE  i + After(s)[t] \in DOMAIN down[t] /\ down'[t][i] = down[t][i + After(s)[t]]
  <2>1. CASE t = s
    <3>1. i \in DOMAIN Tail(down[s])
      BY <1>2, <2>1
    <3>2. i + 1 \in DOMAIN down[s] /\ Tail(down[s])[i] = down[s][i + 1]
      BY <1>1, <3>1, TailIs
    <3>3. QED
      BY <1>2, <1>3, <2>1, <3>2
  <2>2. CASE t # s
    <3>1. i \in DOMAIN down[t] /\ i \in Nat
      BY <1>2, <2>2 DEF SshTypes
    <3>2. QED
      BY <1>2, <1>3, <2>2, <3>1
  <2>3. QED
    BY <2>1, <2>2
<1>5. QED
  BY <1>2, <1>3, <1>4 DEF DownKeeps

\* The same of SshReady.
LEMMA UpTaken ==
  ASSUME SshTypes, NEW s \in Streams, up[s] # <<>>, up' = [up EXCEPT ![s] = Tail(@)]
  PROVE  UpKeeps(After(s))
<1>1. up[s] \in Seq(Sessions)
  BY DEF SshTypes
<1>2. /\ up'[s] = Tail(up[s]) /\ up' \in [Streams -> Seq(Sessions)]
      /\ \A t \in Streams : t # s => up'[t] = up[t]
  BY <1>1, TailIs DEF SshTypes
<1>3. After(s) \in [Streams -> Nat] /\ After(s)[s] = 1 /\ \A t \in Streams : t # s => After(s)[t] = 0
  BY DEF After
<1>4. ASSUME NEW t \in Streams, NEW i \in DOMAIN up'[t]
      PROVE  i + After(s)[t] \in DOMAIN up[t] /\ up'[t][i] = up[t][i + After(s)[t]]
  <2>1. CASE t = s
    <3>1. i \in DOMAIN Tail(up[s])
      BY <1>2, <2>1
    <3>2. i + 1 \in DOMAIN up[s] /\ Tail(up[s])[i] = up[s][i + 1]
      BY <1>1, <3>1, TailIs
    <3>3. QED
      BY <1>2, <1>3, <2>1, <3>2
  <2>2. CASE t # s
    <3>1. i \in DOMAIN up[t] /\ i \in Nat
      BY <1>2, <2>2 DEF SshTypes
    <3>2. QED
      BY <1>2, <1>3, <2>2, <3>1
  <2>3. QED
    BY <2>1, <2>2
<1>5. QED
  BY <1>2, <1>3, <1>4 DEF UpKeeps

\* The end of streams leaves a prefix of what was sent to the agent and nothing for the validator.
LEMMA EndKeeps ==
  ASSUME SshTypes, NEW S \in SUBSET Streams, EndStreams(S)
  PROVE  /\ DownKeeps(Still) /\ UpKeeps(Still)
         /\ stream' \in [Streams -> {"new", "open", "ended"}]
         /\ \A s \in Streams : s \in Open' <=> s \in Open /\ s \notin S
         /\ \A s \in Streams : s \in S => up'[s] = <<>>
<1>1. \A s \in S : Len(down[s]) \in Nat
  BY DEF SshTypes
<1>2. \A n \in UNION {0..Len(down[s]) : s \in S} : n \in Nat
  BY <1>1
<1>3. PICK received : /\ \A s \in S : received[s] \in Nat /\ received[s] <= Len(down[s])
                      /\ down' = [s \in Streams |->
                           IF s \in S THEN SubSeq(down[s], 1, received[s]) ELSE down[s]]
  BY <1>2 DEF EndStreams
<1>4. ASSUME NEW s \in Streams
      PROVE  down'[s] \in Seq(Message) /\ \A i \in DOMAIN down'[s] : i \in DOMAIN down[s] /\ i \in Nat
                                                                    /\ down'[s][i] = down[s][i]
  <2>1. down[s] \in Seq(Message)
    BY DEF SshTypes
  <2>2. CASE s \in S
    BY <1>3, <2>1, <2>2, PrefixIs
  <2>3. CASE s \notin S
    BY <1>3, <2>1, <2>3
  <2>4. QED
    BY <2>2, <2>3
<1>5. down' \in [Streams -> Seq(Message)]
  BY <1>3, <1>4
<1>6. DownKeeps(Still)
  BY <1>4, <1>5 DEF DownKeeps, Still
<1>7. up' = [s \in Streams |-> IF s \in S THEN <<>> ELSE up[s]]
  BY DEF EndStreams
<1>8. UpKeeps(Still)
  BY <1>7 DEF UpKeeps, Still, SshTypes
<1>9. stream' = [s \in Streams |-> IF s \in S THEN "ended" ELSE stream[s]]
  BY DEF EndStreams
<1>10. QED
  BY <1>6, <1>7, <1>8, <1>9 DEF SshTypes, Open

-----------------------------------------------------------------------------
(* Steps that put nothing under way.                                       *)

\* What is under way after such a step was under way before it.
LEMMA PlacesKept ==
  ASSUME NEW f, NEW g, DownKeeps(f), UpKeeps(g), edits' \subseteq edits
  PROVE  /\ \A s \in Streams, i \in Nat : \A m : MessageAt(s, i, m)' => MessageAt(s, i + f[s], m)
         /\ \A s \in Streams, i \in Nat : \A x : ReadyAt(s, i, x)' => ReadyAt(s, i + g[s], x)
         /\ \A s \in Streams : \A e, m : EditOf(e, s, m)' => EditOf(e, s, m)
  BY DEF DownKeeps, UpKeeps, MessageAt, ReadyAt, EditOf

\* Nothing becomes double where nothing is added.
LEMMA OnceKept ==
  ASSUME Once, NEW f, NEW g, DownKeeps(f), UpKeeps(g), edits' \subseteq edits
  PROVE  Once'
<1>1. \A s \in Streams : f[s] \in Nat /\ g[s] \in Nat
  BY DEF DownKeeps, UpKeeps
<1>2. \A i, n \in Nat : i + n \in Nat
  OBVIOUS
<1>3. \A i, k, n \in Nat : i + n = k + n => i = k
  OBVIOUS
<1> USE PlacesKept
<1>4. ASSUME NEW s \in Streams, NEW t \in Streams, NEW x \in Sessions
      PROVE  /\ \A i, k \in Nat : MessageAt(s, i, Told(x))' /\ MessageAt(t, k, Told(x))' => s = t /\ i = k
             /\ \A i, k \in Nat : ReadyAt(s, i, x)' /\ ReadyAt(t, k, x)' => s = t /\ i = k
  BY <1>1, <1>2, <1>3 DEF Once
<1>5. ASSUME NEW s \in Streams, NEW t \in Streams, NEW x \in Sessions
      PROVE  /\ \A e, h \in edits' : EditOf(e, s, Told(x))' /\ EditOf(h, t, Told(x))' => e = h
             /\ \A i, k \in Nat : ~(MessageAt(s, i, Told(x))' /\ ReadyAt(t, k, x)')
  BY <1>1, <1>2 DEF Once
<1>6. ASSUME NEW s \in Streams, NEW t \in Streams, NEW x \in Sessions
      PROVE  /\ \A i \in Nat, e \in edits' : ~(MessageAt(s, i, Told(x))' /\ EditOf(e, t, Told(x))')
             /\ \A i \in Nat, e \in edits' : ~(ReadyAt(s, i, x)' /\ EditOf(e, t, Told(x))')
  BY <1>1, <1>2 DEF Once
<1>7. \A x : Told(x)' = Told(x)
  BY DEF Told
<1>8. QED
  BY <1>4, <1>5, <1>6, <1>7 DEF Once

\* Nothing is announced anew where nothing is added.
LEMMA OnItsWayKept ==
  ASSUME NEW f, NEW g, DownKeeps(f), UpKeeps(g), edits' \subseteq edits,
         NEW s \in Streams, NEW x \in Sessions, OnItsWay(s, x)'
  PROVE  OnItsWay(s, x)
<1>1. f[s] \in Nat /\ g[s] \in Nat
  BY DEF DownKeeps, UpKeeps
<1>2. \A i \in Nat : i + f[s] \in Nat /\ i + g[s] \in Nat
  BY <1>1
<1>3. QED
  BY <1>2, PlacesKept DEF OnItsWay

\* What such a step may do to the calls, the rows and the streams.
Onward ==
  /\ \A x \in Sessions : /\ prepare[x] = "ok" => prepare'[x] = "ok"
                         /\ Over(x) => Over(x)'
                         /\ state'[x] = "ready" => state[x] = "ready" \/ CanBeReady(x)
  /\ late \subseteq late' /\ ending \subseteq ending'
  /\ \A s \in Streams : stream'[s] = "new" <=> stream[s] = "new"

\* A step that adds nothing and leaves the file alone keeps the invariant of links and file.
LEMMA Kept ==
  ASSUME IInv, Onward, NEW f, NEW g, DownKeeps(f), UpKeeps(g), edits' \subseteq edits,
         keys' = keys, raced' = raced,
         \A x \in Sessions : state'[x] = "ready" /\ state[x] # "ready" =>
            \E s \in Streams, i \in Nat : ReadyAt(s, i, x),
         \A s \in Streams, x \in Sessions :
            s \in Open' /\ OnItsWay(s, x)' => x \in tokens' \/ close'[x] # "idle"
  PROVE  Once' /\ Expected' /\ Closes' /\ Rewrites' /\ KeysThere'
<1>1. Once'
  BY OnceKept DEF IInv
<1>2. Expected'
  BY OnItsWayKept DEF IInv, Expected, Onward
<1>3. \A s \in Streams : \A i \in Nat : i + f[s] \in Nat /\ i + g[s] \in Nat
  BY DEF DownKeeps, UpKeeps
<1>4. Closes'
  BY <1>3, PlacesKept DEF IInv, Closes, Onward, Untold
<1>5. Rewrites'
  <2>1. \A e \in edits' : e \in edits /\ e.by \in Streams
    BY DEF IInv, SshTypes, Edit
  <2>2. QED
    BY <2>1 DEF IInv, Rewrites, Onward, Told, Untold, Reconcile
<1>6. KeysThere'
  BY <1>3, PlacesKept DEF IInv, KeysThere, Onward
<1>7. QED
  BY <1>1, <1>2, <1>4, <1>5, <1>6

-----------------------------------------------------------------------------
(* The calls and the table of sessions.                                    *)

\* The same of a step of the manager and its callers.
LEMMA ManagerKept ==
  ASSUME IInv, Onward, UNCHANGED <<links, file>>,
         \A x \in Sessions : state'[x] = "ready" => state[x] = "ready",
         \A x \in Sessions : prepare[x] = "ok" /\ (x \in tokens \/ close[x] # "idle") =>
                               x \in tokens' \/ close'[x] # "idle"
  PROVE  Once' /\ Expected' /\ Closes' /\ Rewrites' /\ KeysThere'
<1>1. DownKeeps(Still) /\ UpKeeps(Still) /\ edits' \subseteq edits
  BY DownStill, UpStill DEF IInv
<1>2. \A s \in Streams, x \in Sessions :
         s \in Open' /\ OnItsWay(s, x)' => x \in tokens' \/ close'[x] # "idle"
  <2>1. \A s \in Streams, x \in Sessions : OnItsWay(s, x)' => OnItsWay(s, x)
    BY <1>1, OnItsWayKept
  <2>2. Open' = Open
    BY DEF Open
  <2>3. QED
    BY <2>1, <2>2 DEF IInv, Expected
<1>3. QED
  BY <1>1, <1>2, Kept

\* Manager.Create inserts a row.
LEMMA CreateKeeps == ASSUME IInv, NEW x \in Sessions, Create(x) PROVE IInv'
<1>1. Allocated \in Ports /\ Allocated # NoPort /\ \A y \in Sessions : port[y] # Allocated
  BY AllocatedIsPort DEF Create, Insertable
<1>2. state[x] = "none" /\ close[x] = "idle" /\ x \notin tokens
  BY DEF Create, IInv, Rows
<1>3. SshTypes' /\ PortsOfLiveSessions'
  BY <1>1, <1>2 DEF IInv, Create, SshTypes, PortsOfLiveSessions, Live
<1>4. Rows'
  BY <1>2 DEF IInv, Create, SshTypes, Rows, Over
<1>5. Onward
  BY <1>2 DEF IInv, Create, SshTypes, Onward, Over
<1>6. Once' /\ Expected' /\ Closes' /\ Rewrites' /\ KeysThere'
  BY <1>2, <1>5, ManagerKept DEF IInv, Create, SshTypes
<1>7. QED
  BY <1>3, <1>4, <1>6 DEF IInv

\* PrepareSsh and CloseSsh on what they do besides rows and links, and time.
LEMMA CallKeeps ==
  ASSUME IInv, NEW x \in Sessions,
         CreateFails(x) \/ DispatchPrepareFails(x) \/ AbandonToken(x) \/ CloseToken(x) \/ LastSecond(x) \/ TimePasses(x)
  PROVE  IInv'
<1>1. SshTypes' /\ PortsOfLiveSessions'
  BY DEF IInv, CreateFails, DispatchPrepareFails, AbandonToken, CloseToken, LastSecond, TimePasses, SshTypes,
         PortsOfLiveSessions, Live
<1>2. Rows'
  BY DEF IInv, CreateFails, DispatchPrepareFails, AbandonToken, CloseToken, LastSecond, TimePasses, SshTypes, Rows, Over
<1>3. Onward
  BY DEF IInv, CreateFails, DispatchPrepareFails, AbandonToken, CloseToken, LastSecond, TimePasses, SshTypes, Onward, Over
<1>4. \A y \in Sessions : prepare[y] = "ok" /\ (y \in tokens \/ close[y] # "idle") =>
                            y \in tokens' \/ close'[y] # "idle"
  BY DEF IInv, CreateFails, DispatchPrepareFails, AbandonToken, CloseToken, LastSecond, TimePasses, SshTypes
<1>5. UNCHANGED <<links, file, state>>
  BY DEF CreateFails, DispatchPrepareFails, AbandonToken, CloseToken, LastSecond, TimePasses
<1>6. Once' /\ Expected' /\ Closes' /\ Rewrites' /\ KeysThere'
  BY <1>3, <1>4, <1>5, ManagerKept
<1>7. QED
  BY <1>1, <1>2, <1>6 DEF IInv

\* The row is closed, by CloseSsh or after a failed PrepareSsh.
LEMMA CloseRowKeeps ==
  ASSUME IInv, NEW x \in Sessions, AbandonRow(x) \/ CloseUpdate(x)
  PROVE  IInv'
<1>1. x \notin tokens
  BY DEF IInv, AbandonRow, CloseUpdate, Rows
<1>2. SshTypes' /\ PortsOfLiveSessions'
  <2>1. \/ Live(x) /\ state' = [state EXCEPT ![x] = "closed"] /\ port' = [port EXCEPT ![x] = NoPort]
        \/ UNCHANGED <<state, port>>
    BY DEF AbandonRow, CloseUpdate, CloseRow
  <2>2. SshTypes'
    BY <2>1 DEF IInv, AbandonRow, CloseUpdate, SshTypes
  <2>3. CASE UNCHANGED <<state, port>>
    BY <2>2, <2>3 DEF IInv, PortsOfLiveSessions, Live
  <2>4. CASE /\ Live(x)
             /\ state' = [state EXCEPT ![x] = "closed"] /\ port' = [port EXCEPT ![x] = NoPort]
    <3>1. ~Live(x)' /\ port'[x] = NoPort
      BY <2>4 DEF IInv, SshTypes, Live
    <3>2. \A y \in Sessions \ {x} : (Live(y)' <=> Live(y)) /\ port'[y] = port[y]
      BY <2>4 DEF IInv, SshTypes, Live
    <3>3. PortsOfLiveSessions'
      BY <3>1, <3>2 DEF IInv, PortsOfLiveSessions
    <3>4. QED
      BY <2>2, <3>3
  <2>5. QED
    BY <2>1, <2>2, <2>3, <2>4
<1>3. Rows'
  BY <1>1 DEF IInv, AbandonRow, CloseUpdate, CloseRow, SshTypes, Rows, Over, Live
<1>4. Onward
  BY DEF IInv, AbandonRow, CloseUpdate, CloseRow, SshTypes, Onward, Over, Live
<1>5. \A y \in Sessions : /\ y \in tokens \/ close[y] # "idle" => y \in tokens' \/ close'[y] # "idle"
                          /\ state'[y] = "ready" => state[y] = "ready"
  BY DEF IInv, AbandonRow, CloseUpdate, CloseRow, SshTypes
<1>6. UNCHANGED <<links, file>>
  BY DEF AbandonRow, CloseUpdate
<1>7. Once' /\ Expected' /\ Closes' /\ Rewrites' /\ KeysThere'
  BY <1>4, <1>5, <1>6, ManagerKept
<1>8. QED
  BY <1>2, <1>3, <1>7 DEF IInv

-----------------------------------------------------------------------------
(* Streams that end, and messages that are taken or lost.                  *)

\* Who waits for a session still does where no token goes.
LEMMA ExpectedStays ==
  ASSUME IInv, NEW f, NEW g, DownKeeps(f), UpKeeps(g), edits' \subseteq edits,
         Open' \subseteq Open, UNCHANGED <<tokens, close>>
  PROVE  \A s \in Streams, x \in Sessions :
            s \in Open' /\ OnItsWay(s, x)' => x \in tokens' \/ close'[x] # "idle"
  BY OnItsWayKept DEF IInv, Expected

\* A step of the streams alone keeps the invariant.
LEMMA LinksKept ==
  ASSUME IInv, UNCHANGED <<manager, expiry, callers, keys, raced>>,
         NEW f, NEW g, DownKeeps(f), UpKeeps(g), edits' \subseteq edits,
         Open' \subseteq Open, \A s \in Streams : stream'[s] = "new" <=> stream[s] = "new",
         stream' \in [Streams -> {"new", "open", "ended"}], alive' \subseteq alive
  PROVE  IInv'
<1>1. SshTypes'
  BY DEF IInv, SshTypes, DownKeeps, UpKeeps
<1>2. PortsOfLiveSessions' /\ Rows'
  BY DEF IInv, PortsOfLiveSessions, Live, Rows, Over
<1>3. Onward
  BY DEF Onward, Over
<1>4. \A s \in Streams, x \in Sessions :
         s \in Open' /\ OnItsWay(s, x)' => x \in tokens' \/ close'[x] # "idle"
  BY ExpectedStays
<1>5. Once' /\ Expected' /\ Closes' /\ Rewrites' /\ KeysThere'
  BY <1>3, <1>4, Kept
<1>6. QED
  BY <1>1, <1>2, <1>5 DEF IInv

\* A stream breaks.
LEMMA BreakKeeps ==
  ASSUME IInv, NEW s \in Streams, Break(s) \/ RejectReady(s)
  PROVE  IInv'
<1>1. s \in Open /\ EndStreams({s}) /\ UNCHANGED <<manager, expiry, callers, alive, file>>
  BY DEF Break, RejectReady
<1>2. /\ DownKeeps(Still) /\ UpKeeps(Still)
      /\ stream' \in [Streams -> {"new", "open", "ended"}]
      /\ \A t \in Streams : t \in Open' <=> t \in Open /\ t \notin {s}
  BY <1>1, EndKeeps DEF IInv
<1>3. Open' \subseteq Open
  BY <1>2 DEF Open
<1>4. \A t \in Streams : stream'[t] = "new" <=> stream[t] = "new"
  BY <1>1 DEF EndStreams, Open
<1>5. QED
  BY <1>1, <1>2, <1>3, <1>4, LinksKept

\* A restart of the agent loses what its loops held.
LEMMA AgentLosesKeeps ==
  ASSUME IInv, AgentCrash \/ \E s \in Streams : AgentDrops(s)
  PROVE  IInv'
<1>1. CASE AgentCrash
  <2>1. DownKeeps(Still)
    BY <1>1 DEF AgentCrash, DownKeeps, Still
  <2>2. UpKeeps(Still)
    BY <1>1, UpStill DEF AgentCrash, IInv
  <2>3. Open' = Open /\ edits' \subseteq edits /\ alive' \subseteq alive
    BY <1>1 DEF AgentCrash, Open
  <2>4. stream' = stream /\ UNCHANGED <<manager, expiry, callers, keys, raced>>
    BY <1>1 DEF AgentCrash
  <2>5. QED
    BY <2>1, <2>2, <2>3, <2>4, LinksKept DEF IInv, SshTypes
<1>2. CASE \E s \in Streams : AgentDrops(s)
  <2>1. PICK s \in Streams : AgentDrops(s)
    BY <1>2
  <2>2. DownKeeps(After(s)) /\ UpKeeps(Still)
    BY <2>1, DownTaken, UpStill DEF AgentDrops, CanTake, IInv
  <2>3. Open' = Open
    BY <2>1 DEF AgentDrops, Open
  <2>4. stream' = stream /\ alive' = alive /\ UNCHANGED <<manager, expiry, callers, file>>
    BY <2>1 DEF AgentDrops
  <2>5. QED
    BY <2>2, <2>3, <2>4, LinksKept DEF IInv, SshTypes
<1>3. QED
  BY <1>1, <1>2

\* Once its SshReady is used up, nothing of the session's is under way any more.
LEMMA ReadyKeeps == ASSUME IInv, NEW s \in Streams, Ready(s) PROVE IInv'
<1>1. up[s] # <<>> /\ up[s] \in Seq(Sessions)
  BY DEF Ready, IInv, SshTypes
<1>2. PICK x \in Sessions : x = Head(up[s]) /\ ReadyAt(s, 1, x)
  BY <1>1, TailIs DEF ReadyAt
<1>3. /\ s \in Open /\ x \in tokens /\ state[x] = "preparing" /\ x \notin late
      /\ state' = [state EXCEPT ![x] = "ready"] /\ tokens' = tokens \ {x}
      /\ up' = [up EXCEPT ![s] = Tail(@)]
      /\ UNCHANGED <<port, expiry, callers, stream, down, alive, file>>
  BY <1>2 DEF Ready, CanBeReady
<1>4. UpKeeps(After(s)) /\ DownKeeps(Still)
  BY <1>1, <1>3, UpTaken, DownStill DEF IInv
<1>5. SshTypes'
  BY <1>2, <1>3, <1>4 DEF IInv, SshTypes, UpKeeps
<1>6. PortsOfLiveSessions'
  BY <1>2, <1>3 DEF IInv, SshTypes, PortsOfLiveSessions, Live
<1>7. prepare[x] = "ok"
  BY <1>2 DEF IInv, Expected, OnItsWay
<1>8. Rows'
  BY <1>2, <1>3, <1>7 DEF IInv, SshTypes, Rows, Over
<1>9. Onward
  BY <1>2, <1>3 DEF IInv, SshTypes, Onward, Over, CanBeReady
<1>10. \A t \in Streams : ~OnItsWay(t, x)'
  <2>1. After(s) \in [Streams -> Nat] /\ After(s)[s] = 1 /\ Still \in [Streams -> Nat]
    BY DEF After, Still
  <2>2. \A t \in Streams, i \in Nat : ~MessageAt(t, i, Told(x))'
    <3>1. \A t \in Streams, i \in Nat : MessageAt(t, i, Told(x))' => MessageAt(t, i, Told(x))
      BY <1>3 DEF MessageAt, Told
    <3>2. QED
      BY <1>2, <3>1 DEF IInv, Once
  <2>3. \A t \in Streams : \A e : ~EditOf(e, t, Told(x))'
    <3>1. \A t \in Streams : \A e : EditOf(e, t, Told(x))' => e \in edits /\ EditOf(e, t, Told(x))
      BY <1>3 DEF EditOf, Told
    <3>2. QED
      BY <1>2, <3>1 DEF IInv, Once
  <2>4. ASSUME NEW t \in Streams, NEW i \in Nat, ReadyAt(t, i, x)'
        PROVE  FALSE
    <3>1. ReadyAt(t, i + After(s)[t], x) /\ After(s)[t] \in Nat /\ i \in DOMAIN up'[t]
      BY <1>4, <2>1, <2>4 DEF UpKeeps, ReadyAt
    <3>2. t = s /\ i + After(s)[t] = 1
      BY <1>2, <3>1 DEF IInv, Once
    <3>3. up'[s] \in Seq(Sessions) /\ i # 0
      BY <1>5, <3>1, <3>2 DEF SshTypes
    <3>4. QED
      BY <2>1, <3>2, <3>3
  <2>5. QED
    BY <2>2, <2>3, <2>4 DEF OnItsWay, Told
<1>11. ASSUME NEW t \in Streams, NEW y \in Sessions, t \in Open', OnItsWay(t, y)'
       PROVE  y \in tokens' \/ close'[y] # "idle"
  <2>1. y # x /\ OnItsWay(t, y)
    BY <1>3, <1>4, <1>10, <1>11, OnItsWayKept
  <2>2. t \in Open
    BY <1>3, <1>11 DEF Open
  <2>3. QED
    BY <1>3, <2>1, <2>2 DEF IInv, Expected
<1>12. \A y \in Sessions : state'[y] = "ready" /\ state[y] # "ready" =>
          \E t \in Streams, i \in Nat : ReadyAt(t, i, y)
  BY <1>2, <1>3 DEF IInv, SshTypes
<1>13. Once' /\ Expected' /\ Closes' /\ Rewrites' /\ KeysThere'
  BY <1>3, <1>4, <1>9, <1>11, <1>12, Kept
<1>14. QED
  BY <1>5, <1>6, <1>8, <1>13 DEF IInv

\* A restart of the validator ends every stream and loses the tokens.
LEMMA RestartKeeps == ASSUME IInv, ValidatorRestart PROVE IInv'
<1>1. Open \in SUBSET Streams /\ EndStreams(Open)
  BY DEF ValidatorRestart, Open
<1>2. /\ DownKeeps(Still) /\ UpKeeps(Still)
      /\ stream' \in [Streams -> {"new", "open", "ended"}]
      /\ \A t \in Streams : t \in Open' <=> t \in Open /\ t \notin Open
  BY <1>1, EndKeeps DEF IInv
<1>3. \A t \in Streams : t \notin Open' /\ (stream'[t] = "new" <=> stream[t] = "new")
  BY <1>1, <1>2 DEF EndStreams, Open
<1>4. SshTypes'
  BY <1>2 DEF IInv, ValidatorRestart, SshTypes, DownKeeps, UpKeeps
<1>5. PortsOfLiveSessions'
  BY DEF IInv, ValidatorRestart, SshTypes, PortsOfLiveSessions, Live
<1>6. Rows'
  BY DEF IInv, ValidatorRestart, SshTypes, Rows, Over, Live
<1>7. Onward
  BY <1>3 DEF IInv, ValidatorRestart, SshTypes, Onward, Over, Live
<1>8. \A y \in Sessions : state'[y] = "ready" => state[y] = "ready"
  BY DEF IInv, ValidatorRestart, SshTypes
<1>9. edits' = edits /\ keys' = keys /\ raced' = raced
  BY DEF ValidatorRestart
<1>10. Once' /\ Expected' /\ Closes' /\ Rewrites' /\ KeysThere'
  BY <1>2, <1>3, <1>7, <1>8, <1>9, Kept
<1>11. QED
  BY <1>4, <1>5, <1>6, <1>10 DEF IInv

-----------------------------------------------------------------------------
(* Messages to the agent.                                                  *)

\* Dispatch puts one message at the end of one queue.
LEMMA QueuedIs ==
  ASSUME SshTypes, NEW s \in Streams, NEW m \in Message,
         down' = [down EXCEPT ![s] = Append(@, m)]
  PROVE  /\ down' \in [Streams -> Seq(Message)]
         /\ \A t \in Streams, i \in Nat : \A n : MessageAt(t, i, n)' =>
              MessageAt(t, i, n) \/ (t = s /\ i = Len(down[s]) + 1 /\ n = m)
<1>1. down[s] \in Seq(Message)
  BY DEF SshTypes
<1>2. /\ down'[s] = Append(down[s], m) /\ down' \in [Streams -> Seq(Message)]
      /\ \A t \in Streams : t # s => down'[t] = down[t]
  BY <1>1, AppendIs DEF SshTypes
<1>3. \A i \in DOMAIN down'[s] : \/ i \in DOMAIN down[s] /\ down'[s][i] = down[s][i]
                                 \/ i = Len(down[s]) + 1 /\ down'[s][i] = m
  BY <1>1, <1>2, AppendIs
<1>4. QED
  BY <1>2, <1>3 DEF MessageAt

\* PrepareSsh is queued for the agent.
LEMMA DispatchPrepareKeeps ==
  ASSUME IInv, NEW x \in Sessions, DispatchPrepare(x)
  PROVE  IInv'
<1>1. /\ prepare[x] = "created" /\ (x \in tokens \/ close[x] # "idle")
      /\ prepare' = [prepare EXCEPT ![x] = "ok"]
      /\ UNCHANGED <<manager, expiry, close, stream, up, alive, file>>
  BY DEF DispatchPrepare, IInv, Rows
<1>2. PortsOfLiveSessions' /\ Rows'
  BY <1>1 DEF IInv, SshTypes, PortsOfLiveSessions, Live, Rows, Over
<1>3. Onward
  BY <1>1 DEF IInv, SshTypes, Onward, Over
<1>4. CASE UNCHANGED down
  <2>1. SshTypes'
    BY <1>1, <1>4 DEF IInv, SshTypes
  <2>2. Once' /\ Expected' /\ Closes' /\ Rewrites' /\ KeysThere'
    BY <1>1, <1>3, <1>4, ManagerKept
  <2>3. QED
    BY <1>2, <2>1, <2>2 DEF IInv
<1>5. CASE \E s \in Open : down' = [down EXCEPT ![s] = Append(@, Told(x))]
  <2>0. \A y : Told(y)' = Told(y) /\ Untold(y)' = Untold(y)
    BY DEF Told, Untold
  <2>1. PICK s \in Open : down' = [down EXCEPT ![s] = Append(@, Told(x))]
    BY <1>5
  <2>2. s \in Streams /\ stream[s] # "new"
    BY DEF Open
  <2>3. /\ down' \in [Streams -> Seq(Message)]
        /\ \A t \in Streams, i \in Nat : \A n : MessageAt(t, i, n)' =>
             MessageAt(t, i, n) \/ (t = s /\ i = Len(down[s]) + 1 /\ n = Told(x))
    BY <2>1, <2>2, QueuedIs, MessagesDiffer DEF IInv
  <2>4. SshTypes'
    BY <1>1, <2>3 DEF IInv, SshTypes
  <2>5. \A t \in Streams, i \in Nat : \A y : ReadyAt(t, i, y)' => ReadyAt(t, i, y)
    BY <1>1 DEF ReadyAt
  <2>6. \A t \in Streams : \A e, n : EditOf(e, t, n)' => e \in edits /\ EditOf(e, t, n)
    BY <1>1 DEF EditOf
  <2>7. /\ \A t \in Streams, i \in Nat : ~MessageAt(t, i, Told(x)) /\ ~ReadyAt(t, i, x)
        /\ \A t \in Streams, e \in edits : ~EditOf(e, t, Told(x))
    <3>1. \A t \in Streams : ~OnItsWay(t, x)
      BY <1>1 DEF IInv, Expected
    <3>2. QED
      BY <3>1 DEF OnItsWay
  <2>8. Once'
    <3>1. ASSUME NEW t \in Streams, NEW i \in Nat, NEW y \in Sessions, MessageAt(t, i, Told(y))'
          PROVE  MessageAt(t, i, Told(y)) \/ (t = s /\ i = Len(down[s]) + 1 /\ y = x)
      BY <2>3, <2>0, <3>1, MessagesDiffer
    <3>2. QED
      BY <2>0, <2>5, <2>6, <2>7, <3>1 DEF IInv, Once
  <2>9. ASSUME NEW t \in Streams, NEW y \in Sessions, OnItsWay(t, y)'
        PROVE  OnItsWay(t, y) \/ (t = s /\ y = x)
    BY <2>0, <2>3, <2>5, <2>6, <2>9, MessagesDiffer DEF OnItsWay
  <2>10. Expected'
    BY <1>1, <2>2, <2>9 DEF IInv, SshTypes, Expected, Open
  <2>11. Closes'
    <3>1. \A t \in Streams, i \in Nat, y \in Sessions :
            MessageAt(t, i, Untold(y))' => MessageAt(t, i, Untold(y))
      BY <2>0, <2>3, MessagesDiffer
    <3>2. \A y \in Sessions : Over(y)' <=> Over(y)
      BY <1>1 DEF Over
    <3>3. QED
      BY <2>0, <2>6, <3>1, <3>2 DEF IInv, Closes
  <2>12. Rewrites' /\ KeysThere'
    BY <1>1, <2>5 DEF IInv, Rewrites, KeysThere, Over, Told, Untold, Reconcile
  <2>13. QED
    BY <1>2, <2>4, <2>8, <2>10, <2>11, <2>12 DEF IInv
<1>6. QED
  BY <1>4, <1>5 DEF DispatchPrepare, Told

\* CloseSsh is queued for the agent, or finds it offline.
LEMMA CloseDispatchKeeps ==
  ASSUME IInv, NEW x \in Sessions, CloseDispatch(x)
  PROVE  IInv'
<1>1. /\ close[x] = "dispatching" /\ Over(x)
      /\ close' = [close EXCEPT ![x] = "done"]
      /\ UNCHANGED <<manager, expiry, prepare, stream, up, alive, file>>
  BY DEF CloseDispatch, IInv, Rows
<1>2. PortsOfLiveSessions' /\ Rows'
  BY <1>1 DEF IInv, SshTypes, PortsOfLiveSessions, Live, Rows, Over
<1>3. Onward /\ \A y \in Sessions : close'[y] = "idle" <=> close[y] = "idle"
  BY <1>1 DEF IInv, SshTypes, Onward, Over
<1>4. CASE UNCHANGED down
  <2>1. SshTypes'
    BY <1>1, <1>4 DEF IInv, SshTypes
  <2>2. Once' /\ Expected' /\ Closes' /\ Rewrites' /\ KeysThere'
    BY <1>1, <1>3, <1>4, ManagerKept
  <2>3. QED
    BY <1>2, <2>1, <2>2 DEF IInv
<1>5. CASE \E s \in Open : down' = [down EXCEPT ![s] = Append(@, Untold(x))]
  <2>0. \A y : Told(y)' = Told(y) /\ Untold(y)' = Untold(y)
    BY DEF Told, Untold
  <2>1. PICK s \in Open : down' = [down EXCEPT ![s] = Append(@, Untold(x))]
    BY <1>5
  <2>2. s \in Streams
    BY DEF Open
  <2>3. /\ down' \in [Streams -> Seq(Message)]
        /\ \A t \in Streams, i \in Nat : \A n : MessageAt(t, i, n)' =>
             MessageAt(t, i, n) \/ (t = s /\ i = Len(down[s]) + 1 /\ n = Untold(x))
    BY <2>1, <2>2, QueuedIs, MessagesDiffer DEF IInv
  <2>4. SshTypes'
    BY <1>1, <2>3 DEF IInv, SshTypes
  <2>5. \A t \in Streams, i \in Nat : \A y : ReadyAt(t, i, y)' => ReadyAt(t, i, y)
    BY <1>1 DEF ReadyAt
  <2>6. \A t \in Streams : \A e, n : EditOf(e, t, n)' => e \in edits /\ EditOf(e, t, n)
    BY <1>1 DEF EditOf
  <2>7. \A t \in Streams, i \in Nat, y \in Sessions : MessageAt(t, i, Told(y))' => MessageAt(t, i, Told(y))
    BY <2>0, <2>3, MessagesDiffer
  <2>8. Once'
    BY <2>0, <2>5, <2>6, <2>7 DEF IInv, Once
  <2>9. ASSUME NEW t \in Streams, NEW y \in Sessions, OnItsWay(t, y)'
        PROVE  OnItsWay(t, y)
    BY <2>0, <2>5, <2>6, <2>7, <2>9 DEF OnItsWay
  <2>10. Expected'
    BY <1>1, <1>3, <2>9 DEF IInv, Expected, Open
  <2>11. Closes'
    <3>1. \A t \in Streams, i \in Nat, y \in Sessions :
            MessageAt(t, i, Untold(y))' => MessageAt(t, i, Untold(y)) \/ Over(y)
      BY <1>1, <2>0, <2>3, MessagesDiffer
    <3>2. \A y \in Sessions : Over(y)' <=> Over(y)
      BY <1>1 DEF Over
    <3>3. QED
      BY <2>0, <2>6, <3>1, <3>2 DEF IInv, Closes
  <2>12. Rewrites' /\ KeysThere'
    BY <1>1, <2>5 DEF IInv, Rewrites, KeysThere, Over, Told, Untold, Reconcile
  <2>13. QED
    BY <1>2, <2>4, <2>8, <2>10, <2>11, <2>12 DEF IInv
<1>6. QED
  BY <1>4, <1>5 DEF CloseDispatch, Untold

-----------------------------------------------------------------------------
(* The agent and its file.                                                 *)

\* The messages are the same before and after a step.
LEMMA ToldStays == \A y : Told(y)' = Told(y) /\ Untold(y)' = Untold(y) /\ Reconcile' = Reconcile
  BY DEF Told, Untold, Reconcile

\* KeyStore.Reconcile begins its rewrite.
LEMMA ReconcilesKeeps ==
  ASSUME IInv, NEW s \in Streams, AgentReconciles(s)
  PROVE  IInv'
<1> DEFINE r == [by |-> s, for |-> Reconcile, before |-> keys, after |-> keys \ ending]
<1>1. /\ stream[s] = "new" /\ \A e \in edits : e.for # Reconcile
      /\ edits' = edits \cup {r}
      /\ UNCHANGED <<manager, expiry, callers, links, keys, raced>>
  BY DEF AgentReconciles, StartEdit
<1>2. /\ r.by = s /\ r.for = Reconcile /\ r.before = keys /\ r.after = keys \ ending
      /\ r \in Edit
  BY DEF IInv, SshTypes, Edit
<1>3. SshTypes'
  BY <1>1, <1>2 DEF IInv, SshTypes
<1> HIDE DEF r
<1>4. PortsOfLiveSessions' /\ Rows'
  BY <1>1 DEF IInv, PortsOfLiveSessions, Live, Rows, Over
<1>5. \A t \in Streams : \A e, y : EditOf(e, t, Told(y))' /\ y \in Sessions => e \in edits /\ EditOf(e, t, Told(y))
  BY <1>1, <1>2, MessagesDiffer, ToldStays DEF EditOf
<1>6. \A t \in Streams : \A e, y : EditOf(e, t, Untold(y))' /\ y \in Sessions => e \in edits /\ EditOf(e, t, Untold(y))
  BY <1>1, <1>2, MessagesDiffer, ToldStays DEF EditOf
<1>7. /\ \A t \in Streams, i \in Nat : \A n : MessageAt(t, i, n)' <=> MessageAt(t, i, n)
      /\ \A t \in Streams, i \in Nat : \A y : ReadyAt(t, i, y)' <=> ReadyAt(t, i, y)
  BY <1>1 DEF MessageAt, ReadyAt
<1>8. Once'
  BY <1>5, <1>7, ToldStays DEF IInv, Once
<1>9. \A t \in Streams, y \in Sessions : OnItsWay(t, y)' => OnItsWay(t, y)
  BY <1>5, <1>7, ToldStays DEF OnItsWay
<1>10. Expected'
  BY <1>1, <1>9 DEF IInv, Expected, Open
<1>11. Closes'
  BY <1>1, <1>6, <1>7, ToldStays DEF IInv, Closes, Over
<1>12. Rewrites'
  <2>1. \A e \in edits' : e \in edits \/ e = r
    BY <1>1
  <2>2. \A e, h \in edits' : e.for = Reconcile /\ h.for = Reconcile => e = h
    BY <1>1, <2>1
  <2>3. \A y \in Sessions : r.for # Told(y) /\ r.for # Untold(y)
    BY <1>2, MessagesDiffer
  <2>4. QED
    BY <1>1, <1>2, <2>1, <2>2, <2>3, ToldStays DEF IInv, Rewrites
<1>13. KeysThere'
  BY <1>1, <1>7 DEF IInv, KeysThere, Over
<1>14. QED
  BY <1>3, <1>4, <1>8, <1>10, <1>11, <1>12, <1>13 DEF IInv

\* Reconcile has replaced the file and the stream opens.
LEMMA ConnectKeeps ==
  ASSUME IInv, NEW s \in Streams, Connect(s)
  PROVE  IInv'
<1>1. PICK e \in edits : e.by = s /\ e.for = Reconcile /\ Replace(e)
  BY DEF Connect
<1>2. /\ edits' = edits \ {e} /\ keys' = e.after /\ raced' = (raced \/ keys # e.before)
      /\ stream' = [stream EXCEPT ![s] = "open"] /\ alive' = alive \cup {s}
      /\ UNCHANGED <<manager, expiry, callers, down, up>>
  BY <1>1 DEF Connect, Replace
<1>3. /\ stream[s] = "new" /\ e.before \ ending \subseteq e.after
      /\ \A h \in edits' : h \in edits /\ h.for # Reconcile
  BY <1>1, <1>2 DEF IInv, Rewrites
<1>4. SshTypes'
  BY <1>2 DEF IInv, SshTypes, Edit
<1>5. PortsOfLiveSessions' /\ Rows'
  BY <1>2 DEF IInv, PortsOfLiveSessions, Live, Rows, Over
<1>6. DownKeeps(Still) /\ UpKeeps(Still) /\ edits' \subseteq edits
  BY <1>2, DownStill, UpStill DEF IInv
<1>7. Once'
  BY <1>6, OnceKept DEF IInv
<1>8. \A t \in Streams, y \in Sessions : OnItsWay(t, y)' => OnItsWay(t, y) /\ t # s
  BY <1>3, <1>6, OnItsWayKept DEF IInv, Expected
<1>9. Expected'
  BY <1>2, <1>8 DEF IInv, SshTypes, Expected, Open
<1>10. Closes'
  <2>1. /\ \A t \in Streams, i \in Nat : \A n : MessageAt(t, i, n)' <=> MessageAt(t, i, n)
        /\ \A t \in Streams : \A h, n : EditOf(h, t, n)' => h \in edits /\ EditOf(h, t, n)
    BY <1>2 DEF MessageAt, EditOf
  <2>2. QED
    BY <1>2, <2>1, ToldStays DEF IInv, Closes, Over
<1>11. Rewrites'
  BY <1>2, <1>3, ToldStays DEF IInv, Rewrites
<1>12. KeysThere'
  <2>1. \A t \in Streams, i \in Nat : \A y : ReadyAt(t, i, y)' <=> ReadyAt(t, i, y)
    BY <1>2 DEF ReadyAt
  <2>2. ~raced' => ~raced /\ keys \ ending \subseteq keys'
    BY <1>2, <1>3 DEF IInv, SshTypes
  <2>3. QED
    BY <1>2, <2>1, <2>2 DEF IInv, KeysThere, Over
<1>13. QED
  BY <1>4, <1>5, <1>7, <1>9, <1>10, <1>11, <1>12 DEF IInv

\* The message leaves the queue and its rewrite of the file begins.
LEMMA EditsKeeps ==
  ASSUME IInv, NEW s \in Streams, AgentEdits(s)
  PROVE  IInv'
<1>1. down[s] # <<>> /\ down[s] \in Seq(Message)
  BY DEF AgentEdits, CanTake, IInv, SshTypes
<1>2. PICK m \in Message : m = Head(down[s]) /\ MessageAt(s, 1, m)
  BY <1>1, TailIs DEF MessageAt
<1>3. PICK r : /\ edits' = edits \cup {r} /\ r.by = s /\ r.for = m /\ r \in Edit
               /\ m.kind = "prepare" => r.after = r.before \cup {m.session}
               /\ m.kind = "close" => r.after = r.before \ {m.session}
  <2>1. m.session \in Sessions /\ (m.kind = "prepare" => m.kind # "close")
    BY MessageIs
  <2>2. \/ m.kind = "prepare" /\ StartEdit(s, m, keys \cup {m.session})
        \/ m.kind = "close" /\ StartEdit(s, m, keys \ {m.session})
    BY <1>2 DEF AgentEdits
  <2>3. CASE m.kind = "prepare" /\ StartEdit(s, m, keys \cup {m.session})
    <3> DEFINE r == [by |-> s, for |-> m, before |-> keys, after |-> keys \cup {m.session}]
    <3>1. r \in Edit /\ r.by = s /\ r.for = m /\ r.after = r.before \cup {m.session}
      BY <2>1 DEF IInv, SshTypes, Edit
    <3>2. edits' = edits \cup {r}
      BY <2>3 DEF StartEdit
    <3> HIDE DEF r
    <3>3. QED
      BY <2>1, <2>3, <3>1, <3>2
  <2>4. CASE m.kind = "close" /\ StartEdit(s, m, keys \ {m.session})
    <3> DEFINE r == [by |-> s, for |-> m, before |-> keys, after |-> keys \ {m.session}]
    <3>1. r \in Edit /\ r.by = s /\ r.for = m /\ r.after = r.before \ {m.session}
      BY <2>1 DEF IInv, SshTypes, Edit
    <3>2. edits' = edits \cup {r}
      BY <2>4 DEF StartEdit
    <3> HIDE DEF r
    <3>3. QED
      BY <2>1, <2>4, <3>1, <3>2
  <2>5. QED
    BY <2>2, <2>3, <2>4
<1>4. UNCHANGED <<manager, expiry, callers, stream, up, alive, keys, raced>> /\ Take(s)
  BY DEF AgentEdits
<1>5. DownKeeps(After(s)) /\ After(s) \in [Streams -> Nat] /\ After(s)[s] = 1
  BY <1>1, <1>4, DownTaken DEF IInv, After
<1>6. SshTypes'
  BY <1>3, <1>4, <1>5 DEF IInv, SshTypes, DownKeeps
<1>7. PortsOfLiveSessions' /\ Rows'
  BY <1>4 DEF IInv, PortsOfLiveSessions, Live, Rows, Over
<1>8. \A t \in Streams, i \in Nat : \A n : MessageAt(t, i, n)' =>
        /\ MessageAt(t, i + After(s)[t], n) /\ i + After(s)[t] \in Nat
        /\ t = s => i + After(s)[t] # 1
  <2>1. \A t \in Streams, i \in Nat : \A n : MessageAt(t, i, n)' =>
          MessageAt(t, i + After(s)[t], n) /\ After(s)[t] \in Nat
    BY <1>5 DEF MessageAt, DownKeeps
  <2>2. \A i \in Nat : \A n : MessageAt(s, i, n)' => i # 0
    <3>1. \A i \in DOMAIN down'[s] : i # 0
      BY <1>6 DEF SshTypes
    <3>2. QED
      BY <3>1 DEF MessageAt
  <2>3. \A t \in Streams, i \in Nat : After(s)[t] \in Nat => i + After(s)[t] \in Nat
    OBVIOUS
  <2>4. \A i \in Nat : i + 1 = 1 => i = 0
    OBVIOUS
  <2>5. QED
    BY <1>5, <2>1, <2>2, <2>3, <2>4
<1>9. /\ \A t \in Streams, i \in Nat : \A y : ReadyAt(t, i, y)' <=> ReadyAt(t, i, y)
      /\ \A t \in Streams : \A e, n : EditOf(e, t, n)' =>
            (e \in edits /\ EditOf(e, t, n)) \/ (e = r /\ t = s /\ n = m)
  BY <1>3, <1>4 DEF ReadyAt, EditOf
<1>10. Once'
  <2>1. \A i, k, n \in Nat : i + n = k + n => i = k
    OBVIOUS
  <2>2. \A t \in Streams : After(s)[t] \in Nat
    BY <1>5
  <2>3. ASSUME NEW t \in Streams, NEW v \in Streams, NEW x \in Sessions
        PROVE  \A i, k \in Nat : MessageAt(t, i, Told(x))' /\ MessageAt(v, k, Told(x))' => t = v /\ i = k
    BY <1>8, <2>1, <2>2 DEF IInv, Once
  <2>4. ASSUME NEW t \in Streams, NEW v \in Streams, NEW x \in Sessions
        PROVE  \A e, h \in edits' : EditOf(e, t, Told(x))' /\ EditOf(h, v, Told(x))' => e = h
    BY <1>2, <1>9 DEF IInv, Once
  <2>5. ASSUME NEW t \in Streams, NEW v \in Streams, NEW x \in Sessions
        PROVE  \A i, k \in Nat : ~(MessageAt(t, i, Told(x))' /\ ReadyAt(v, k, x)')
    BY <1>8, <1>9 DEF IInv, Once
  <2>6. ASSUME NEW t \in Streams, NEW v \in Streams, NEW x \in Sessions
        PROVE  \A i \in Nat, e \in edits' : ~(MessageAt(t, i, Told(x))' /\ EditOf(e, v, Told(x))')
    <3>1. \A i \in Nat : MessageAt(t, i, Told(x))' => m # Told(x)
      BY <1>2, <1>8 DEF IInv, Once
    <3>2. QED
      BY <1>8, <1>9, <3>1 DEF IInv, Once
  <2>7. ASSUME NEW t \in Streams, NEW v \in Streams, NEW x \in Sessions
        PROVE  \A i \in Nat, e \in edits' : ~(ReadyAt(t, i, x)' /\ EditOf(e, v, Told(x))')
    BY <1>2, <1>9 DEF IInv, Once
  <2>8. QED
    BY <1>9, <2>3, <2>4, <2>5, <2>6, <2>7, ToldStays DEF IInv, Once
<1>11. \A t \in Streams, y \in Sessions : OnItsWay(t, y)' => OnItsWay(t, y)
  BY <1>2, <1>8, <1>9, ToldStays DEF OnItsWay
<1>12. Expected'
  BY <1>4, <1>11 DEF IInv, Expected, Open
<1>13. Closes'
  BY <1>2, <1>4, <1>8, <1>9, ToldStays DEF IInv, Closes, Over
<1>14. Rewrites'
  <2>1. \A e \in edits' : e \in edits \/ e = r
    BY <1>3
  <2>2. m # Reconcile /\ r.for # Reconcile
    BY <1>3, MessageIs
  <2>3. \A e, h \in edits' : e.for = Reconcile /\ h.for = Reconcile => e = h
    BY <2>1, <2>2 DEF IInv, Rewrites
  <2>4. \A y \in Sessions : /\ m = Told(y) => m.kind = "prepare" /\ m.session = y
                            /\ m = Untold(y) => m.kind = "close" /\ m.session = y
    BY DEF Told, Untold
  <2>5. QED
    BY <1>3, <1>4, <2>1, <2>2, <2>3, <2>4, ToldStays DEF IInv, Rewrites
<1>15. KeysThere'
  BY <1>4, <1>9 DEF IInv, KeysThere, Over
<1>16. QED
  BY <1>6, <1>7, <1>10, <1>12, <1>13, <1>14, <1>15 DEF IInv

\* SshReady goes to the end of what its stream holds.
LEMMA SentIs ==
  ASSUME SshTypes, NEW s \in Streams, NEW m \in Message, SendReady(s, m)
  PROVE  /\ up' \in [Streams -> Seq(Sessions)]
         /\ \A t \in Streams, i \in Nat : \A y \in Sessions : ReadyAt(t, i, y)' =>
              \/ ReadyAt(t, i, y)
              \/ t = s /\ i = Len(up[s]) + 1 /\ m = Told(y)
<1>1. CASE m.kind = "prepare" /\ s \in Open
  <2>1. up[s] \in Seq(Sessions) /\ m.session \in Sessions /\ m = Told(m.session)
    BY <1>1, MessageIs DEF SshTypes
  <2>2. up' = [up EXCEPT ![s] = Append(@, m.session)]
    BY <1>1 DEF SendReady
  <2>3. /\ up'[s] = Append(up[s], m.session) /\ up' \in [Streams -> Seq(Sessions)]
        /\ \A t \in Streams : t # s => up'[t] = up[t]
    BY <2>1, <2>2, AppendIs DEF SshTypes
  <2>4. \A i \in DOMAIN up'[s] : \/ i \in DOMAIN up[s] /\ up'[s][i] = up[s][i]
                                 \/ i = Len(up[s]) + 1 /\ up'[s][i] = m.session
    BY <2>1, <2>3, AppendIs
  <2>5. QED
    BY <2>1, <2>3, <2>4 DEF ReadyAt
<1>2. CASE ~(m.kind = "prepare" /\ s \in Open)
  BY <1>2 DEF SendReady, ReadyAt, SshTypes
<1>3. QED
  BY <1>1, <1>2

\* The rewrite ends, and becomes an SshReady if the stream is still open.
LEMMA WritesKeeps ==
  ASSUME IInv, NEW s \in Streams, AgentWrites(s)
  PROVE  IInv'
<1>1. PICK e \in edits : e.by = s /\ e.for # Reconcile /\ Replace(e) /\ SendReady(s, e.for)
  BY DEF AgentWrites
<1>2. /\ edits' = edits \ {e} /\ keys' = e.after /\ raced' = (raced \/ keys # e.before)
      /\ UNCHANGED <<manager, expiry, callers, stream, down, alive>>
  BY <1>1 DEF AgentWrites, Replace
<1>3. e.for \in Message /\ EditOf(e, s, e.for) /\ e.after \in SUBSET Sessions
  BY <1>1 DEF IInv, SshTypes, Edit, EditOf
<1>4. /\ up' \in [Streams -> Seq(Sessions)]
      /\ \A t \in Streams, i \in Nat : \A y \in Sessions : ReadyAt(t, i, y)' =>
           \/ ReadyAt(t, i, y)
           \/ t = s /\ i = Len(up[s]) + 1 /\ e.for = Told(y)
  BY <1>1, <1>3, SentIs DEF IInv
<1>5. /\ \A t \in Streams, i \in Nat : \A n : MessageAt(t, i, n)' <=> MessageAt(t, i, n)
      /\ \A t \in Streams : \A h, n : EditOf(h, t, n)' => h \in edits /\ h # e /\ EditOf(h, t, n)
  BY <1>2 DEF MessageAt, EditOf
<1>6. SshTypes'
  BY <1>2, <1>3, <1>4 DEF IInv, SshTypes
<1>7. PortsOfLiveSessions' /\ Rows'
  BY <1>2 DEF IInv, PortsOfLiveSessions, Live, Rows, Over
<1>8. Once'
  BY <1>3, <1>4, <1>5, ToldStays DEF IInv, Once
<1>9. \A t \in Streams, y \in Sessions : OnItsWay(t, y)' => OnItsWay(t, y)
  BY <1>3, <1>4, <1>5, ToldStays DEF OnItsWay
<1>10. Expected'
  BY <1>2, <1>9 DEF IInv, Expected, Open
<1>11. Closes'
  BY <1>2, <1>5, ToldStays DEF IInv, Closes, Over
<1>12. Rewrites'
  BY <1>2, ToldStays DEF IInv, Rewrites
<1>13. KeysThere'
  <2>1. \A y \in Sessions : Over(y)' <=> Over(y)
    BY <1>2 DEF Over
  <2>2. PICK z \in Sessions : e.for = Told(z) \/ e.for = Untold(z)
    BY <1>3, MessageIs
  <2>3. CASE e.for = Told(z)
    <3>1. ~raced' => ~raced /\ keys' = keys \cup {z}
      BY <1>2, <2>2, <2>3 DEF IInv, Rewrites, SshTypes
    <3>2. \A y \in Sessions : e.for = Told(y) => y = z
      BY <2>3, MessagesDiffer
    <3>3. QED
      BY <1>2, <1>4, <2>1, <3>1, <3>2 DEF IInv, KeysThere
  <2>4. CASE e.for = Untold(z)
    <3>1. ~raced' => ~raced /\ keys' = keys \ {z}
      BY <1>2, <2>2, <2>4 DEF IInv, Rewrites, SshTypes
    <3>2. Over(z) /\ \A y \in Sessions : e.for # Told(y)
      BY <1>1, <1>3, <2>4, MessagesDiffer DEF IInv, Closes
    <3>3. QED
      BY <1>2, <1>4, <2>1, <3>1, <3>2 DEF IInv, KeysThere
  <2>5. QED
    BY <2>2, <2>3, <2>4
<1>14. QED
  BY <1>6, <1>7, <1>8, <1>10, <1>11, <1>12, <1>13 DEF IInv

-----------------------------------------------------------------------------
\* It holds of no session and no stream.
LEMMA InitIInv == Init => IInv
<1>1. Init => SshTypes /\ PortsOfLiveSessions /\ Rows
  <2>1. Init => SshTypes
    <3>1. Init => down \in [Streams -> Seq(Message)] /\ up \in [Streams -> Seq(Sessions)]
      BY DEF Init
    <3>2. Init => /\ state \in [Sessions -> {"none", "preparing", "ready", "closed", "expired"}]
                  /\ port \in [Sessions -> Ports \cup {NoPort}]
                  /\ stream \in [Streams -> {"new", "open", "ended"}]
      BY DEF Init
    <3>3. Init =>
            /\ prepare \in [Sessions -> {"idle", "created", "failed", "ok", "closing", "updating",
                                         "unavailable", "lost"}]
            /\ close \in [Sessions -> {"idle", "updating", "dispatching", "done", "failed", "lost"}]
      BY DEF Init
    <3>4. Init => late = {} /\ ending = {} /\ tokens = {} /\ alive = {} /\ keys = {} /\ edits = {} /\ raced = FALSE
      BY DEF Init
    <3>5. QED
      BY <3>1, <3>2, <3>3, <3>4 DEF SshTypes
  <2>2. Init => PortsOfLiveSessions
    BY DEF Init, PortsOfLiveSessions, Live
  <2>3. Init => Rows
    BY DEF Init, Rows, Over
  <2>4. QED
    BY <2>1, <2>2, <2>3
<1>2. Init => \A s \in Streams : /\ \A i, m : ~MessageAt(s, i, m)
                                 /\ \A i, x : ~ReadyAt(s, i, x)
                                 /\ \A e, m : ~EditOf(e, s, m)
  BY DEF Init, MessageAt, ReadyAt, EditOf
<1>3. Init => Once /\ Expected /\ Closes
  BY <1>2 DEF Once, Expected, Closes, OnItsWay
<1>4. Init => Rewrites /\ KeysThere
  BY <1>2 DEF Init, Rewrites, KeysThere
<1>5. QED
  BY <1>1, <1>3, <1>4 DEF IInv

\* No step breaks it.
LEMMA NextIInv == IInv /\ [Next]_vars => IInv'
<1> SUFFICES ASSUME IInv, [Next]_vars PROVE IInv'
  OBVIOUS
<1>1. CASE UNCHANGED vars
  <2>1. UNCHANGED <<state, port, expiry, tokens, prepare, close, stream, down, up, alive, keys, edits, raced>>
    BY <1>1 DEF vars
  <2>2. DownKeeps(Still) /\ UpKeeps(Still) /\ Open' = Open
    BY <2>1, DownStill, UpStill DEF IInv, Open
  <2>3. QED
    BY <2>1, <2>2, LinksKept DEF IInv, SshTypes
<1>2. ASSUME NEW x \in Sessions,
             \/ Create(x) \/ CreateFails(x) \/ PrepareStep(x)
             \/ CloseToken(x) \/ CloseStep(x) \/ LastSecond(x) \/ TimePasses(x)
      PROVE  IInv'
  BY <1>2, CreateKeeps, CallKeeps, CloseRowKeeps, DispatchPrepareKeeps, CloseDispatchKeeps
     DEF PrepareStep, CloseStep
<1>3. ASSUME NEW s \in Streams,
             AgentReconciles(s) \/ Connect(s) \/ Break(s) \/ AgentStep(s) \/ ReadyStep(s)
      PROVE  IInv'
  BY <1>3, ReconcilesKeeps, ConnectKeeps, BreakKeeps, EditsKeeps, AgentLosesKeeps, WritesKeeps, ReadyKeeps
     DEF AgentStep, ReadyStep
<1>4. CASE AgentCrash \/ ValidatorRestart
  BY <1>4, AgentLosesKeeps, RestartKeeps
<1>5. QED
  BY <1>1, <1>2, <1>3, <1>4 DEF Next

\* Every reachable state is as the parts of IInv say, for any sessions, ports and streams.
THEOREM IInvAlways == Spec => []IInv
  BY InitIInv, NextIInv, PTL DEF Spec

\* However sessions are created, closed, lost and expired, the live ones and only they
\* hold ports, each its own: the rows of ssh_sessions and the manager's choice agree.
THEOREM LiveSessionsHavePorts == Spec => []PortsOfLiveSessions
<1>1. IInv => PortsOfLiveSessions
  BY DEF IInv
<1>2. QED
  BY <1>1, IInvAlways, PTL

\* An SshReady that the agent sent on a stream that is still open finds its session
\* waiting for it: only expiry or CloseSsh can make Manager.Ready refuse it.
THEOREM ReadyWasAwaited == Spec => []ReadyIsExpected
<1>1. ASSUME IInv PROVE ReadyIsExpected
  <2>1. ASSUME NEW s \in Open, NEW i \in DOMAIN up[s]
        PROVE  CanBeReady(up[s][i]) \/ up[s][i] \in late \/ close[up[s][i]] # "idle"
    <3>1. s \in Streams
      BY DEF Open
    <3>2. up[s] \in Seq(Sessions)
      BY <1>1, <3>1 DEF IInv, SshTypes
    <3>3. up[s][i] \in Sessions /\ i \in Nat
      BY <3>2
    <3>4. OnItsWay(s, up[s][i])
      BY <3>3 DEF OnItsWay, ReadyAt
    <3>5. up[s][i] \in tokens \/ close[up[s][i]] # "idle"
      BY <1>1, <3>1, <3>3, <3>4 DEF IInv, Expected
    <3>6. up[s][i] \in tokens => state[up[s][i]] = "preparing"
      BY <1>1, <3>3 DEF IInv, Rows
    <3>7. QED
      BY <3>5, <3>6 DEF CanBeReady
  <2>2. QED
    BY <2>1 DEF ReadyIsExpected
<1>2. QED
  BY <1>1, IInvAlways, PTL

\* KeyStore.Install has written the line before SshReady leaves, and what takes it away
\* comes after the row is closed or in the second that the line names, unless two rewrites
\* overlapped.
THEOREM KeyIsThereWhenReady == Spec => []ReadyHasKeyUnlessRaced
<1>1. IInv => ReadyHasKeyUnlessRaced
  BY DEF IInv, KeysThere, ReadyHasKeyUnlessRaced, ReadyHasKey, Over
<1>2. QED
  BY <1>1, IInvAlways, PTL
-----------------------------------------------------------------------------
(* The promise of a session.                                               *)

Settled == {x \in Sessions : Asked[x] = "settled"}

\* A line has been asked for, and a rewrite adds none but the one that it is for.
Lines ==
  /\ keys \subseteq Settled
  /\ \A e \in edits : /\ e.before \subseteq Settled
                      /\ \A x \in e.after : x \in e.before \/ e.for = Told(x)

PInv == IInv /\ Lines

\* A PrepareSsh waits in a queue or in a rewrite.
LEMMA PendingIs ==
  ASSUME SshTypes, NEW x
  PROVE  Pending(x) <=> \/ \E s \in Streams, i \in Nat : MessageAt(s, i, Told(x))
                        \/ \E s \in Streams, e \in edits : EditOf(e, s, Told(x))
<1>1. \A s \in Streams : \A i \in DOMAIN down[s] : i \in Nat
  BY DEF SshTypes
<1>2. \A e \in edits : e.by \in Streams
  BY DEF SshTypes, Edit
<1>3. QED
  BY <1>1, <1>2 DEF Pending, MessageAt, EditOf

\* Where no question is added, some may have been lost, and what was settled is.
LEMMA Forgotten ==
  ASSUME \A x \in Sessions : prepare'[x] = "ok" <=> prepare[x] = "ok",
         \A x \in Sessions : Pending(x)' => Pending(x)
  PROVE  /\ \E X \in SUBSET Promise!Unsettled : Promise!Settle(X)
         /\ Settled \subseteq Settled'
<1> DEFINE X == {x \in Sessions : prepare[x] = "ok" /\ Pending(x) /\ ~Pending(x)'}
<1>1. X \in SUBSET Promise!Unsettled
  BY DEF Promise!Unsettled, Asked
<1>2. \A x \in Sessions : Asked'[x] = IF x \in X THEN "settled" ELSE Asked[x]
  BY DEF Asked
<1>3. Promise!Settle(X)
  BY <1>2 DEF Promise!Settle, Asked
<1>4. Settled \subseteq Settled'
  BY <1>2 DEF Settled
<1>5. QED
  BY <1>1, <1>3, <1>4

\* Where none is added or lost, nothing changes.
LEMMA AskedStays ==
  ASSUME \A x \in Sessions : prepare'[x] = "ok" <=> prepare[x] = "ok",
         \A x \in Sessions : Pending(x)' <=> Pending(x)
  PROVE  Asked' = Asked /\ Settled' = Settled
<1>1. Asked' = Asked
  BY DEF Asked
<1>2. QED
  BY <1>1 DEF Settled

\* A step of the manager and its callers, besides the one question.
LEMMA CallsPromise ==
  ASSUME PInv, NEW x \in Sessions,
         \/ Create(x) \/ CreateFails(x) \/ DispatchPrepareFails(x) \/ AbandonToken(x)
         \/ AbandonRow(x) \/ CloseToken(x) \/ CloseUpdate(x) \/ LastSecond(x) \/ TimePasses(x)
  PROVE  Lines' /\ [Promise!PromiseNext]_Promise!promiseVars
<1>1. UNCHANGED <<down, edits, keys, raced>>
  BY DEF Create, CreateFails, DispatchPrepareFails, AbandonToken, AbandonRow, CloseToken, CloseUpdate,
         LastSecond, TimePasses
<1>2. \A y \in Sessions : prepare'[y] = "ok" <=> prepare[y] = "ok"
  BY DEF PInv, IInv, SshTypes, Create, CreateFails, DispatchPrepareFails, AbandonToken, AbandonRow,
         CloseToken, CloseUpdate, LastSecond, TimePasses
<1>3. \A y \in Sessions : Pending(y)' <=> Pending(y)
  BY <1>1 DEF Pending, Told
<1>4. Asked' = Asked /\ Settled' = Settled
  BY <1>2, <1>3, AskedStays
<1>5. Lines'
  BY <1>1, <1>4, ToldStays DEF PInv, Lines
<1>6. CASE Create(x)
  <2>1. Allocated \in Ports /\ \A y \in Sessions : port[y] # Allocated
    BY <1>6, AllocatedIsPort DEF Create, Insertable
  <2>2. state[x] = "none"
    BY <1>6 DEF Create, PInv, IInv, Rows
  <2>3. Promise!Opens(x)
    BY <1>1, <1>4, <1>6, <2>1, <2>2 DEF Create, Promise!Opens
  <2>4. QED
    BY <1>5, <2>3 DEF Promise!PromiseNext
<1>7. CASE CreateFails(x) \/ DispatchPrepareFails(x) \/ AbandonToken(x) \/ CloseToken(x)
  <2>1. UNCHANGED <<state, port, expiry>>
    BY <1>7 DEF CreateFails, DispatchPrepareFails, AbandonToken, CloseToken
  <2>2. QED
    BY <1>1, <1>4, <1>5, <2>1 DEF Promise!promiseVars
<1>8. CASE AbandonRow(x) \/ CloseUpdate(x)
  <2>1. UNCHANGED expiry
    BY <1>8 DEF AbandonRow, CloseUpdate
  <2>2. \/ UNCHANGED <<state, port>>
        \/ Live(x) /\ state' = [state EXCEPT ![x] = "closed"] /\ port' = [port EXCEPT ![x] = NoPort]
    BY <1>8 DEF AbandonRow, CloseUpdate, CloseRow
  <2>3. UNCHANGED <<state, port>> \/ Promise!Closes(x)
    BY <1>1, <1>4, <2>1, <2>2 DEF Promise!Closes, Promise!Live, Live
  <2>4. QED
    BY <1>1, <1>4, <1>5, <2>1, <2>3 DEF Promise!promiseVars, Promise!PromiseNext
<1>9. CASE LastSecond(x) \/ TimePasses(x)
  <2>1. Promise!TimeEnds(x)
    BY <1>1, <1>4, <1>9 DEF LastSecond, TimePasses, Promise!TimeEnds
  <2>2. QED
    BY <1>5, <2>1 DEF Promise!PromiseNext
<1>10. QED
  BY <1>6, <1>7, <1>8, <1>9

\* Dispatch keeps what is queued.
LEMMA QueuedStays ==
  ASSUME SshTypes, NEW s \in Streams, NEW m \in Message, down' = [down EXCEPT ![s] = Append(@, m)]
  PROVE  \A t \in Streams, i \in Nat : \A n : MessageAt(t, i, n) => MessageAt(t, i, n)'
<1>1. down[s] \in Seq(Message) /\ down'[s] = Append(down[s], m)
  BY DEF SshTypes
<1>2. \A t \in Streams : t # s => down'[t] = down[t]
  BY DEF SshTypes
<1>3. \A i \in DOMAIN down[s] : i \in DOMAIN down'[s] /\ down'[s][i] = down[s][i]
  BY <1>1
<1>4. QED
  BY <1>2, <1>3 DEF MessageAt

\* PrepareSsh asks the agent, or is lost with the stream it was queued for.
LEMMA DispatchPromise ==
  ASSUME PInv, IInv', NEW x \in Sessions, DispatchPrepare(x)
  PROVE  Lines' /\ Promise!PromiseNext
<1>1. /\ prepare[x] = "created" /\ prepare' = [prepare EXCEPT ![x] = "ok"]
      /\ UNCHANGED <<manager, expiry, keys, edits, raced>> /\ SshTypes /\ SshTypes'
  BY DEF DispatchPrepare, PInv, IInv
<1>2. prepare'[x] = "ok" /\ \A y \in Sessions : y # x => prepare'[y] = prepare[y]
  BY <1>1 DEF SshTypes
<1>3. ASSUME NEW y \in Sessions, y # x PROVE Pending(y)' <=> Pending(y)
  <2>1. CASE down' = down
    BY <1>1, <2>1 DEF Pending, Told
  <2>2. CASE \E s \in Open : down' = [down EXCEPT ![s] = Append(@, Told(x))]
    <3>1. PICK s \in Streams : down' = [down EXCEPT ![s] = Append(@, Told(x))]
      BY <2>2 DEF Open
    <3>2. Told(x) \in Message /\ Told(y) # Told(x)
      BY <1>3, MessagesDiffer
    <3>3. \A t \in Streams, i \in Nat : MessageAt(t, i, Told(y))' <=> MessageAt(t, i, Told(y))
      BY <1>1, <3>1, <3>2, QueuedIs, QueuedStays
    <3>4. \A t \in Streams : \A e : EditOf(e, t, Told(y))' <=> EditOf(e, t, Told(y))
      BY <1>1 DEF EditOf
    <3>5. Pending(y)' <=> \/ \E t \in Streams, i \in Nat : MessageAt(t, i, Told(y))'
                          \/ \E t \in Streams, e \in edits' : EditOf(e, t, Told(y))'
      BY <1>1 DEF Pending, MessageAt, EditOf, SshTypes, Edit, Told
    <3>6. QED
      BY <1>1, <3>3, <3>4, <3>5, PendingIs
  <2>3. QED
    BY <2>1, <2>2 DEF DispatchPrepare, Told
<1>4. Asked[x] = "no" /\ Asked'[x] \in {"yes", "settled"}
  BY <1>1, <1>2 DEF Asked
<1>5. \A y \in Sessions : y # x => Asked'[y] = Asked[y]
  BY <1>2, <1>3 DEF Asked
<1>6. Asked' = [Asked EXCEPT ![x] = Asked'[x]]
  BY <1>4, <1>5 DEF Asked
<1>7. state[x] # "none"
  BY <1>1 DEF PInv, IInv, Rows
<1>8. Promise!Asks(x)
  BY <1>1, <1>4, <1>6, <1>7 DEF Promise!Asks
<1>9. Settled \subseteq Settled'
  BY <1>4, <1>5 DEF Settled
<1>10. Lines'
  BY <1>1, <1>9, ToldStays DEF PInv, Lines
<1>11. QED
  BY <1>8, <1>10 DEF Promise!PromiseNext

\* A step that adds no question and leaves rows and file alone forgets some.
LEMMA ForgetsPromise ==
  ASSUME PInv, UNCHANGED <<state, port, expiry, prepare, keys, raced>>,
         \A y \in Sessions : Pending(y)' => Pending(y),
         \A e \in edits' :
            e \in edits \/ (e.before = keys /\ \A y \in e.after : y \in keys \/ e.for = Told(y))
  PROVE  Lines' /\ Promise!PromiseNext
<1>1. (\E X \in SUBSET Promise!Unsettled : Promise!Settle(X)) /\ Settled \subseteq Settled'
  BY Forgotten
<1>2. Lines'
  BY <1>1, ToldStays DEF PInv, Lines
<1>3. Promise!Forgets
  BY <1>1 DEF Promise!Forgets
<1>4. QED
  BY <1>2, <1>3 DEF Promise!PromiseNext

\* A question under way was so before.
LEMMA PendingKept ==
  ASSUME SshTypes, SshTypes', NEW f, NEW g, DownKeeps(f), UpKeeps(g), edits' \subseteq edits, NEW y
  PROVE  Pending(y)' => Pending(y)
<1>1. Pending(y)' <=> \/ \E t \in Streams, i \in Nat : MessageAt(t, i, Told(y))'
                      \/ \E t \in Streams, e \in edits' : EditOf(e, t, Told(y))'
  BY DEF Pending, MessageAt, EditOf, SshTypes, Edit, Told
<1>2. \A t \in Streams, i \in Nat : i + f[t] \in Nat
  BY DEF DownKeeps
<1>3. \A t \in Streams, i \in Nat : MessageAt(t, i, Told(y))' => MessageAt(t, i + f[t], Told(y))
  BY PlacesKept, ToldStays
<1>4. \A t \in Streams : \A e : EditOf(e, t, Told(y))' => e \in edits /\ EditOf(e, t, Told(y))
  BY PlacesKept, ToldStays DEF EditOf
<1>5. QED
  BY <1>1, <1>2, <1>3, <1>4, PendingIs

\* CloseSsh is told to the agent.
LEMMA CloseDispatchPromise ==
  ASSUME PInv, IInv', NEW x \in Sessions, CloseDispatch(x)
  PROVE  Lines' /\ Promise!PromiseNext
<1>1. UNCHANGED <<manager, expiry, prepare, file>> /\ SshTypes /\ SshTypes'
  BY DEF CloseDispatch, PInv, IInv
<1>2. ASSUME NEW y \in Sessions, Pending(y)' PROVE Pending(y)
  <2>1. CASE down' = down
    BY <1>1, <1>2, <2>1 DEF Pending, Told
  <2>2. CASE \E s \in Open : down' = [down EXCEPT ![s] = Append(@, Untold(x))]
    <3>1. PICK s \in Streams : down' = [down EXCEPT ![s] = Append(@, Untold(x))]
      BY <2>2 DEF Open
    <3>2. Untold(x) \in Message /\ Told(y) # Untold(x)
      BY MessagesDiffer
    <3>3. \A t \in Streams, i \in Nat : MessageAt(t, i, Told(y))' => MessageAt(t, i, Told(y))
      BY <1>1, <3>1, <3>2, QueuedIs
    <3>4. \A t \in Streams : \A e : EditOf(e, t, Told(y))' <=> EditOf(e, t, Told(y))
      BY <1>1 DEF EditOf
    <3>5. Pending(y)' <=> \/ \E t \in Streams, i \in Nat : MessageAt(t, i, Told(y))'
                          \/ \E t \in Streams, e \in edits' : EditOf(e, t, Told(y))'
      BY <1>1 DEF Pending, MessageAt, EditOf, SshTypes, Edit, Told
    <3>6. QED
      BY <1>1, <1>2, <3>3, <3>4, <3>5, PendingIs
  <2>3. QED
    BY <2>1, <2>2 DEF CloseDispatch, Untold
<1>3. QED
  BY <1>1, <1>2, ForgetsPromise

\* Streams break, and messages are lost or dropped.
LEMMA LossPromise ==
  ASSUME PInv, IInv',
         AgentCrash \/ \E s \in Streams : Break(s) \/ RejectReady(s) \/ AgentDrops(s)
  PROVE  Lines' /\ Promise!PromiseNext
<1>1. UNCHANGED <<state, port, expiry, prepare, keys, raced>> /\ edits' \subseteq edits
      /\ SshTypes /\ SshTypes'
  BY DEF AgentCrash, Break, RejectReady, AgentDrops, PInv, IInv
<1>2. \E f, g : DownKeeps(f) /\ UpKeeps(g)
  <2>1. CASE AgentCrash
    BY <1>1, <2>1, UpStill DEF AgentCrash, DownKeeps, Still
  <2>2. ASSUME NEW s \in Streams, Break(s) \/ RejectReady(s) PROVE DownKeeps(Still) /\ UpKeeps(Still)
    <3>1. EndStreams({s}) /\ {s} \in SUBSET Streams
      BY <2>2 DEF Break, RejectReady
    <3>2. QED
      BY <1>1, <3>1, EndKeeps
  <2>3. ASSUME NEW s \in Streams, AgentDrops(s) PROVE DownKeeps(After(s)) /\ UpKeeps(Still)
    BY <1>1, <2>3, DownTaken, UpStill DEF AgentDrops, CanTake
  <2>4. QED
    BY <2>1, <2>2, <2>3
<1>3. \A y \in Sessions : Pending(y)' => Pending(y)
  BY <1>1, <1>2, PendingKept
<1>4. QED
  BY <1>1, <1>3, ForgetsPromise

\* A restart of the validator expires what is late; streams break.
LEMMA RestartPromise ==
  ASSUME PInv, IInv', ValidatorRestart
  PROVE  Lines' /\ Promise!PromiseNext
<1>1. UNCHANGED <<expiry, keys, edits, raced>> /\ SshTypes /\ SshTypes'
  BY DEF ValidatorRestart, PInv, IInv
<1>2. EndStreams(Open) /\ Open \in SUBSET Streams
  BY DEF ValidatorRestart, Open
<1>3. DownKeeps(Still) /\ UpKeeps(Still)
  BY <1>1, <1>2, EndKeeps
<1>4. \A y \in Sessions : Pending(y)' => Pending(y)
  BY <1>1, <1>3, PendingKept
<1>5. \A y \in Sessions : prepare'[y] = "ok" <=> prepare[y] = "ok"
  BY DEF ValidatorRestart
<1>6. (\E X \in SUBSET Promise!Unsettled : Promise!Settle(X)) /\ Settled \subseteq Settled'
  BY <1>4, <1>5, Forgotten
<1>7. Lines'
  BY <1>1, <1>6, ToldStays DEF PInv, Lines
<1>8. Promise!Restarts
  <2>1. \A y \in Sessions : y \in {z \in late : Promise!Live(z)} <=> Live(y) /\ y \in late
    BY DEF Promise!Live, Live
  <2>2. /\ state' = [y \in Sessions |-> IF y \in {z \in late : Promise!Live(z)} THEN "expired" ELSE state[y]]
        /\ port' = [y \in Sessions |-> IF y \in {z \in late : Promise!Live(z)} THEN NoPort ELSE port[y]]
    BY <2>1 DEF ValidatorRestart
  <2>3. QED
    BY <1>1, <1>6, <2>2 DEF Promise!Restarts
<1>9. QED
  BY <1>7, <1>8 DEF Promise!PromiseNext

\* The agent begins a rewrite.
LEMMA EditsPromise ==
  ASSUME PInv, IInv', NEW s \in Streams, AgentReconciles(s) \/ AgentEdits(s)
  PROVE  Lines' /\ Promise!PromiseNext
<1>1. SshTypes /\ SshTypes' /\ UNCHANGED <<state, port, expiry, prepare, keys, raced>>
  BY DEF AgentReconciles, AgentEdits, PInv, IInv
<1>2. PICK r : /\ edits' = edits \cup {r} /\ r.before = keys
               /\ \A y \in r.after : y \in keys \/ r.for = Told(y)
               /\ \/ r.for = Reconcile /\ down' = down
                  \/ AgentEdits(s) /\ r.by = s /\ r.for = Head(down[s])
  <2>1. CASE AgentReconciles(s)
    <3> DEFINE r == [by |-> s, for |-> Reconcile, before |-> keys, after |-> keys \ ending]
    <3>1. edits' = edits \cup {r} /\ r.before = keys /\ r.after \subseteq keys /\ r.for = Reconcile
          /\ down' = down
      BY <2>1 DEF AgentReconciles, StartEdit
    <3> HIDE DEF r
    <3>2. QED
      BY <3>1
  <2>2. CASE AgentEdits(s)
    <3>1. PICK m \in Message : m = Head(down[s])
      <4>1. down[s] \in Seq(Message) /\ down[s] # <<>>
        BY <1>1, <2>2 DEF SshTypes, AgentEdits, CanTake
      <4>2. QED
        BY <4>1, TailIs
    <3>2. \/ m.kind = "prepare" /\ StartEdit(s, m, keys \cup {m.session})
          \/ m.kind = "close" /\ StartEdit(s, m, keys \ {m.session})
      BY <2>2, <3>1 DEF AgentEdits
    <3>3. m.kind = "prepare" => m = Told(m.session)
      BY MessageIs
    <3>4. PICK after : StartEdit(s, m, after) /\ \A y \in after : y \in keys \/ m = Told(y)
      BY <3>2, <3>3
    <3> DEFINE r == [by |-> s, for |-> m, before |-> keys, after |-> after]
    <3>5. edits' = edits \cup {r} /\ r.by = s /\ r.for = m /\ r.before = keys /\ r.after = after
      BY <3>4 DEF StartEdit
    <3> HIDE DEF r
    <3>6. QED
      BY <2>2, <3>1, <3>4, <3>5
  <2>3. QED
    BY <2>1, <2>2
<1>3. ASSUME NEW y \in Sessions, Pending(y)' PROVE Pending(y)
  <2>1. Pending(y)' <=> \/ \E t \in Streams, i \in Nat : MessageAt(t, i, Told(y))'
                        \/ \E t \in Streams, e \in edits' : EditOf(e, t, Told(y))'
    BY <1>1 DEF Pending, MessageAt, EditOf, SshTypes, Edit, Told
  <2>2. CASE r.for = Reconcile /\ down' = down
    <3>1. \A t \in Streams, i \in Nat : MessageAt(t, i, Told(y))' => MessageAt(t, i, Told(y))
      BY <2>2 DEF MessageAt, Told
    <3>2. \A t \in Streams : \A e : EditOf(e, t, Told(y))' => e \in edits /\ EditOf(e, t, Told(y))
      BY <1>2, <2>2, MessagesDiffer, ToldStays DEF EditOf
    <3>3. QED
      BY <1>1, <1>3, <2>1, <3>1, <3>2, PendingIs
  <2>3. CASE AgentEdits(s) /\ r.by = s /\ r.for = Head(down[s])
    <3>1. down[s] # <<>> /\ Take(s) /\ down[s] \in Seq(Message)
      BY <1>1, <2>3 DEF AgentEdits, CanTake, SshTypes
    <3>2. DownKeeps(After(s)) /\ MessageAt(s, 1, r.for)
      BY <1>1, <2>3, <3>1, DownTaken, TailIs DEF MessageAt
    <3>3. \A t \in Streams, i \in Nat : MessageAt(t, i, Told(y))' =>
             MessageAt(t, i + After(s)[t], Told(y)) /\ i + After(s)[t] \in Nat
      BY <3>2, ToldStays DEF MessageAt, DownKeeps
    <3>4. \A t \in Streams : \A e : EditOf(e, t, Told(y))' =>
             (e \in edits /\ EditOf(e, t, Told(y))) \/ MessageAt(s, 1, Told(y))
      BY <1>2, <3>2, ToldStays DEF EditOf
    <3>5. QED
      BY <1>1, <1>3, <2>1, <3>3, <3>4, PendingIs
  <2>4. QED
    BY <1>2, <2>2, <2>3
<1>4. QED
  BY <1>1, <1>2, <1>3, ForgetsPromise

\* SshReady comes back only when the question is settled and the line was written.
LEMMA ReadyPromise ==
  ASSUME PInv, NEW s \in Streams, Ready(s)
  PROVE  Lines' /\ Promise!PromiseNext
<1>1. up[s] # <<>> /\ up[s] \in Seq(Sessions) /\ SshTypes
  BY DEF Ready, PInv, IInv, SshTypes
<1>2. PICK x \in Sessions : x = Head(up[s]) /\ ReadyAt(s, 1, x)
  BY <1>1, TailIs DEF ReadyAt
<1>3. /\ x \in tokens /\ state[x] = "preparing" /\ x \notin late
      /\ state' = [state EXCEPT ![x] = "ready"]
      /\ UNCHANGED <<port, expiry, prepare, down, edits, keys, raced>>
  BY <1>2 DEF Ready, CanBeReady
<1>4. \A y \in Sessions : Pending(y)' <=> Pending(y)
  BY <1>3 DEF Pending, Told
<1>5. Asked' = Asked /\ Settled' = Settled
  BY <1>3, <1>4, AskedStays
<1>6. prepare[x] = "ok"
  BY <1>2 DEF PInv, IInv, Expected, OnItsWay
<1>7. ~Pending(x)
  BY <1>1, <1>2, PendingIs DEF PInv, IInv, Once
<1>8. Asked[x] = "settled"
  BY <1>6, <1>7 DEF Asked
<1>9. x \in keys \/ x \in ending \/ raced
  BY <1>2, <1>3 DEF PInv, IInv, KeysThere, Over, SshTypes
<1>10. Promise!BecomesReady(x)
  BY <1>3, <1>5, <1>8, <1>9 DEF Promise!BecomesReady
<1>11. Lines'
  BY <1>3, <1>5, ToldStays DEF PInv, Lines
<1>12. QED
  BY <1>10, <1>11 DEF Promise!PromiseNext

\* The file as Reconcile leaves it, before a stream opens.
LEMMA ConnectPromise ==
  ASSUME PInv, IInv', NEW s \in Streams, Connect(s)
  PROVE  Lines' /\ Promise!PromiseNext
<1>1. PICK e \in edits : e.by = s /\ e.for = Reconcile /\ Replace(e)
  BY DEF Connect
<1>2. /\ edits' = edits \ {e} /\ keys' = e.after /\ raced' = (raced \/ keys # e.before)
      /\ UNCHANGED <<state, port, expiry, prepare, down>> /\ SshTypes
  BY <1>1 DEF Connect, Replace, PInv, IInv
<1>3. /\ e.before \ ending \subseteq e.after /\ e.before \subseteq Settled /\ e.after \subseteq Sessions
      /\ \A y \in e.after : y \in e.before \/ e.for = Told(y)
  BY <1>1, <1>2 DEF PInv, IInv, Rewrites, Lines, SshTypes, Edit
<1>4. e.after \subseteq e.before
  BY <1>1, <1>3, MessagesDiffer
<1>5. ASSUME NEW y \in Sessions PROVE Pending(y)' <=> Pending(y)
  <2>1. e.for # Told(y)
    BY <1>1, MessagesDiffer
  <2>2. QED
    BY <1>2, <2>1 DEF Pending, Told
<1>6. Asked' = Asked /\ Settled' = Settled
  BY <1>2, <1>5, AskedStays
<1>7. Lines'
  BY <1>2, <1>3, <1>4, <1>6, ToldStays DEF PInv, Lines
<1>8. CASE keys = e.before
  <2>1. keys' = keys \ (keys \ keys') /\ keys \ keys' \subseteq ending /\ raced' = raced
    BY <1>2, <1>3, <1>4, <1>8 DEF PInv, IInv, SshTypes
  <2>2. Promise!Tidies
    BY <1>2, <1>6, <2>1 DEF Promise!Tidies
  <2>3. QED
    BY <1>7, <2>2 DEF Promise!PromiseNext
<1>9. CASE keys # e.before
  <2>1. raced' = TRUE /\ keys' \in SUBSET {y \in Sessions : Asked'[y] = "settled"}
    BY <1>2, <1>3, <1>4, <1>6, <1>9 DEF Settled
  <2>2. Promise!Overlaps
    BY <1>2, <1>6, <2>1 DEF Promise!Overlaps
  <2>3. QED
    BY <1>7, <2>2 DEF Promise!PromiseNext
<1>10. QED
  BY <1>8, <1>9

\* The agent ends the rewrite of a PrepareSsh or a CloseSsh.
LEMMA WritesPromise ==
  ASSUME PInv, IInv', NEW s \in Streams, AgentWrites(s)
  PROVE  Lines' /\ Promise!PromiseNext
<1>1. PICK e \in edits : e.by = s /\ e.for # Reconcile /\ Replace(e)
  BY DEF AgentWrites
<1>2. /\ edits' = edits \ {e} /\ keys' = e.after /\ raced' = (raced \/ keys # e.before)
      /\ UNCHANGED <<state, port, expiry, prepare, down>> /\ SshTypes
  BY <1>1 DEF AgentWrites, Replace, PInv, IInv
<1>3. /\ e.before \subseteq Settled /\ e.after \subseteq Sessions
      /\ \A y \in e.after : y \in e.before \/ e.for = Told(y)
  BY <1>1, <1>2 DEF PInv, Lines, SshTypes, Edit
<1>4. PICK z \in Sessions : e.for = Told(z) \/ e.for = Untold(z)
  <2>1. e.for \in Message
    BY <1>1, <1>2 DEF SshTypes, Edit
  <2>2. QED
    BY <2>1, MessageIs
<1>5. EditOf(e, s, e.for)
  BY <1>1 DEF EditOf
<1>6. CASE e.for = Told(z)
  <2>1. prepare[z] = "ok" /\ Pending(z)
    BY <1>1, <1>2, <1>5, <1>6, PendingIs DEF PInv, IInv, Expected, OnItsWay
  <2>2. ~Pending(z)'
    <3>1. \A t \in Streams, i \in Nat : ~MessageAt(t, i, Told(z))
      BY <1>1, <1>5, <1>6 DEF PInv, IInv, Once
    <3>2. \A h \in edits : h.for = Told(z) => h = e
      <4>1. \A h \in edits : h.by \in Streams
        BY <1>2 DEF SshTypes, Edit
      <4>2. QED
        BY <1>1, <1>5, <1>6, <4>1 DEF PInv, IInv, Once, EditOf
    <3>3. \A t \in Streams : \A i \in DOMAIN down[t] : i \in Nat
      BY <1>2 DEF SshTypes
    <3>4. \A t \in Streams : \A i \in DOMAIN down[t] : down[t][i] # Told(z)
      BY <3>1, <3>3 DEF MessageAt
    <3>5. QED
      BY <1>2, <3>2, <3>4 DEF Pending, Told
  <2>3. ASSUME NEW y \in Sessions, y # z PROVE Pending(y)' <=> Pending(y)
    <3>1. e.for # Told(y)
      BY <1>6, <2>3, MessagesDiffer
    <3>2. QED
      BY <1>2, <3>1 DEF Pending, Told
  <2>4. z \in Promise!Unsettled /\ Asked[z] = "yes"
    BY <2>1 DEF Promise!Unsettled, Asked
  <2>5. Asked' = [y \in Sessions |-> IF y \in {z} THEN "settled" ELSE Asked[y]]
    BY <1>2, <2>1, <2>2, <2>3 DEF Asked
  <2>6. Promise!Settle({z})
    BY <2>5 DEF Promise!Settle
  <2>7. Settled \subseteq Settled' /\ z \in Settled'
    BY <2>5 DEF Settled
  <2>8. e.after \subseteq Settled'
    BY <1>3, <1>6, <2>7, MessagesDiffer
  <2>9. Lines'
    BY <1>2, <2>7, <2>8, ToldStays DEF PInv, Lines
  <2>10. CASE keys = e.before
    <3>1. keys' = keys \cup {z} /\ raced' = raced
      BY <1>1, <1>2, <1>4, <1>6, <2>10 DEF PInv, IInv, Rewrites, SshTypes
    <3>2. Promise!Installs(z)
      BY <1>2, <2>4, <2>6, <3>1 DEF Promise!Installs
    <3>3. QED
      BY <2>9, <3>2 DEF Promise!PromiseNext
  <2>11. CASE keys # e.before
    <3>1. raced' = TRUE /\ keys' \in SUBSET {y \in Sessions : Asked'[y] = "settled"}
      BY <1>2, <2>8, <2>11 DEF Settled
    <3>2. Promise!Overlaps
      BY <1>2, <2>4, <2>6, <3>1 DEF Promise!Overlaps
    <3>3. QED
      BY <2>9, <3>2 DEF Promise!PromiseNext
  <2>12. QED
    BY <2>10, <2>11
<1>7. CASE e.for = Untold(z)
  <2>1. \A y \in Sessions : e.for # Told(y)
    BY <1>7, MessagesDiffer
  <2>2. \A y \in Sessions : Pending(y)' <=> Pending(y)
    BY <1>2, <2>1 DEF Pending, Told
  <2>3. Asked' = Asked /\ Settled' = Settled
    BY <1>2, <2>2, AskedStays
  <2>4. e.after \subseteq e.before
    BY <1>3, <2>1
  <2>5. Lines'
    BY <1>2, <1>3, <2>3, <2>4, ToldStays DEF PInv, Lines
  <2>6. Over(z)
    BY <1>1, <1>5, <1>7 DEF PInv, IInv, Closes
  <2>7. CASE keys = e.before
    <3>1. keys' = keys \ {z} /\ raced' = raced
      BY <1>1, <1>2, <1>4, <1>7, <2>7 DEF PInv, IInv, Rewrites, SshTypes
    <3>2. Promise!Removes(z)
      BY <1>2, <2>3, <2>6, <3>1 DEF Promise!Removes, Promise!Over, Over
    <3>3. QED
      BY <2>5, <3>2 DEF Promise!PromiseNext
  <2>8. CASE keys # e.before
    <3>1. raced' = TRUE /\ keys' \in SUBSET {y \in Sessions : Asked'[y] = "settled"}
      BY <1>2, <1>3, <2>3, <2>4, <2>8 DEF Settled
    <3>2. Promise!Overlaps
      BY <1>2, <2>3, <3>1 DEF Promise!Overlaps
    <3>3. QED
      BY <2>5, <3>2 DEF Promise!PromiseNext
  <2>9. QED
    BY <2>7, <2>8
<1>8. QED
  BY <1>4, <1>6, <1>7

\* Every step of the sessions is one of the promise, or none.
LEMMA StepPromise ==
  PInv /\ IInv' /\ [Next]_vars => Lines' /\ [Promise!PromiseNext]_Promise!promiseVars
<1> SUFFICES ASSUME PInv, IInv', [Next]_vars
             PROVE  Lines' /\ [Promise!PromiseNext]_Promise!promiseVars
  OBVIOUS
<1>1. CASE UNCHANGED vars
  <2>1. UNCHANGED <<state, port, expiry, prepare, down, keys, edits, raced>>
    BY <1>1 DEF vars
  <2>2. \A y \in Sessions : Pending(y)' <=> Pending(y)
    BY <2>1 DEF Pending, Told
  <2>3. Asked' = Asked /\ Settled' = Settled
    BY <2>1, <2>2, AskedStays
  <2>4. Lines'
    BY <2>1, <2>3, ToldStays DEF PInv, Lines
  <2>5. QED
    BY <2>1, <2>3, <2>4 DEF Promise!promiseVars
<1>2. ASSUME NEW x \in Sessions,
             \/ Create(x) \/ CreateFails(x) \/ PrepareStep(x)
             \/ CloseToken(x) \/ CloseStep(x) \/ LastSecond(x) \/ TimePasses(x)
      PROVE  Lines' /\ [Promise!PromiseNext]_Promise!promiseVars
  BY <1>2, CallsPromise, DispatchPromise, CloseDispatchPromise DEF PrepareStep, CloseStep
<1>3. ASSUME NEW s \in Streams,
             AgentReconciles(s) \/ Connect(s) \/ Break(s) \/ AgentStep(s) \/ ReadyStep(s)
      PROVE  Lines' /\ [Promise!PromiseNext]_Promise!promiseVars
  BY <1>3, EditsPromise, ConnectPromise, LossPromise, WritesPromise, ReadyPromise DEF AgentStep, ReadyStep
<1>4. CASE AgentCrash \/ ValidatorRestart
  BY <1>4, LossPromise, RestartPromise
<1>5. QED
  BY <1>1, <1>2, <1>3, <1>4 DEF Next

\* Rows, ports and authorized_keys are a behaviour of SshPromise for any sessions, ports and
\* streams: the agent is asked once for a line, installs it at most once, and takes it away
\* only when the session is over or in its last second, unless two rewrites of the file overlap.
THEOREM ImplementsSshPromise == Spec => SshPromiseSpec
<1>1. Init => Promise!PromiseInit /\ Lines
  <2> SUFFICES ASSUME Init PROVE Promise!PromiseInit /\ Lines
    OBVIOUS
  <2>1. Asked = [x \in Sessions |-> "no"]
    BY DEF Init, Asked
  <2>2. QED
    BY <2>1 DEF Init, Lines, Promise!PromiseInit
<1>2. PInv /\ [Next]_vars => IInv' /\ Lines' /\ [Promise!PromiseNext]_Promise!promiseVars
  BY NextIInv, StepPromise DEF PInv
<1>3. QED
  BY InitIInv, <1>1, <1>2, PTL DEF Spec, PInv, SshPromiseSpec, Promise!PromiseSpec

=============================================================================
