------------------------ MODULE AgentRegistryProofs ------------------------
(***************************************************************************)
(* Proofs about AgentRegistry for any number of agents, streams and        *)
(* dispatching calls and any queue depth.                                  *)
(***************************************************************************)
EXTENDS AgentRegistry, FiniteSetTheorems, TLAPS

\* Generations tell sessions apart: every session was given a generation no other
\* stream has and no later one can get, an entry points to a session of its own agent
\* and generation, and a stream that has not reached Acquire has no generation.  This
\* is what makes the comparison in release and touch sufficient.
Generations ==
  /\ \A s \in Streams : gen[s] <= generation
  /\ \A s, t \in Streams : gen[s] = gen[t] /\ gen[s] # 0 => s = t
  /\ \A s \in Streams : Holding(s) => gen[s] # 0
  /\ \A s \in Streams : pc[s] \in {"new", "authorized"} => gen[s] = 0 /\ s \notin
     evicted
  /\ \A a \in Agents : entries[a].session # NoStream =>
       /\ AgentOf[entries[a].session] = a
       /\ gen[entries[a].session] = entries[a].gen
       /\ entries[a].gen # 0

Core == Generations /\ HolderIsOnline /\ OnlineHasHolder
IInv == TypeOK /\ Core

\* A step that no stream notices: no session begins or ends and no entry changes hands.
Quiet ==
  /\ UNCHANGED <<generation, gen, evicted>>
  /\ \A a \in Agents : /\ entries'[a].gen = entries[a].gen
                       /\ entries'[a].online <=> entries[a].online
                       /\ entries'[a].session = entries[a].session
  /\ \A s \in Streams : /\ Holding(s)' <=> Holding(s)
                        /\ pc'[s] \in {"new", "authorized"} => pc[s] \in {"new", "authorized"}

USE RegistryAssumption
USE DEF tables, registry, handlers, channels, calls, history

-----------------------------------------------------------------------------
(* Type correctness.                                                       *)

\* The steps of a handler that change only where it is.
LEMMA TypeHandler ==
  ASSUME NEW s \in Streams, TypeOK, Authorize(s) \/ RejectHello(s) \/ RejectDuplicate(s)
     \/ PersistOnlineFails(s) PROVE TypeOK'
<1>1. HandlersOK'
  BY DEF TypeOK, HandlersOK, PC, Authorize, RejectHello, RejectDuplicate,
     PersistOnlineFails, Goto
<1>2. QED
  BY <1>1 DEF TypeOK, TablesOK, RegistryOK, ChannelsOK, CallsOK, HistoryOK, Authorize,
     RejectHello, RejectDuplicate, PersistOnlineFails

\* Acquire creates a well-typed entry.
LEMMA TypeAcquire ==
  ASSUME NEW s \in Streams, TypeOK, Acquire(s) PROVE TypeOK'
<1>1. RegistryOK'
  BY DEF TypeOK, RegistryOK, Entry, Acquire
<1>2. HandlersOK'
  BY DEF TypeOK, HandlersOK, PC, Acquire, Goto
<1>3. HistoryOK'
  BY DEF TypeOK, HistoryOK, Acquire
<1>4. QED
  BY <1>1, <1>2, <1>3 DEF TypeOK, TablesOK, ChannelsOK, CallsOK, Acquire

\* The connections row and the first message.
LEMMA TypePersist ==
  ASSUME NEW s \in Streams, TypeOK, PersistOnline(s) \/ SendAccepted(s) PROVE TypeOK'
<1>1. TablesOK'
  BY DEF TypeOK, TablesOK, Row, PersistOnline, SendAccepted
<1>2. HandlersOK'
  BY DEF TypeOK, HandlersOK, PC, PersistOnline, SendAccepted, Goto
<1>3. QED
  BY <1>1, <1>2 DEF TypeOK, RegistryOK, ChannelsOK, CallsOK, HistoryOK, PersistOnline,
     SendAccepted

\* The sender goroutine.
LEMMA TypeSend ==
  ASSUME NEW s \in Streams, TypeOK, SenderStep(s) PROVE TypeOK'
<1>1. CASE SendMessage(s)
  <2>1. ChannelsOK'
    BY <1>1 DEF TypeOK, ChannelsOK, SendMessage
  <2>2. HistoryOK'
    BY <1>1 DEF TypeOK, HistoryOK, ChannelsOK, SendMessage
  <2>3. QED
    BY <1>1, <2>1, <2>2 DEF TypeOK, TablesOK, RegistryOK, HandlersOK, CallsOK,
       SendMessage
<1>2. CASE SendMessageFails(s)
  <2>1. ChannelsOK'
    BY <1>2 DEF TypeOK, ChannelsOK, SendMessageFails
  <2>2. HandlersOK'
    BY <1>2 DEF TypeOK, HandlersOK, PC, SendMessageFails, HandlerWakes
  <2>3. QED
    BY <1>2, <2>1, <2>2 DEF TypeOK, TablesOK, RegistryOK, CallsOK, HistoryOK,
       SendMessageFails
<1>3. CASE SenderExits(s)
  <2>1. HandlersOK'
    BY <1>3 DEF TypeOK, HandlersOK, PC, SenderExits, HandlerWakes
  <2>2. QED
    BY <1>3, <2>1 DEF TypeOK, TablesOK, RegistryOK, ChannelsOK, CallsOK, HistoryOK,
       SenderExits
<1>4. QED
  BY <1>1, <1>2, <1>3 DEF SenderStep

\* The receiver goroutine: a heartbeat.
LEMMA TypeHeartbeat ==
  ASSUME NEW s \in Streams, TypeOK, Heartbeat(s) PROVE TypeOK'
<1>1. RegistryOK'
  BY ZenonT(60) DEF TypeOK, RegistryOK, Entry, Heartbeat, OwnEntry
<1>2. HistoryOK'
  BY DEF TypeOK, HistoryOK, Heartbeat
<1>3. QED
  BY <1>1, <1>2 DEF TypeOK, TablesOK, HandlersOK, ChannelsOK, CallsOK, Heartbeat

\* The end of the receiver, and the peer going away.
LEMMA TypeEnds ==
  ASSUME NEW s \in Streams, TypeOK, ReceiverExits(s) \/ PeerGone(s) PROVE TypeOK'
<1>1. HandlersOK'
  BY DEF TypeOK, HandlersOK, PC, ReceiverExits, PeerGone, HandlerWakes
<1>2. QED
  BY <1>1 DEF TypeOK, TablesOK, RegistryOK, ChannelsOK, CallsOK, HistoryOK,
     ReceiverExits, PeerGone

\* The first deferred call.
LEMMA TypeOffline ==
  ASSUME NEW s \in Streams, TypeOK, Offline(s) PROVE TypeOK'
<1>1. TablesOK'
  BY DEF TypeOK, TablesOK, Row, Offline
<1>2. HandlersOK'
  BY DEF TypeOK, HandlersOK, PC, Offline, Goto
<1>3. QED
  BY <1>1, <1>2 DEF TypeOK, RegistryOK, ChannelsOK, CallsOK, HistoryOK, Offline

\* The first half of Release.
LEMMA TypeRelease ==
  ASSUME NEW s \in Streams, TypeOK, Release(s) PROVE TypeOK'
<1>1. RegistryOK'
  BY ZenonT(60) DEF TypeOK, RegistryOK, Entry, Release, OwnEntry
<1>2. HandlersOK'
  BY DEF TypeOK, HandlersOK, PC, Release, Goto
<1>3. QED
  BY <1>1, <1>2 DEF TypeOK, TablesOK, ChannelsOK, CallsOK, HistoryOK, Release


\* A dying process leaves well-typed (empty) state behind.
LEMMA TypeDie ==
  ASSUME NEW x \in Deaths, TypeOK, Die(x) PROVE TypeOK'
<1>1. TablesOK'
  BY DEF TypeOK, TablesOK, Die
<1>2. RegistryOK'
  BY DEF TypeOK, RegistryOK, Entry, NoEntry, Die
<1>3. HandlersOK'
  BY DEF TypeOK, HandlersOK, PC, Die
<1>4. ChannelsOK'
  BY DEF TypeOK, ChannelsOK, Die
<1>5. CallsOK'
  BY DEF TypeOK, CallsOK, Outcomes, Die
<1>6. HistoryOK'
  BY DEF TypeOK, HistoryOK, Die
<1>7. QED
  BY <1>1, <1>2, <1>3, <1>4, <1>5, <1>6 DEF TypeOK

\* The second half of Release closes the queue or kills the process.
LEMMA TypeCloseQueue ==
  ASSUME NEW s \in Streams, TypeOK, CloseQueue(s) PROVE TypeOK'
<1>1. CASE Die("close of closed channel")
  BY <1>1, TypeDie DEF Deaths
<1>2. CASE ~Die("close of closed channel")
  <2>1. HandlersOK'
    BY <1>2 DEF TypeOK, HandlersOK, PC, CloseQueue, Goto
  <2>2. ChannelsOK'
    BY <1>2 DEF TypeOK, ChannelsOK, CloseQueue
  <2>3. QED
    BY <1>2, <2>1, <2>2 DEF TypeOK, TablesOK, RegistryOK, CallsOK, HistoryOK, CloseQueue
<1>3. QED
  BY <1>1, <1>2

\* Disconnect takes the session out of the entry and closes its queue, finds no
\* session, or kills the process.
LEMMA TypeDisconnect ==
  ASSUME NEW a \in Agents, TypeOK, Disconnect(a) PROVE TypeOK'
<1>1. CASE Die("close of closed channel")
  BY <1>1, TypeDie DEF Deaths
<1>2. CASE entries[a].session = NoStream /\ ~Die("close of closed channel")
  BY <1>2 DEF TypeOK, TablesOK, RegistryOK, HandlersOK, ChannelsOK, CallsOK, HistoryOK,
              Disconnect
<1>3. CASE entries[a].session # NoStream /\ ~Die("close of closed channel")
  <2> DEFINE e == [entries[a] EXCEPT !.online = FALSE, !.session = NoStream]
  <2>1. entries' = [entries EXCEPT ![a] = e] /\ UNCHANGED <<generation, gen>>
    BY <1>3 DEF Disconnect
  <2>2. e \in Entry /\ ~e.online
    BY DEF TypeOK, RegistryOK, Entry
  <2>3. RegistryOK'
    <3> HIDE DEF e
    <3> QED BY <2>1, <2>2 DEF TypeOK, RegistryOK
  <2>4. ChannelsOK'
    BY <1>3 DEF TypeOK, ChannelsOK, Disconnect
  <2>5. HistoryOK'
    BY <1>3 DEF TypeOK, RegistryOK, Entry, HistoryOK, Disconnect
  <2>6. TablesOK'
    BY <1>3 DEF TypeOK, TablesOK, Disconnect
  <2>7. QED
    BY <1>3, <2>3, <2>4, <2>5, <2>6 DEF TypeOK, HandlersOK, CallsOK, Disconnect
<1>4. QED
  BY <1>1, <1>2, <1>3

\* Time passes and the sweep runs.
LEMMA TypeExpiry ==
  ASSUME TypeOK, Expire \/ \E a \in Agents : Silence(a) PROVE TypeOK'
<1>1. CASE Expire
  <2>1. RegistryOK'
    BY <1>1 DEF TypeOK, RegistryOK, Entry, Expire, TimedOut
  <2>2. HistoryOK'
    BY <1>1 DEF TypeOK, RegistryOK, Entry, HistoryOK, Expire, TimedOut
  <2>3. QED
    BY <1>1, <2>1, <2>2 DEF TypeOK, TablesOK, HandlersOK, ChannelsOK, CallsOK, Expire
<1>2. ASSUME NEW a \in Agents, Silence(a) PROVE TypeOK'
  <2>1. RegistryOK'
    <3> DEFINE e == [entries[a] EXCEPT !.stale = TRUE]
    <3>1. /\ entries' = [entries EXCEPT ![a] = e] /\ UNCHANGED <<generation, gen>>
          /\ entries[a].online
      BY <1>2 DEF Silence
    <3>2. e \in Entry /\ e.session = entries[a].session
      BY DEF TypeOK, RegistryOK, Entry
    <3> HIDE DEF e
    <3>3. QED
      BY <3>1, <3>2 DEF TypeOK, RegistryOK
  <2>2. HistoryOK'
    BY <1>2 DEF TypeOK, HistoryOK, Silence
  <2>3. QED
    BY <1>2, <2>1, <2>2 DEF TypeOK, TablesOK, HandlersOK, ChannelsOK, CallsOK, Silence
<1>3. QED
  BY <1>1, <1>2

\* A dispatching call reads the session.
LEMMA TypeDispatch ==
  ASSUME NEW c \in Callers, NEW a \in Agents, TypeOK, Dispatch(c, a) PROVE TypeOK'
<1>1. CallsOK'
  BY DEF TypeOK, RegistryOK, Entry, CallsOK, Outcomes, Dispatch, Return
<1>2. QED
  BY <1>1 DEF TypeOK, TablesOK, RegistryOK, HandlersOK, ChannelsOK, HistoryOK, Dispatch

\* It sends into the queue of that session, or gives up.
LEMMA TypeCall ==
  ASSUME NEW c \in Callers, TypeOK, CallStep(c) \/ EnqueueCancelled(c) PROVE TypeOK'
<1>1. CASE Enqueue(c)
  <2>1. CallsOK'
    BY <1>1 DEF TypeOK, CallsOK, Outcomes, Enqueue, Return
  <2>2. ChannelsOK'
    BY <1>1 DEF TypeOK, CallsOK, ChannelsOK, Enqueue
  <2>3. QED
    BY <1>1, <2>1, <2>2 DEF TypeOK, TablesOK, RegistryOK, HandlersOK, HistoryOK, Enqueue
<1>2. CASE EnqueueClosed(c)
  BY <1>2, TypeDie DEF EnqueueClosed, Deaths
<1>3. CASE EnqueueCancelled(c)
  <2>1. CallsOK'
    BY <1>3 DEF TypeOK, CallsOK, Outcomes, EnqueueCancelled, Return
  <2>2. QED
    BY <1>3, <2>1 DEF TypeOK, TablesOK, RegistryOK, HandlersOK, ChannelsOK, HistoryOK,
                      EnqueueCancelled
<1>4. QED
  BY <1>1, <1>2, <1>3 DEF CallStep

\* The database statement of a revocation, a crash and a restart.
LEMMA TypeProcess ==
  ASSUME TypeOK, Crash \/ Restart \/ \E a \in Agents : RevokeAgent(a) PROVE TypeOK'
<1>1. CASE Crash
  BY <1>1, TypeDie DEF Crash, Deaths
<1>2. CASE ~Crash
  <2>1. TablesOK'
    BY <1>2 DEF TypeOK, TablesOK, Row, Restart, RevokeAgent
  <2>2. QED
    BY <1>2, <2>1 DEF TypeOK, RegistryOK, HandlersOK, ChannelsOK, CallsOK, HistoryOK,
                      Restart, RevokeAgent
<1>3. QED
  BY <1>1, <1>2

\* In every reachable state every variable has its type, every queue is within its
\* depth and every online entry has a session.
THEOREM TypeCorrect == Spec => []TypeOK
<1>1. Init => TypeOK
  BY DEF Init, TypeOK, TablesOK, Row, RegistryOK, Entry, NoEntry, HandlersOK, PC,
         ChannelsOK, CallsOK, HistoryOK
<1>2. TypeOK /\ [Next]_vars => TypeOK'
  <2> SUFFICES ASSUME TypeOK, [Next]_vars PROVE TypeOK'
    OBVIOUS
  <2>1. ASSUME NEW s \in Streams, StreamStep(s) PROVE TypeOK'
    BY <2>1, TypeHandler, TypeAcquire, TypePersist, TypeSend, TypeHeartbeat, TypeEnds,
       TypeOffline, TypeRelease, TypeCloseQueue DEF StreamStep, HandlerStep
  <2>2. ASSUME NEW c \in Callers, NEW a \in Agents, Dispatch(c, a) PROVE TypeOK'
    BY <2>2, TypeDispatch
  <2>3. ASSUME NEW c \in Callers, CallStep(c) \/ EnqueueCancelled(c) PROVE TypeOK'
    BY <2>3, TypeCall
  <2>4. CASE UNCHANGED vars
    BY <2>4 DEF vars, TypeOK, TablesOK, RegistryOK, HandlersOK, ChannelsOK, CallsOK,
                HistoryOK
  <2>5. QED
    BY <2>1, <2>2, <2>3, <2>4, TypeDisconnect, TypeExpiry, TypeProcess DEF Next
<1>3. QED
  BY <1>1, <1>2, PTL DEF Spec
-----------------------------------------------------------------------------
(* The strengthened invariant.                                             *)

\* What no stream notices preserves the invariant.
LEMMA QuietCore == ASSUME TypeOK, Core, Quiet PROVE Core'
<1>1. Generations'
  BY DEF Core, Generations, Holding, Quiet
<1>2. HolderIsOnline'
  BY DEF Core, HolderIsOnline, Holding, OwnEntry, Quiet
<1>3. OnlineHasHolder'
  BY DEF Core, OnlineHasHolder, Holding, Quiet
<1>4. QED
  BY <1>1, <1>2, <1>3 DEF Core

\* The handler up to its deferred Release, but for Acquire.
LEMMA QuietHandler ==
  ASSUME NEW s \in Streams, TypeOK,
         \/ Authorize(s) \/ RejectHello(s) \/ RejectDuplicate(s) \/ PersistOnline(s)
         \/ PersistOnlineFails(s) \/ SendAccepted(s) \/ Offline(s) \/ PeerGone(s)
  PROVE  Quiet
<1>1. UNCHANGED <<entries, generation, gen, evicted>>
  BY DEF Authorize, RejectHello, RejectDuplicate, PersistOnline, PersistOnlineFails,
         SendAccepted, Offline, PeerGone
<1>2. \A t \in Streams :
        \/ pc'[t] = pc[t]
        \/ pc[t] = "new" /\ pc'[t] = "authorized"
        \/ pc[t] \in {"new", "authorized"} /\ pc'[t] = "done"
        \/ /\ pc[t] \in {"acquired", "persisted", "serving", "closing"}
           /\ pc'[t] \in {"persisted", "serving", "closing", "releasing"}
  BY DEF TypeOK, HandlersOK, Goto, Authorize, RejectHello, RejectDuplicate, PersistOnline,
         PersistOnlineFails, SendAccepted, Offline, PeerGone
<1>3. QED
  BY <1>1, <1>2 DEF Quiet, Holding

\* The two goroutines of a stream.
LEMMA QuietGoroutines ==
  ASSUME NEW s \in Streams, TypeOK, SenderStep(s) \/ ReceiverExits(s) PROVE Quiet
<1>1. UNCHANGED <<entries, generation, gen, evicted>>
  BY DEF SenderStep, SendMessage, SendMessageFails, SenderExits, ReceiverExits
<1>2. pc' = pc \/ (pc[s] = "serving" /\ pc' = [pc EXCEPT ![s] = "closing"])
  BY DEF SenderStep, SendMessage, SendMessageFails, SenderExits, ReceiverExits, HandlerWakes
<1>3. \A t \in Streams : pc'[t] = pc[t] \/ (pc[t] = "serving" /\ pc'[t] = "closing")
  BY <1>2 DEF TypeOK, HandlersOK
<1>4. QED
  BY <1>1, <1>3 DEF Quiet, Holding

\* A heartbeat changes at most when the entry was last seen.
LEMMA QuietHeartbeat == ASSUME NEW s \in Streams, TypeOK, Heartbeat(s) PROVE Quiet
<1>1. UNCHANGED <<generation, gen, evicted, pc>>
  BY DEF Heartbeat
<1>2. PICK b : entries' = [entries EXCEPT ![AgentOf[s]] = [@ EXCEPT !.stale = b]]
  BY DEF Heartbeat
<1>3. \A a \in Agents : /\ entries'[a].gen = entries[a].gen
                        /\ entries'[a].online <=> entries[a].online
                        /\ entries'[a].session = entries[a].session
  BY <1>2 DEF TypeOK, RegistryOK, Entry
<1>4. QED
  BY <1>1, <1>3 DEF Quiet, Holding

\* So does the absence of one.
LEMMA QuietSilence == ASSUME NEW a \in Agents, TypeOK, Silence(a) PROVE Quiet
<1>1. UNCHANGED <<generation, gen, evicted, pc>>
  BY DEF Silence
<1>2. \A b \in Agents : /\ entries'[b].gen = entries[b].gen
                        /\ entries'[b].online <=> entries[b].online
                        /\ entries'[b].session = entries[b].session
  BY DEF TypeOK, RegistryOK, Entry, Silence
<1>3. QED
  BY <1>1, <1>2 DEF Quiet, Holding

\* Acquire makes the stream the holder: nobody unevicted held the identity before.
LEMMA CoreAcquire == ASSUME NEW s \in Streams, TypeOK, Core, Acquire(s) PROVE Core'
<1>1. /\ gen'[s] = generation + 1 /\ generation' = generation + 1 /\ generation \in Nat
      /\ \A t \in Streams \ {s} : gen'[t] = gen[t]
      /\ gen' \in [Streams -> Nat]
  BY DEF Acquire, TypeOK, RegistryOK
<1>2. /\ entries'[AgentOf[s]] =
           [gen |-> generation + 1, online |-> TRUE, stale |-> FALSE, session |-> s]
      /\ \A a \in Agents \ {AgentOf[s]} : entries'[a] = entries[a]
      /\ ~entries[AgentOf[s]].online
  BY DEF Acquire, TypeOK, RegistryOK
<1>3. /\ pc[s] = "authorized" /\ pc'[s] = "acquired"
      /\ \A t \in Streams \ {s} : pc'[t] = pc[t]
      /\ evicted' = evicted
  BY DEF Acquire, Goto, TypeOK, HandlersOK
<1>4. entries \in [Agents -> Entry]
  BY DEF TypeOK, RegistryOK
<1>5. Generations'
  BY <1>1, <1>2, <1>3, <1>4 DEF Core, Generations, Holding, Entry
<1>6. HolderIsOnline'
  <2> SUFFICES ASSUME NEW t \in Streams, Holding(t)', t \notin evicted'
               PROVE  /\ entries'[AgentOf[t]].online
                      /\ entries'[AgentOf[t]].session = t
                      /\ entries'[AgentOf[t]].gen = gen'[t]
    BY DEF HolderIsOnline, OwnEntry
  <2>1. CASE t = s
    BY <2>1, <1>1, <1>2
  <2>2. CASE t # s
    <3>1. Holding(t) /\ t \notin evicted
      BY <2>2, <1>3 DEF Holding
    <3>2. AgentOf[t] # AgentOf[s]
      BY <3>1, <1>2 DEF Core, HolderIsOnline
    <3>3. QED
      BY <2>2, <3>1, <3>2, <1>1, <1>2 DEF Core, HolderIsOnline, OwnEntry
  <2>3. QED
    BY <2>1, <2>2
<1>7. OnlineHasHolder'
  BY <1>2, <1>3 DEF Core, Generations, OnlineHasHolder, Holding
<1>8. QED
  BY <1>5, <1>6, <1>7 DEF Core

\* Release takes the entry offline if and only if the stream is its holder.
LEMMA CoreRelease == ASSUME NEW s \in Streams, TypeOK, Core, Release(s) PROVE Core'
<1>1. /\ UNCHANGED <<generation, gen, evicted>>
      /\ gen \in [Streams -> Nat] /\ entries \in [Agents -> Entry]
  BY DEF Release, TypeOK, RegistryOK
<1>2. /\ pc[s] = "releasing" /\ pc'[s] = "closequeue"
      /\ \A t \in Streams \ {s} : pc'[t] = pc[t]
  BY DEF Release, Goto, TypeOK, HandlersOK
<1>3. \A a \in Agents : /\ entries'[a].gen = entries[a].gen
                        /\ entries'[a].session = entries[a].session
                        /\ entries'[a].online =>
                             entries[a].online /\ ~(a = AgentOf[s] /\ OwnEntry(s))
                        /\ ~(a = AgentOf[s] /\ OwnEntry(s)) =>
                             entries'[a].online = entries[a].online
  BY <1>1, ZenonT(60) DEF Release, Entry
<1>4. Holding(s) /\ gen[s] # 0
  BY <1>2 DEF Holding, Core, Generations
<1>5. Generations'
  BY <1>1, <1>2, <1>3 DEF Core, Generations, Holding
<1>6. HolderIsOnline'
  <2> SUFFICES ASSUME NEW t \in Streams, Holding(t)', t \notin evicted'
               PROVE  /\ entries'[AgentOf[t]].online
                      /\ entries'[AgentOf[t]].session = t
                      /\ entries'[AgentOf[t]].gen = gen'[t]
    BY DEF HolderIsOnline, OwnEntry
  <2>1. t # s /\ Holding(t) /\ t \notin evicted
    BY <1>1, <1>2 DEF Holding
  <2>2. ~(AgentOf[t] = AgentOf[s] /\ OwnEntry(s))
    BY <2>1, <1>4 DEF Core, Generations, HolderIsOnline, OwnEntry
  <2>3. QED
    BY <2>1, <2>2, <1>1, <1>3 DEF Core, HolderIsOnline, OwnEntry
<1>7. OnlineHasHolder'
  <2> SUFFICES ASSUME NEW a \in Agents, entries'[a].online
               PROVE  /\ entries'[a].session \in Streams \ evicted'
                      /\ AgentOf[entries'[a].session] = a
                      /\ Holding(entries[a].session)'
    BY <1>3 DEF OnlineHasHolder
  <2>1. /\ entries[a].session \in Streams \ evicted
        /\ AgentOf[entries[a].session] = a
        /\ Holding(entries[a].session)
        /\ gen[entries[a].session] = entries[a].gen
    BY <1>3 DEF Core, Generations, OnlineHasHolder
  <2>2. entries[a].session # s
    BY <2>1, <1>3 DEF OwnEntry
  <2>3. QED
    BY <2>1, <2>2, <1>1, <1>2, <1>3 DEF Holding
<1>8. QED
  BY <1>5, <1>6, <1>7 DEF Core

\* After the process died no stream holds anything.
LEMMA CoreDie == ASSUME NEW x \in Deaths, TypeOK, Die(x) PROVE Core'
<1>1. \A s \in Streams : ~Holding(s)' /\ gen'[s] = 0
  BY DEF Die, Holding
<1>2. \A a \in Agents : entries'[a] = NoEntry
  BY DEF Die
<1>3. QED
  BY <1>1, <1>2 DEF Die, NoEntry, Core, Generations, HolderIsOnline, OnlineHasHolder
\* The second half of Release: nothing, or the end of everything.
LEMMA CoreCloseQueue == ASSUME NEW s \in Streams, TypeOK, Core, CloseQueue(s) PROVE Core'
<1>1. CASE Die("close of closed channel")
  BY <1>1, CoreDie DEF Deaths
<1>2. CASE ~Die("close of closed channel")
  <2>1. /\ UNCHANGED <<entries, generation, gen, evicted>>
        /\ pc[s] = "closequeue" /\ pc' = [pc EXCEPT ![s] = "done"]
    BY <1>2 DEF CloseQueue, Goto
  <2>2. \A t \in Streams : pc'[t] = pc[t] \/ (pc[t] = "closequeue" /\ pc'[t] = "done")
    BY <2>1 DEF TypeOK, HandlersOK
  <2>3. Quiet
    BY <2>1, <2>2 DEF Quiet, Holding
  <2>4. QED
    BY <2>3, QuietCore
<1>3. QED
  BY <1>1, <1>2

\* Disconnect evicts the stream the entry points to, held or already ended.
LEMMA CoreDisconnect == ASSUME NEW a \in Agents, TypeOK, Core, Disconnect(a) PROVE Core'
<1>1. CASE Die("close of closed channel")
  BY <1>1, CoreDie DEF Deaths
<1>2. CASE entries[a].session = NoStream /\ ~Die("close of closed channel")
  <2>1. UNCHANGED <<entries, generation, gen, evicted, pc>>
    BY <1>2 DEF Disconnect
  <2>2. Quiet
    BY <2>1 DEF Quiet, Holding
  <2>3. QED
    BY <2>2, QuietCore
<1>3. CASE entries[a].session # NoStream /\ ~Die("close of closed channel")
  <2> DEFINE e == [entries[a] EXCEPT !.online = FALSE, !.session = NoStream]
             x == entries[a].session
  <2>1. /\ entries' = [entries EXCEPT ![a] = e] /\ evicted' = evicted \cup {x}
        /\ UNCHANGED <<generation, gen, pc>>
    BY <1>3 DEF Disconnect
  <2>2. ~e.online /\ e.session = NoStream /\ e.gen = entries[a].gen
    BY DEF TypeOK, RegistryOK, Entry
  <2>3. /\ ~entries'[a].online /\ entries'[a].session = NoStream
        /\ entries'[a].gen = entries[a].gen
        /\ \A b \in Agents \ {a} : entries'[b] = entries[b]
    <3> HIDE DEF e
    <3> QED BY <2>1, <2>2 DEF TypeOK, RegistryOK
  <2>4. x \in Streams /\ AgentOf[x] = a /\ gen[x] # 0
    <3>1. entries[a].session \in Streams \cup {NoStream}
      BY DEF TypeOK, RegistryOK, Entry
    <3>2. /\ AgentOf[entries[a].session] = a
          /\ gen[entries[a].session] = entries[a].gen
          /\ entries[a].gen # 0
      BY <1>3 DEF Core, Generations
    <3>3. QED
      BY <1>3, <3>1, <3>2
  <2> HIDE DEF e, x
  <2>5. Generations'
    BY <2>1, <2>3, <2>4 DEF Core, Generations, Holding
  <2>6. HolderIsOnline'
    <3> SUFFICES ASSUME NEW s \in Streams, Holding(s), s \notin evicted, s # x
                 PROVE  /\ entries'[AgentOf[s]].online
                        /\ entries'[AgentOf[s]].session = s
                        /\ entries'[AgentOf[s]].gen = gen[s]
      BY <2>1 DEF HolderIsOnline, OwnEntry, Holding
    <3>1. AgentOf[s] # a
      BY DEF Core, HolderIsOnline, x
    <3>2. QED
      BY <3>1, <2>3 DEF Core, HolderIsOnline, OwnEntry
  <2>7. OnlineHasHolder'
    BY <2>1, <2>3, <2>4 DEF Core, OnlineHasHolder, Holding
  <2>8. QED
    BY <2>5, <2>6, <2>7 DEF Core
<1>4. QED
  BY <1>1, <1>2, <1>3

\* The sweep evicts exactly the streams whose entries it takes offline.
LEMMA CoreExpire == ASSUME TypeOK, Core, Expire PROVE Core'
<1> DEFINE x == {entries[a].session : a \in TimedOut}
<1>1. /\ evicted' = evicted \cup x /\ UNCHANGED <<generation, gen, pc>>
      /\ TimedOut \in SUBSET Agents
  BY DEF Expire, TimedOut
<1>2. \A a \in Agents : /\ entries'[a].gen = entries[a].gen
                        /\ entries'[a].session = entries[a].session
                        /\ entries'[a].online <=> entries[a].online /\ a \notin TimedOut
  BY DEF Expire, TypeOK, RegistryOK, Entry
<1>3. \A a \in TimedOut : /\ entries[a].session \in Streams
                          /\ AgentOf[entries[a].session] = a
                          /\ Holding(entries[a].session)
  BY <1>1 DEF Core, OnlineHasHolder, TimedOut
<1>4. Generations'
  BY <1>1, <1>2, <1>3 DEF Core, Generations, Holding
<1>5. HolderIsOnline'
  <2> SUFFICES ASSUME NEW s \in Streams, Holding(s), s \notin evicted, s \notin x
               PROVE  /\ entries'[AgentOf[s]].online
                      /\ entries'[AgentOf[s]].session = s
                      /\ entries'[AgentOf[s]].gen = gen[s]
    BY <1>1 DEF HolderIsOnline, OwnEntry, Holding
  <2>1. /\ entries[AgentOf[s]].online
        /\ entries[AgentOf[s]].session = s
        /\ entries[AgentOf[s]].gen = gen[s]
    BY DEF Core, HolderIsOnline, OwnEntry
  <2>2. AgentOf[s] \notin TimedOut
    BY <2>1
  <2>3. QED
    BY <2>1, <2>2, <1>2
<1>6. OnlineHasHolder'
  <2> SUFFICES ASSUME NEW a \in Agents, entries[a].online, a \notin TimedOut
               PROVE  /\ entries[a].session \in Streams \ (evicted \cup x)
                      /\ AgentOf[entries[a].session] = a
                      /\ Holding(entries[a].session)
    BY <1>1, <1>2 DEF OnlineHasHolder, Holding
  <2>1. QED
    BY <1>1, <1>3 DEF Core, OnlineHasHolder
<1>7. QED
  BY <1>4, <1>5, <1>6 DEF Core

\* Everything else in Next is quiet.
LEMMA CoreCalls ==
  ASSUME TypeOK, Core,
         \/ \E c \in Callers : CallStep(c) \/ EnqueueCancelled(c)
         \/ \E c \in Callers, a \in Agents : Dispatch(c, a)
         \/ \E a \in Agents : RevokeAgent(a)
         \/ Crash \/ Restart
  PROVE  Core'
<1>1. CASE \E x \in Deaths : Die(x)
  BY <1>1, CoreDie
<1>2. CASE ~\E x \in Deaths : Die(x)
  <2>1. UNCHANGED <<entries, generation, gen, evicted, pc>>
    BY <1>2 DEF CallStep, Enqueue, EnqueueClosed, EnqueueCancelled, Dispatch, RevokeAgent,
                Crash, Restart, Deaths
  <2>2. Quiet
    BY <2>1 DEF Quiet, Holding
  <2>3. QED
    BY <2>2, QuietCore
<1>3. QED
  BY <1>1, <1>2

\* The inductive step of the strengthened invariant.
LEMMA CoreStep == ASSUME TypeOK, Core, [Next]_vars PROVE Core'
<1>1. ASSUME NEW s \in Streams, StreamStep(s) PROVE Core'
  BY <1>1, QuietCore, QuietHandler, QuietGoroutines, QuietHeartbeat, CoreAcquire,
     CoreRelease, CoreCloseQueue DEF StreamStep, HandlerStep
<1>2. ASSUME NEW a \in Agents, Disconnect(a) \/ Silence(a) PROVE Core'
  BY <1>2, CoreDisconnect, QuietSilence, QuietCore
<1>3. CASE UNCHANGED vars
  <2>1. Quiet
    BY <1>3 DEF vars, Quiet, Holding
  <2>2. QED
    BY <2>1, QuietCore
<1>4. QED
  BY <1>1, <1>2, <1>3, CoreExpire, CoreCalls DEF Next

\* The strengthened invariant holds in every reachable state.
THEOREM Invariance == Spec => []IInv
<1>1. Init => Core
  BY DEF Init, Core, Generations, HolderIsOnline, OnlineHasHolder, NoEntry, Holding
<1>2. TypeOK /\ Core /\ [Next]_vars => Core'
  BY CoreStep
<1>3. QED
  BY <1>1, <1>2, TypeCorrect, PTL DEF Spec, IInv

-----------------------------------------------------------------------------
(* What the registry promises.                                             *)

\* A live stream is never shadowed by the ends and heartbeats of older streams.
THEOREM HolderCorrect == Spec => []HolderIsOnline
BY Invariance, PTL DEF IInv, Core

\* An online entry always has a stream that will release it.
THEOREM NoGhost == Spec => []OnlineHasHolder
BY Invariance, PTL DEF IInv, Core

\* At most one unevicted stream per agent identity is between Acquire and Release.
THEOREM OneStream == Spec => []OneStreamPerAgent
<1>1. IInv => OneStreamPerAgent
  BY DEF IInv, Core, HolderIsOnline, OneStreamPerAgent
<1>2. QED
  BY <1>1, Invariance, PTL

-----------------------------------------------------------------------------
(* The connections table.                                                  *)

\* A stream is served by a process that is up, and by its row.
Served == /\ ServedRowOnline
          /\ ~Live => \A s \in Streams : pc[s] \in {"new", "done"}

\* A step that no row is written by.
RowStays ==
  /\ UNCHANGED row /\ evicted \subseteq evicted'
  /\ \A s \in Streams : pc'[s] \in {"persisted", "serving"} => pc[s] \in {"persisted", "serving"}

\* Such a step leaves every served stream the row it had.
LEMMA RowStaysServed == ASSUME TypeOK, ServedRowOnline, RowStays PROVE ServedRowOnline'
  BY DEF ServedRowOnline, RowStays

\* Online replaces the row of a stream that was evicted, or of none that is served.
LEMMA OnlineServed ==
  ASSUME NEW s \in Streams, IInv, ServedRowOnline, PersistOnline(s)
  PROVE  ServedRowOnline'
<1>1. /\ pc[s] = "acquired" /\ pc' = [pc EXCEPT ![s] = "persisted"] /\ UNCHANGED <<evicted, gen, entries>>
      /\ row' = [row EXCEPT ![AgentOf[s]] = [stream |-> s, state |-> "online"]]
  BY DEF PersistOnline, Goto
<1>2. /\ row'[AgentOf[s]].stream = s /\ row'[AgentOf[s]].state = "online"
      /\ \A a \in Agents \ {AgentOf[s]} : row'[a] = row[a]
      /\ \A t \in Streams : t # s => pc'[t] = pc[t]
  BY <1>1 DEF IInv, TypeOK, TablesOK, HandlersOK
<1>3. ASSUME NEW t \in Streams, pc'[t] \in {"persisted", "serving"}, t # s
      PROVE  \/ row'[AgentOf[t]].stream = t /\ row'[AgentOf[t]].state = "online"
             \/ row'[AgentOf[t]].stream # t /\ {t, row'[AgentOf[t]].stream} \cap evicted' # {}
  <2>1. pc[t] \in {"persisted", "serving"}
    BY <1>2, <1>3
  <2>2. CASE AgentOf[t] = AgentOf[s]
    <3>1. Holding(s) /\ Holding(t)
      BY <1>1, <2>1 DEF Holding
    <3>2. s \in evicted \/ t \in evicted
      BY <1>3, <2>2, <3>1 DEF IInv, Core, HolderIsOnline
    <3>3. QED
      BY <1>1, <1>2, <1>3, <2>2, <3>2
  <2>3. CASE AgentOf[t] # AgentOf[s]
    BY <1>1, <1>2, <2>1, <2>3 DEF ServedRowOnline
  <2>4. QED
    BY <2>2, <2>3
<1>4. QED
  BY <1>2, <1>3 DEF ServedRowOnline

\* Offline takes nobody's row but that of the stream that ends.
LEMMA OfflineServed ==
  ASSUME NEW s \in Streams, IInv, ServedRowOnline, Offline(s)
  PROVE  ServedRowOnline'
<1>1. pc[s] = "closing" /\ pc' = [pc EXCEPT ![s] = "releasing"] /\ UNCHANGED evicted
  BY DEF Offline, Goto
<1>2. \A t \in Streams : pc'[t] \in {"persisted", "serving"} => t # s /\ pc[t] \in {"persisted", "serving"}
  BY <1>1 DEF IInv, TypeOK, HandlersOK
<1>3. \A a \in Agents : \/ row'[a] = row[a]
                        \/ row[a].stream = s /\ row'[a].stream = s /\ a = AgentOf[s]
  BY DEF Offline, IInv, TypeOK, TablesOK, Row
<1>4. QED
  BY <1>1, <1>2, <1>3 DEF ServedRowOnline

\* A process that died serves nobody.
LEMMA DieServed == ASSUME NEW x \in Deaths, Die(x) PROVE Served'
<1>1. \A s \in Streams : pc'[s] \in {"new", "done"}
  BY DEF Die
<1>2. QED
  BY <1>1 DEF Served, ServedRowOnline

\* What a stream does besides writes no row, and serving begins with the row.
LEMMA StreamRowStays ==
  ASSUME NEW s \in Streams, TypeOK, StreamStep(s), ~\E x \in Deaths : Die(x),
         ~PersistOnline(s), ~Offline(s)
  PROVE  RowStays /\ Live /\ UNCHANGED process
<1> USE DEF TypeOK, HandlersOK, RowStays, Live, Goto, HandlerWakes
<1>1. CASE Authorize(s) \/ RejectHello(s) \/ RejectDuplicate(s)
  BY <1>1 DEF Authorize, RejectHello, RejectDuplicate
<1>2. CASE Acquire(s) \/ PersistOnlineFails(s) \/ SendAccepted(s)
  BY <1>2 DEF Acquire, PersistOnlineFails, SendAccepted
<1>3. CASE SenderStep(s)
  BY <1>3 DEF SenderStep, SendMessage, SendMessageFails, SenderExits
<1>4. CASE Heartbeat(s) \/ ReceiverExits(s) \/ PeerGone(s)
  BY <1>4 DEF Heartbeat, ReceiverExits, PeerGone
<1>5. CASE Release(s)
  BY <1>5 DEF Release
<1>6. CASE CloseQueue(s)
  <2>1. ~Die("close of closed channel")
    BY DEF Deaths
  <2>2. QED
    BY <1>6, <2>1 DEF CloseQueue
<1>7. QED
  BY <1>1, <1>2, <1>3, <1>4, <1>5, <1>6 DEF StreamStep, HandlerStep

\* Nor do the revocation, the sweep and the dispatching calls.
LEMMA OtherRowStays ==
  ASSUME ~\E x \in Deaths : Die(x),
         \/ \E a \in Agents : RevokeAgent(a) \/ Disconnect(a) \/ Silence(a)
         \/ \E c \in Callers, a \in Agents : Dispatch(c, a)
         \/ \E c \in Callers : CallStep(c) \/ EnqueueCancelled(c)
         \/ Expire
  PROVE  RowStays /\ Live /\ UNCHANGED <<process, pc>>
<1> USE DEF RowStays, Live
<1>1. ~Die("close of closed channel") /\ ~Die("send on closed channel")
  BY DEF Deaths
<1>2. ASSUME NEW a \in Agents, RevokeAgent(a) \/ Silence(a) PROVE RowStays /\ Live /\ UNCHANGED <<process, pc>>
  BY <1>2 DEF RevokeAgent, Silence
<1>3. ASSUME NEW a \in Agents, Disconnect(a) PROVE RowStays /\ Live /\ UNCHANGED <<process, pc>>
  BY <1>1, <1>3 DEF Disconnect
<1>4. ASSUME NEW c \in Callers, CallStep(c) \/ EnqueueCancelled(c) \/ \E a \in Agents : Dispatch(c, a)
      PROVE  RowStays /\ Live /\ UNCHANGED <<process, pc>>
  BY <1>1, <1>4 DEF CallStep, Enqueue, EnqueueClosed, EnqueueCancelled, Dispatch
<1>5. CASE Expire
  BY <1>5 DEF Expire
<1>6. QED
  BY <1>2, <1>3, <1>4, <1>5

\* Rows and served streams go on together through every step.
LEMMA ServedStep == ASSUME IInv, Served, [Next]_vars PROVE Served'
<1>1. CASE UNCHANGED vars
  BY <1>1 DEF vars, Served, ServedRowOnline, Live
<1>2. CASE \E x \in Deaths : Die(x)
  BY <1>2, DieServed
<1>3. CASE Restart
  <2>1. process' = "up" /\ UNCHANGED <<pc, evicted>> /\ \A s \in Streams : pc[s] \in {"new", "done"}
    BY <1>3 DEF Restart, Served
  <2>2. QED
    BY <2>1 DEF Served, ServedRowOnline, Live
<1>4. ASSUME NEW s \in Streams, StreamStep(s), ~\E x \in Deaths : Die(x)
      PROVE  Served'
  <2>1. CASE PersistOnline(s)
    <3>1. Live'
      BY <2>1 DEF PersistOnline, Live
    <3>2. QED
      BY <2>1, <3>1, OnlineServed DEF Served
  <2>2. CASE Offline(s)
    <3>1. Live'
      BY <2>2 DEF Offline, Live
    <3>2. QED
      BY <2>2, <3>1, OfflineServed DEF Served
  <2>3. CASE ~PersistOnline(s) /\ ~Offline(s)
    <3>1. RowStays /\ Live'
      BY <1>4, <2>3, StreamRowStays DEF IInv, Live
    <3>2. QED
      BY <3>1, RowStaysServed DEF Served, IInv
  <2>4. QED
    BY <2>1, <2>2, <2>3
<1>5. CASE /\ ~\E x \in Deaths : Die(x)
           /\ \/ \E a \in Agents : RevokeAgent(a) \/ Disconnect(a) \/ Silence(a)
              \/ \E c \in Callers, a \in Agents : Dispatch(c, a)
              \/ \E c \in Callers : CallStep(c) \/ EnqueueCancelled(c)
              \/ Expire
  <2>1. RowStays /\ Live'
    BY <1>5, OtherRowStays DEF Live
  <2>2. QED
    BY <2>1, RowStaysServed DEF Served, IInv
<1>6. CASE Crash
  BY <1>2, <1>6 DEF Crash, Deaths
<1>7. QED
  BY <1>1, <1>2, <1>3, <1>4, <1>5, <1>6 DEF Next

\* What ListAgents shows of a served agent is its own row, or one of the two streams
\* was evicted: the late Offline of an old stream never touches its successor's row.
THEOREM ServedIsOnline == Spec => []ServedRowOnline
<1>1. Init => Served
  BY DEF Init, Served, ServedRowOnline, Live
<1>2. IInv /\ Served /\ [Next]_vars => Served'
  BY ServedStep
<1>3. Served => ServedRowOnline
  BY DEF Served
<1>4. QED
  BY <1>1, <1>2, <1>3, Invariance, PTL DEF Spec

-----------------------------------------------------------------------------
(* Dispatched messages.                                                    *)

InQueue(s, i, c) == i \in DOMAIN queue[s] /\ queue[s][i] = c

\* A message that was accepted is in one place of one queue or was sent on one stream;
\* one that was not is nowhere.
Single ==
  \A c \in Callers, s, t \in Streams :
    /\ call[c] # "ok" => c \notin sent[s] /\ \A i \in Nat : ~InQueue(s, i, c)
    /\ \A i, k \in Nat : InQueue(s, i, c) /\ InQueue(t, k, c) => s = t /\ i = k
    /\ \A i \in Nat : ~(InQueue(s, i, c) /\ c \in sent[t])
    /\ c \in sent[s] /\ c \in sent[t] => s = t

\* A step that leaves messages where they are or loses them.
MessagesStay ==
  /\ \A s \in Streams, i \in Nat, c \in Callers : InQueue(s, i, c)' => InQueue(s, i, c)
  /\ UNCHANGED sent
  /\ \A c \in Callers : call[c] = "ok" => call'[c] = "ok"

\* Where no message moves, each stays single.
LEMMA StaySingle == ASSUME Single, MessagesStay PROVE Single'
  BY DEF Single, MessagesStay

\* The head of a queue is taken.
LEMMA TakenIs ==
  ASSUME NEW s \in Streams, TypeOK, queue[s] # <<>>, queue' = [queue EXCEPT ![s] = Tail(@)]
  PROVE  /\ Head(queue[s]) \in Callers /\ InQueue(s, 1, Head(queue[s]))
         /\ \A t \in Streams, i \in Nat, c \in Callers : InQueue(t, i, c)' =>
              IF t = s THEN i # 0 /\ InQueue(s, i + 1, c) ELSE InQueue(t, i, c)
<1>1. queue[s] \in Seq(Callers)
  BY DEF TypeOK, ChannelsOK
<1>2. queue'[s] = Tail(queue[s]) /\ \A t \in Streams : t # s => queue'[t] = queue[t]
  BY DEF TypeOK, ChannelsOK
<1>3. \A i \in DOMAIN Tail(queue[s]) : /\ i # 0 /\ i + 1 \in DOMAIN queue[s]
                                       /\ Tail(queue[s])[i] = queue[s][i + 1]
  BY <1>1
<1>4. Head(queue[s]) \in Callers /\ 1 \in DOMAIN queue[s] /\ Head(queue[s]) = queue[s][1]
  BY <1>1
<1>5. QED
  BY <1>2, <1>3, <1>4 DEF InQueue

\* It goes to its stream, or is lost with it.
LEMMA SendSingle ==
  ASSUME NEW s \in Streams, TypeOK, Single, SendMessage(s) \/ SendMessageFails(s)
  PROVE  Single'
<1>1. /\ queue[s] # <<>> /\ queue' = [queue EXCEPT ![s] = Tail(@)] /\ UNCHANGED call
      /\ sent' = [sent EXCEPT ![s] = @ \cup {Head(queue[s])}] \/ UNCHANGED sent
  BY DEF SendMessage, SendMessageFails
<1>2. PICK h \in Callers : h = Head(queue[s]) /\ InQueue(s, 1, h)
  BY <1>1, TakenIs
<1>3. \A t \in Streams, i \in Nat, c \in Callers : InQueue(t, i, c)' =>
        IF t = s THEN i # 0 /\ InQueue(s, i + 1, c) ELSE InQueue(t, i, c)
  BY <1>1, TakenIs
<1>4. \A t \in Streams, c \in Callers : c \in sent'[t] => c \in sent[t] \/ (t = s /\ c = h)
  BY <1>1, <1>2 DEF TypeOK, HistoryOK
<1>5. \A i, k \in Nat : /\ i + 1 \in Nat /\ (i + 1 = k + 1 => i = k)
                        /\ i # 0 => i + 1 # 1
  OBVIOUS
<1>6. \A t \in Streams, i \in Nat : ~InQueue(t, i, h)'
  BY <1>2, <1>3, <1>5 DEF Single
<1>7. ASSUME NEW c \in Callers, NEW t \in Streams, NEW v \in Streams
      PROVE  \A i, k \in Nat : InQueue(t, i, c)' /\ InQueue(v, k, c)' => t = v /\ i = k
  BY <1>3, <1>5 DEF Single
<1>8. ASSUME NEW c \in Callers, NEW t \in Streams, NEW v \in Streams
      PROVE  /\ \A i \in Nat : ~(InQueue(t, i, c)' /\ c \in sent'[v])
             /\ c \in sent'[t] /\ c \in sent'[v] => t = v
  BY <1>2, <1>3, <1>4, <1>5, <1>6 DEF Single
<1>9. ASSUME NEW c \in Callers, NEW t \in Streams, call'[c] # "ok"
      PROVE  c \notin sent'[t] /\ \A i \in Nat : ~InQueue(t, i, c)'
  BY <1>1, <1>2, <1>3, <1>4, <1>5, <1>9 DEF Single
<1>10. QED
  BY <1>7, <1>8, <1>9 DEF Single

\* A call that still waited had its message nowhere; it is now in one queue.
LEMMA EnqueueSingle ==
  ASSUME NEW x \in Callers, TypeOK, Single, Enqueue(x)
  PROVE  Single'
<1>1. PICK s \in Streams : s = session[x]
  BY DEF Enqueue, TypeOK, CallsOK
<1>2. /\ call[x] = "enqueuing" /\ queue' = [queue EXCEPT ![s] = Append(@, x)]
      /\ call' = [call EXCEPT ![x] = "ok"] /\ UNCHANGED sent
  BY <1>1 DEF Enqueue, Return
<1>3. queue[s] \in Seq(Callers)
  BY DEF TypeOK, ChannelsOK
<1>4. /\ queue'[s] = Append(queue[s], x) /\ \A t \in Streams : t # s => queue'[t] = queue[t]
      /\ call'[x] = "ok" /\ \A c \in Callers : c # x => call'[c] = call[c]
  BY <1>2 DEF TypeOK, ChannelsOK, CallsOK
<1>5. \A i \in DOMAIN Append(queue[s], x) :
        \/ i \in DOMAIN queue[s] /\ Append(queue[s], x)[i] = queue[s][i]
        \/ i = Len(queue[s]) + 1 /\ Append(queue[s], x)[i] = x
  BY <1>3
<1>6. \A t \in Streams, i \in Nat, c \in Callers : InQueue(t, i, c)' =>
        InQueue(t, i, c) \/ (t = s /\ i = Len(queue[s]) + 1 /\ c = x)
  BY <1>4, <1>5 DEF InQueue
<1>7. \A t \in Streams : x \notin sent[t] /\ \A i \in Nat : ~InQueue(t, i, x)
  BY <1>2 DEF Single
<1>8. QED
  BY <1>2, <1>4, <1>6, <1>7 DEF Single

\* With the process everything that was queued is lost.
LEMMA DieStays == ASSUME NEW x \in Deaths, TypeOK, Die(x) PROVE MessagesStay
<1>1. \A s \in Streams, i \in Nat, c \in Callers : ~InQueue(s, i, c)'
  BY DEF Die, InQueue
<1>2. QED
  BY <1>1 DEF Die, MessagesStay, TypeOK, CallsOK

\* A step that touches neither queue nor stream moves no message.
LEMMA UntouchedStays == ASSUME UNCHANGED <<queue, sent, call>> PROVE MessagesStay
  BY DEF MessagesStay, InQueue

\* No step makes a second copy of a message.
LEMMA SingleStep == ASSUME TypeOK, Single, [Next]_vars PROVE Single'
<1>1. CASE UNCHANGED vars
  BY <1>1, UntouchedStays, StaySingle DEF vars
<1>2. CASE \E x \in Deaths : Die(x)
  BY <1>2, DieStays, StaySingle
<1>3. CASE Restart \/ Crash
  BY <1>2, <1>3, UntouchedStays, StaySingle DEF Restart, Crash, Deaths
<1>4. ASSUME NEW s \in Streams, StreamStep(s), ~\E x \in Deaths : Die(x)
      PROVE  Single'
  <2>1. CASE SendMessage(s) \/ SendMessageFails(s)
    BY <2>1, SendSingle
  <2>2. CASE CloseQueue(s)
    <3>1. ~Die("close of closed channel")
      BY <1>4 DEF Deaths
    <3>2. UNCHANGED <<queue, sent, call>>
      BY <2>2, <3>1 DEF CloseQueue
    <3>3. QED
      BY <3>2, UntouchedStays, StaySingle
  <2>3. CASE Authorize(s) \/ RejectHello(s) \/ RejectDuplicate(s) \/ Acquire(s) \/ PersistOnline(s)
             \/ PersistOnlineFails(s) \/ SendAccepted(s) \/ Offline(s) \/ Release(s)
    <3>1. UNCHANGED <<queue, sent, call>>
      BY <2>3 DEF Authorize, RejectHello, RejectDuplicate, Acquire, PersistOnline, PersistOnlineFails,
           SendAccepted, Offline, Release
    <3>2. QED
      BY <3>1, UntouchedStays, StaySingle
  <2>4. CASE SenderExits(s) \/ Heartbeat(s) \/ ReceiverExits(s) \/ PeerGone(s)
    <3>1. UNCHANGED <<queue, sent, call>>
      BY <2>4 DEF SenderExits, Heartbeat, ReceiverExits, PeerGone
    <3>2. QED
      BY <3>1, UntouchedStays, StaySingle
  <2>5. QED
    BY <1>4, <2>1, <2>2, <2>3, <2>4 DEF StreamStep, HandlerStep, SenderStep
<1>5. ASSUME NEW a \in Agents, RevokeAgent(a) \/ Disconnect(a) \/ Silence(a), ~\E x \in Deaths : Die(x)
      PROVE  Single'
  <2>1. ~Die("close of closed channel")
    BY <1>5 DEF Deaths
  <2>2. UNCHANGED <<queue, sent, call>>
    BY <1>5, <2>1 DEF RevokeAgent, Disconnect, Silence
  <2>3. QED
    BY <2>2, UntouchedStays, StaySingle
<1>6. ASSUME NEW c \in Callers, EnqueueCancelled(c) \/ \E a \in Agents : Dispatch(c, a)
      PROVE  Single'
  <2>1. /\ UNCHANGED <<queue, sent>> /\ call[c] # "ok"
        /\ \E outcome \in {"offline", "enqueuing", "cancelled"} : call' = [call EXCEPT ![c] = outcome]
    BY <1>6 DEF EnqueueCancelled, Dispatch, Return
  <2>2. MessagesStay
    BY <2>1 DEF MessagesStay, InQueue, TypeOK, CallsOK
  <2>3. QED
    BY <2>2, StaySingle
<1>7. ASSUME NEW c \in Callers, CallStep(c), ~\E x \in Deaths : Die(x)
      PROVE  Single'
  BY <1>7, EnqueueSingle DEF CallStep, EnqueueClosed, Deaths
<1>8. CASE Expire
  BY <1>8, UntouchedStays, StaySingle DEF Expire
<1>9. QED
  BY <1>1, <1>2, <1>3, <1>4, <1>5, <1>6, <1>7, <1>8 DEF Next

\* A set whose members are all the same has at most one.
LEMMA AtMostOneIs ==
  ASSUME NEW S, \A p, q \in S : p = q
  PROVE  Cardinality(S) \in {0, 1} /\ (S = {} => Cardinality(S) = 0)
<1>1. CASE S = {}
  BY <1>1, FS_EmptySet
<1>2. CASE S # {}
  <2>1. PICK p \in S : TRUE
    BY <1>2
  <2>2. S = {p}
    BY <2>1
  <2>3. Cardinality({p}) = 1
    BY FS_Singleton
  <2>4. QED
    BY <1>2, <2>2, <2>3
<1>3. QED
  BY <1>1, <1>2

\* In numbers: the copies and the deliveries of one message are at most one together.
LEMMA SingleCounts == ASSUME TypeOK, Single PROVE DispatchAtMostOnce
<1> SUFFICES ASSUME NEW c \in Callers
             PROVE  Cardinality(Copies(c)) + Cardinality(Deliveries(c))
                      <= (IF call[c] = "ok" THEN 1 ELSE 0)
  BY DEF DispatchAtMostOnce
<1>1. \A p \in Copies(c) : /\ p[1] \in Streams /\ p[2] \in Nat /\ InQueue(p[1], p[2], c)
                           /\ p = <<p[1], p[2]>>
  BY RegistryAssumption DEF Copies, InQueue
<1>2. \A s \in Deliveries(c) : s \in Streams /\ c \in sent[s]
  BY DEF Deliveries
<1>3. call[c] # "ok" => Copies(c) = {} /\ Deliveries(c) = {}
  BY <1>1, <1>2 DEF Single
<1>4. (\A p, q \in Copies(c) : p = q) /\ (Copies(c) # {} => Deliveries(c) = {})
  BY <1>1, <1>2 DEF Single
<1>5. \A s, t \in Deliveries(c) : s = t
  BY <1>2 DEF Single
<1>6. /\ Cardinality(Copies(c)) \in {0, 1} /\ Cardinality(Deliveries(c)) \in {0, 1}
      /\ Copies(c) = {} => Cardinality(Copies(c)) = 0
      /\ Deliveries(c) = {} => Cardinality(Deliveries(c)) = 0
  BY <1>4, <1>5, AtMostOneIs
<1>7. QED
  BY <1>3, <1>4, <1>6

\* A Dispatch that returned an error left nothing behind in any queue or stream, and one
\* that returned nil at most one message: Enqueue, the sender and the end of the process
\* neither duplicate a message nor let a retry meet the first attempt.
THEOREM AtMostOnce == Spec => []DispatchAtMostOnce
<1>1. Init => Single
  BY DEF Init, Single, InQueue
<1>2. TypeOK /\ Single /\ [Next]_vars => Single'
  BY SingleStep
<1>3. TypeOK /\ Single => DispatchAtMostOnce
  BY SingleCounts
<1>4. QED
  BY <1>1, <1>2, <1>3, TypeCorrect, PTL DEF Spec

-----------------------------------------------------------------------------
(* The registry implements AgentLease.                                     *)

\* Identities become free and none is taken.
Shrinks ==
  \A a \in Agents : entries'[a].online =>
    entries[a].online /\ entries'[a].session = entries[a].session

\* Such a step is a Free step of the lease.
LEMMA ShrinkFrees == ASSUME Shrinks PROVE Lease!LeaseNext
<1> DEFINE freed == {a \in Agents : ~entries'[a].online}
<1>1. Holder' = [a \in Agents |-> IF a \in freed THEN NoStream ELSE Holder[a]]
  BY DEF Shrinks, Holder
<1>2. Lease!Free(freed)
  BY <1>1 DEF Lease!Free
<1>3. freed \in SUBSET Agents
  OBVIOUS
<1> HIDE DEF freed
<1>4. QED
  BY <1>2, <1>3 DEF Lease!LeaseNext

\* A new session is granted an identity nobody holds, to a stream that holds none.
LEMMA AcquireGrants ==
  ASSUME NEW s \in Streams, TypeOK, Core, Acquire(s) PROVE Lease!LeaseNext
<1>1. /\ ~entries[AgentOf[s]].online /\ ~Holding(s)
      /\ entries'[AgentOf[s]].online /\ entries'[AgentOf[s]].session = s
      /\ \A a \in Agents \ {AgentOf[s]} : entries'[a] = entries[a]
  BY DEF Acquire, Holding, TypeOK, RegistryOK
<1>2. Holder[AgentOf[s]] = NoStream
  BY <1>1 DEF Holder
<1>3. \A b \in Agents : Holder[b] # s
  BY <1>1 DEF Holder, Core, OnlineHasHolder
<1>4. Holder' = [Holder EXCEPT ![AgentOf[s]] = s]
  BY <1>1 DEF Holder
<1>5. Lease!Grant(AgentOf[s], s)
  BY <1>2, <1>3, <1>4 DEF Lease!Grant
<1>6. QED
  BY <1>5 DEF Lease!LeaseNext

\* Every other step of a stream takes no identity.
LEMMA StreamShrinks ==
  ASSUME NEW s \in Streams, TypeOK, StreamStep(s), ~Acquire(s) PROVE Shrinks
<1>1. CASE UNCHANGED entries
  BY <1>1 DEF Shrinks
<1>2. CASE Heartbeat(s)
  BY <1>2, QuietHeartbeat DEF Quiet, Shrinks
<1>3. CASE Release(s)
  BY <1>3 DEF Release, Shrinks, TypeOK, RegistryOK, Entry
<1>4. CASE Die("close of closed channel")
  BY <1>4 DEF Die, NoEntry, Shrinks
<1>5. QED
  BY <1>1, <1>2, <1>3, <1>4
     DEF StreamStep, HandlerStep, SenderStep, Authorize, RejectHello, RejectDuplicate,
         PersistOnline, PersistOnlineFails, SendAccepted, Offline, CloseQueue, SendMessage,
         SendMessageFails, SenderExits, ReceiverExits, PeerGone

\* So do the revocation, the sweep, the calls and the end of the process.
LEMMA OtherShrinks ==
  ASSUME TypeOK, Next, ~\E s \in Streams : StreamStep(s) PROVE Shrinks
<1>1. CASE UNCHANGED entries
  BY <1>1 DEF Shrinks
<1>2. CASE \E x \in Deaths : Die(x)
  BY <1>2 DEF Die, NoEntry, Shrinks
<1>3. CASE Expire
  BY <1>3 DEF Expire, Shrinks, TypeOK, RegistryOK, Entry
<1>4. ASSUME NEW a \in Agents, Silence(a) PROVE Shrinks
  BY <1>4, QuietSilence DEF Quiet, Shrinks
<1>5. ASSUME NEW a \in Agents, Disconnect(a), ~UNCHANGED entries,
             ~\E x \in Deaths : Die(x)
      PROVE  Shrinks
  <2> DEFINE e == [entries[a] EXCEPT !.online = FALSE, !.session = NoStream]
  <2>1. entries' = [entries EXCEPT ![a] = e]
    BY <1>5 DEF Disconnect, Deaths
  <2>2. ~e.online
    BY DEF TypeOK, RegistryOK, Entry
  <2> HIDE DEF e
  <2>3. QED
    BY <2>1, <2>2 DEF Shrinks, TypeOK, RegistryOK
<1>6. QED
  BY <1>1, <1>2, <1>3, <1>4, <1>5
     DEF Next, CallStep, Dispatch, Enqueue, EnqueueClosed, EnqueueCancelled, RevokeAgent,
         Crash, Restart, Deaths

\* The registry, with its goroutines, generations, crashes and revocations, never gives
\* an agent identity to a stream while another one holds it.
THEOREM ImplementsLease == Spec => LeaseSpec
<1>1. Init => Lease!LeaseInit
  BY DEF Init, NoEntry, Lease!LeaseInit, Holder
<1>2. TypeOK /\ Core /\ [Next]_vars => [Lease!LeaseNext]_Holder
  <2> SUFFICES ASSUME TypeOK, Core, [Next]_vars PROVE [Lease!LeaseNext]_Holder
    OBVIOUS
  <2>1. CASE UNCHANGED vars
    BY <2>1 DEF vars, Holder
  <2>2. ASSUME NEW s \in Streams, StreamStep(s) PROVE Lease!LeaseNext
    BY <2>2, AcquireGrants, StreamShrinks, ShrinkFrees
  <2>3. CASE Next /\ ~\E s \in Streams : StreamStep(s)
    BY <2>3, OtherShrinks, ShrinkFrees
  <2>4. QED
    BY <2>1, <2>2, <2>3
<1>3. QED
  BY <1>1, <1>2, Invariance, PTL DEF Spec, IInv, LeaseSpec, Lease!LeaseSpec
=============================================================================
