-------------------------- MODULE MetricsPipeline --------------------------
(***************************************************************************)
(* Readings on their way from an agent to the validator's tables: the      *)
(* publisher that runs beside RunConnection (agent/metrics.go, runtime/    *)
(* agent.go), the stream, the validator's receive loop (registry/service,  *)
(* messages) and Repository.Store (metrics/store.go).                      *)
(*                                                                         *)
(* One agent.  A reading is its number and the time it was taken by the    *)
(* agent's clock, which may be set back; a minute is a number of ticks.    *)
(* Streams are what AgentRegistry promises: one is served at a time.       *)
(***************************************************************************)
EXTENDS Naturals, Sequences, SequencesExt

CONSTANTS
  Connections,  \* Connect streams of the agent, each used once
  MaxReadings,  \* bound on readings
  LastTick,     \* bound on the agent's clock
  Minute        \* ticks in a minute

ASSUME MetricsAssumption ==
  MaxReadings \in Nat /\ LastTick \in Nat /\ Minute \in Nat \ {0}

VARIABLES
  clock,      \* of the agent's machine
  taken,      \* readings so far
  phase,      \* each stream at the validator: "new", "open", "served", "ended"
  greeted,    \* streams on which RunConnection has sent the hello
  publisher,  \* of each stream: "off", "collecting", "waiting", "ended"
  link,       \* messages from the agent
  storing,    \* the reading a stream's receive loop is storing
  current,    \* metrics_current
  minute,     \* metrics_minute: the values a metric without labels has in each bucket
  stored      \* history: the readings stored, in order

metricsVars == <<clock, taken, phase, greeted, publisher, link, storing, current, minute, stored>>

-----------------------------------------------------------------------------
Hello == [n |-> 0, at |-> 0]
NoReading == [n |-> 0, at |-> 0]
Buckets == 0..(LastTick \div Minute)
BucketOf(reading) == reading.at \div Minute
Streaming(s) == phase[s] \in {"open", "served"}

MetricsInit ==
  /\ clock = 0 /\ taken = 0
  /\ phase = [s \in Connections |-> "new"]
  /\ greeted = {}
  /\ publisher = [s \in Connections |-> "off"]
  /\ link = [s \in Connections |-> <<>>]
  /\ storing = [s \in Connections |-> NoReading]
  /\ current = NoReading
  /\ minute = [b \in Buckets |-> <<>>]
  /\ stored = <<>>

-----------------------------------------------------------------------------
(* The agent.                                                              *)

\* Time passes, or the clock is set back.
ClockMoves ==
  /\ clock' \in 0..LastTick /\ clock' # clock
  /\ UNCHANGED <<taken, phase, greeted, publisher, link, storing, current, minute, stored>>

\* RunAgent opens a stream and starts the publisher in a goroutine of its own.
Connects(s) ==
  /\ phase[s] = "new" /\ \A t \in Connections : ~Streaming(t)
  /\ phase' = [phase EXCEPT ![s] = "open"]
  /\ publisher' = [publisher EXCEPT ![s] = "collecting"]
  /\ UNCHANGED <<clock, taken, greeted, link, storing, current, minute, stored>>

SendTo(s, message) ==
  link' = IF Streaming(s) THEN [link EXCEPT ![s] = Append(@, message)] ELSE link

\* RunConnection sends the hello, whether or not the publisher was faster.
Greets(s) ==
  /\ phase[s] # "new" /\ s \notin greeted
  /\ greeted' = greeted \cup {s}
  /\ SendTo(s, Hello)
  /\ UNCHANGED <<clock, taken, phase, publisher, storing, current, minute, stored>>

\* Collect reads the machine; the publisher sends, on a stream that is gone in vain.
Publishes(s) ==
  /\ publisher[s] = "collecting" /\ taken < MaxReadings
  /\ taken' = taken + 1
  /\ SendTo(s, [n |-> taken + 1, at |-> clock])
  /\ publisher' = [publisher EXCEPT ![s] = IF Streaming(s) THEN "waiting" ELSE "ended"]
  /\ UNCHANGED <<clock, phase, greeted, storing, current, minute, stored>>

\* The first error ends the publisher until the agent connects again.
CollectFails(s) ==
  /\ publisher[s] = "collecting"
  /\ publisher' = [publisher EXCEPT ![s] = "ended"]
  /\ UNCHANGED <<clock, taken, phase, greeted, link, storing, current, minute, stored>>

\* The ticker; or the connection's context has been cancelled.
PublisherWakes(s) ==
  /\ publisher[s] = "waiting"
  /\ \E next \in {"collecting"} \cup (IF Streaming(s) THEN {} ELSE {"ended"}) :
       publisher' = [publisher EXCEPT ![s] = next]
  /\ UNCHANGED <<clock, taken, phase, greeted, link, storing, current, minute, stored>>

-----------------------------------------------------------------------------
(* The validator.                                                          *)

EndStream(s) ==
  /\ phase' = [phase EXCEPT ![s] = "ended"]
  /\ link' = [link EXCEPT ![s] = <<>>]

\* Connect takes the first message for the hello; a reading in its place ends the stream.
ReceivesFirst(s) ==
  /\ phase[s] = "open" /\ link[s] # <<>>
  /\ IF Head(link[s]) = Hello
     THEN /\ phase' = [phase EXCEPT ![s] = "served"]
          /\ link' = [link EXCEPT ![s] = Tail(@)]
     ELSE EndStream(s)
  /\ UNCHANGED <<clock, taken, greeted, publisher, storing, current, minute, stored>>

\* MessageHandler.Handle of a reading: Bound, then Store.
Handles(s) ==
  /\ phase[s] = "served" /\ storing[s] = NoReading /\ link[s] # <<>>
  /\ storing' = [storing EXCEPT ![s] = Head(link[s])]
  /\ link' = [link EXCEPT ![s] = Tail(@)]
  /\ UNCHANGED <<clock, taken, phase, greeted, publisher, current, minute, stored>>

\* Variant: without its WHERE clause the upsert lets the last writer win.
NewerAlways(reading) == reading

\* INSERT ... ON CONFLICT DO UPDATE ... WHERE excluded.sampled_unix_ms >= the row's.
Newer(reading) ==
  IF current = NoReading \/ reading.at >= current.at THEN reading ELSE current

\* merge keys a value by its name and its labels as JSON, and makes one mean of the values
\* under a key.  Without labels the key ends in "{}" in a new reading, which comes from Bound,
\* and in "null" in one read from the table, so that the two never meet: each value stays an
\* entry of its own, whose name is one "null" longer with every merge.  (The values with
\* labels, of interfaces, do meet; their one entry is left out.)
Merge(entries, reading) == <<reading.n>> \o entries

\* One transaction.  The stream may have ended while it ran.
Stores(s) ==
  LET reading == storing[s] IN
  /\ reading # NoReading
  /\ current' = Newer(reading)
  /\ minute' = [minute EXCEPT ![BucketOf(reading)] = Merge(@, reading)]
  /\ stored' = Append(stored, reading)
  /\ storing' = [storing EXCEPT ![s] = NoReading]
  /\ UNCHANGED <<clock, taken, phase, greeted, publisher, link>>

\* The error ends the stream.
StoreFails(s) ==
  /\ storing[s] # NoReading
  /\ storing' = [storing EXCEPT ![s] = NoReading]
  /\ EndStream(s)
  /\ UNCHANGED <<clock, taken, greeted, publisher, current, minute, stored>>

Breaks(s) ==
  /\ Streaming(s)
  /\ EndStream(s)
  /\ UNCHANGED <<clock, taken, greeted, publisher, storing, current, minute, stored>>

-----------------------------------------------------------------------------
MetricsNext ==
  \/ ClockMoves
  \/ \E s \in Connections :
       \/ Connects(s) \/ Greets(s) \/ Publishes(s) \/ CollectFails(s) \/ PublisherWakes(s)
       \/ ReceivesFirst(s) \/ Handles(s) \/ Stores(s) \/ StoreFails(s) \/ Breaks(s)

MetricsSpec == MetricsInit /\ [][MetricsNext]_metricsVars
-----------------------------------------------------------------------------
(* Properties.                                                             *)

\* What GetMetrics shows is a reading that was stored, and none that was stored is later by
\* the agent's clock: not the last to arrive when streams overlap, nor when the clock was set
\* back, until it has caught up.
CurrentIsLatest ==
  stored # <<>> =>
    /\ \E i \in DOMAIN stored : stored[i] = current
    /\ \A i \in DOMAIN stored : stored[i].at <= current.at

\* Whatever becomes of the aggregation (MinuteIsAggregated), no reading is lost to its minute,
\* filed under another or merged twice: a bucket has the readings of its minute that were
\* stored and no other, the last to be stored first and each once, whichever streams brought them.
StoredIn(b) == {stored[k].n : k \in {l \in DOMAIN stored : BucketOf(stored[l]) = b}}

MinuteIsItsReadings ==
  \A b \in Buckets :
    /\ ToSet(minute[b]) = StoredIn(b)
    /\ \A i, j \in DOMAIN minute[b], k, l \in DOMAIN stored :
         i < j /\ stored[k].n = minute[b][i] /\ stored[l].n = minute[b][j] => k > l

\* The two tables tell what was stored and nothing else.
TablesOfStored == CurrentIsLatest /\ MinuteIsItsReadings

\* "Metrics sampled every 15 seconds, aggregated per minute" (docs/plans, MVP): of the readings
\* of a minute one value is kept of each metric.
MinuteIsAggregated == \A b \in Buckets : Len(minute[b]) <= 1
=============================================================================
