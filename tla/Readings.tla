------------------------------ MODULE Readings ------------------------------
(***************************************************************************)
(* The arithmetic of a reading (internal/metrics metrics.go, filesystem.go,*)
(* collector.go): counters of the kernel are 64 bits wide in the code and  *)
(* at most MaxCounter here, sums and products wrap, and what cannot be     *)
(* represented must be refused, not wrapped.                               *)
(***************************************************************************)
EXTENDS Integers, Sequences, FiniteSetsExt

CONSTANTS
  MaxCounter, \* ^uint64(0): 2^64 - 1 in the code, 2^w - 1 for counters of w bits
  Unit,       \* bytes in a kibibyte
  MaxFields,  \* bound on the fields of the cpu line
  MaxRows,    \* bound on the rows of a table, the values pushed and the labels of a metric
  Limit       \* Collector.MaxInterfaces

ASSUME ReadingsAssumption ==
  MaxCounter \in Nat /\ Unit \in Nat \ {0} /\ MaxFields \in Nat /\ MaxRows \in Nat
  /\ Limit \in Nat \ {0}

VARIABLES
  input,    \* what was read
  reading   \* what was made of it

readingVars == <<input, reading>>

Counter == 0..MaxCounter
Wrap(n) == n % (MaxCounter + 1)
Refused == [refused |-> TRUE]
Panics == [panics |-> TRUE]
Overflow == -1

\* What a loop over rows has made of the first n of them, for each n.
After(turn(_, _), start, rows) ==
  LET after[n \in 0..Len(rows)] == IF n = 0 THEN start ELSE turn(after[n - 1], rows[n]) IN after
-----------------------------------------------------------------------------
\* Variant: the counters are added up without a look at the room left.
AddWrapping(total, v) == Wrap(total + v)

\* One turn of ParseCPU's loop: ^uint64(0)-total < v is an overflow.
AddCounter(total, v) ==
  IF total = Overflow \/ MaxCounter - total < v THEN Overflow ELSE Wrap(total + v)

\* The name "cpu" and four counters are enough for it, but it reads the fifth.
ParseCPU(values) ==
  LET total == After(AddCounter, 0, values)[Len(values)] IN
  IF Len(values) < 4 \/ total = Overflow THEN Refused
  ELSE IF Len(values) = 4 THEN Panics
  ELSE [total |-> total, idle |-> Wrap(values[4] + values[5])]

\* MemTotal and MemAvailable, 0 when there is no such line.
ParseMeminfo(total, available) ==
  IF total > MaxCounter \div Unit \/ available > MaxCounter \div Unit THEN Refused
  ELSE IF total = 0 \/ Wrap(available * Unit) > Wrap(total * Unit) THEN Refused
  ELSE [total |-> Wrap(total * Unit), used |-> Wrap(total * Unit) - Wrap(available * Unit)]

UsageFromBlocks(blocks, available, size) ==
  IF available > blocks \/ (size # 0 /\ blocks > MaxCounter \div size) THEN Refused
  ELSE [total |-> Wrap(blocks * size), used |-> Wrap(Wrap(blocks * size) - Wrap(available * size))]

\* A counter that went back, after a reboot, gives no rate.
Rate(previous, now, elapsed) ==
  IF now < previous \/ elapsed <= 0 THEN Refused ELSE [gained |-> now - previous, over |-> elapsed]

\* One turn of the loops of ParseNetwork and ParseMounts, which break at the limit.
Keep(out, row) ==
  IF Len(out) < Limit /\ row \in {"eth", "disk"} THEN Append(out, row) ELSE out

\* The first Limit interfaces but "lo"; a row that is cut short refuses them all when it
\* comes before the limit is reached.
ParseNetwork(rows) ==
  LET out == After(Keep, <<>>, rows) IN
  IF \E k \in 1..Len(rows) : rows[k] = "short" /\ Len(out[k - 1]) < Limit THEN Refused
  ELSE [rows |-> out[Len(rows)]]

\* The first Limit mounts of a type that is worth reporting; other rows are passed over.
ParseMounts(rows) == [rows |-> After(Keep, <<>>, rows)[Len(rows)]]

\* Buffer.Push: when there are Limit items the oldest makes room.
Push(items, value) == Append(IF Len(items) = Limit THEN Tail(items) ELSE items, value)

\* Buffer.Drain, when these values have been pushed.
Drain(values) == After(Push, <<>>, values)[Len(values)]

\* Of a snapshot, given by how many labels each metric has, the validator keeps the first
\* Limit metrics and of each any Limit labels.
Bound(metrics) ==
  [rows |-> [k \in 1..Min({Limit, Len(metrics)}) |-> Min({Limit, metrics[k]})]]
-----------------------------------------------------------------------------
CPULines == UNION {[1..n -> Counter] : n \in 3..MaxFields}
Tables(kinds) == UNION {[1..n -> kinds] : n \in 0..MaxRows}

ReadingInit == input = <<"none">> /\ reading = Refused

ReadsCPU ==
  \E values \in CPULines : input' = <<"cpu", values>> /\ reading' = ParseCPU(values)
ReadsMemory ==
  \E total, available \in Counter :
    input' = <<"memory", total, available>> /\ reading' = ParseMeminfo(total, available)
ReadsDisk ==
  \E blocks, available, size \in Counter :
    input' = <<"disk", blocks, available, size>> /\ reading' = UsageFromBlocks(blocks, available, size)
ReadsRate ==
  \E previous, now, elapsed \in Counter :
    input' = <<"rate", previous, now, elapsed>> /\ reading' = Rate(previous, now, elapsed)
ReadsNetwork ==
  \E rows \in Tables({"lo", "eth", "short"}) : input' = <<"network", rows>> /\ reading' = ParseNetwork(rows)
ReadsMounts ==
  \E rows \in Tables({"disk", "proc", "short"}) :
    input' = <<"mounts", rows>> /\ reading' = ParseMounts(rows)
Buffers ==
  \E values \in Tables(Counter) :
    input' = <<"pushes", values>> /\ reading' = [rows |-> Drain(values)]
BoundsSnapshot ==
  \E metrics \in Tables(0..MaxRows) :
    input' = <<"bound", metrics>> /\ reading' = Bound(metrics)

ReadingNext ==
  /\ input = <<"none">>
  /\ \/ ReadsCPU \/ ReadsMemory \/ ReadsDisk \/ ReadsRate \/ ReadsNetwork \/ ReadsMounts
     \/ Buffers \/ BoundsSnapshot
ReadingSpec == ReadingInit /\ [][ReadingNext]_readingVars
-----------------------------------------------------------------------------
Plus(a, b) == a + b
Sum(values) == After(Plus, 0, values)[Len(values)]

\* How many of the rows are of a kind.
Count(rows, kind) == Cardinality({k \in DOMAIN rows : rows[k] = kind})

\* Nothing wraps: an accepted reading is what the numbers amount to without a width, used is
\* at most total, a table or buffer keeps Limit entries at most and the right ones, and a
\* reading is refused only when a number does not fit.  The cpu line of
\* four counters, which no Linux since 2.6 writes, is the one that panics.
ReadingsAreExact ==
  LET kind == input[1] IN
  /\ kind = "cpu" =>
       IF reading = Panics THEN Len(input[2]) = 4
       ELSE IF reading = Refused THEN Len(input[2]) < 4 \/ Sum(input[2]) > MaxCounter
       ELSE reading = [total |-> Sum(input[2]), idle |-> input[2][4] + input[2][5]]
  /\ kind = "memory" =>
       IF reading = Refused THEN input[2] = 0 \/ input[3] > input[2] \/ input[2] * Unit > MaxCounter
       ELSE reading = [total |-> input[2] * Unit, used |-> (input[2] - input[3]) * Unit]
  /\ kind = "disk" =>
       IF reading = Refused THEN input[3] > input[2] \/ input[2] * input[4] > MaxCounter
       ELSE reading = [total |-> input[2] * input[4], used |-> (input[2] - input[3]) * input[4]]
  /\ kind = "rate" /\ reading # Refused => reading.gained >= 0 /\ reading.over > 0
  /\ kind = "network" /\ reading # Refused =>
       Len(reading.rows) = Min({Limit, Count(input[2], "eth")})
  /\ kind = "mounts" => Len(reading.rows) = Min({Limit, Count(input[2], "disk")})
  /\ kind = "pushes" =>
       LET missing == Len(input[2]) - Len(reading.rows) IN
       /\ Len(reading.rows) = Min({Limit, Len(input[2])})
       /\ \A k \in 1..Len(reading.rows) : reading.rows[k] = input[2][missing + k]
  /\ kind = "bound" => Len(reading.rows) <= Limit /\ \A k \in DOMAIN reading.rows :
                        reading.rows[k] <= Min({Limit, input[2][k]})
=============================================================================
