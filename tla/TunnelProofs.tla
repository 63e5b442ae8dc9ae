---------------------------- MODULE TunnelProofs ----------------------------
(***************************************************************************)
(* Theorems about tunnels: the bytes of one, for any number of chunks      *)
(* (TunnelData), and the calls that bring its two streams together, for    *)
(* any number of BridgeSsh calls (TunnelRelay).                            *)
(***************************************************************************)
EXTENDS TunnelRelay, TunnelData, FiniteSetTheorems, TLAPS

-----------------------------------------------------------------------------
(* TunnelData.                                                             *)

\* Values of what belongs to the tunnel.
TunnelTypes ==
  /\ copying \subseteq Sides /\ pumping \subseteq Sides /\ hungUp \subseteq Sides /\ cut \subseteq Sides
  /\ spliced \in BOOLEAN /\ torn \in BOOLEAN
  /\ read \in [Sides -> Nat]
  /\ toHub \in [Sides -> Seq(Nat)]
  /\ fromHub \in [Sides -> Seq(Nat)]
  /\ wrote \in [Sides -> Seq(Nat)]

\* Frames of bytes only.
NoClose(q) == \A k \in 1..Len(q) : q[k] # Close

\* As long as nothing breaks, only the end of a program ends a copy or a pump.
Ending ==
  /\ pumping = Sides => spliced
  /\ hungUp = {} /\ ~torn => copying = Sides
  /\ \A e \in Sides :
       /\ e \in hungUp => e \notin copying
       /\ e \notin hungUp => NoClose(toHub[e])
       /\ e \notin hungUp /\ ~torn => e \in pumping

\* The frames of q go on after the n-th of r chunks, and Close can only be the last of them.
Continues(q, n, r) ==
  \A k \in 1..Len(q) :
    \/ q[k] = n + k /\ n + k <= r
    \/ q[k] = Close /\ k = Len(q)

\* What the far end's program has, what is on its way from the validator and what is on its way
\* to the validator are the chunks read from the near end's, in their order.
Numbered(e) ==
  /\ Len(wrote[e]) <= read[e]
  /\ \A k \in 1..Len(wrote[e]) : wrote[e][k] = k
  /\ Other(e) \in copying =>
       /\ Continues(fromHub[e], Len(wrote[e]), read[e])
       /\ e \in pumping => NoClose(fromHub[e])
  /\ Other(e) \in copying /\ spliced /\ e \in pumping =>
       /\ Continues(toHub[e], Len(wrote[e]) + Len(fromHub[e]), read[e])
       /\ e \in copying => Len(wrote[e]) + Len(fromHub[e]) + Len(toHub[e]) = read[e]

\* Where the Close of an end that hung up alone is: on its way to the validator, with all that
\* is not forwarded before it; on its way to the other end, with all that is not written before
\* it; or arrived, and all is written, unless Send met the end of the stream.
CloseFollows(e) ==
  hungUp = {e} /\ ~torn =>
    /\ e \in pumping =>
         /\ Other(e) \in copying
         /\ toHub[e] # <<>> /\ toHub[e][Len(toHub[e])] = Close
         /\ Len(wrote[e]) + Len(fromHub[e]) + Len(toHub[e]) = read[e] + 1
    /\ e \notin pumping /\ Other(e) \in copying =>
         /\ fromHub[e] # <<>> /\ fromHub[e][Len(fromHub[e])] = Close
         /\ Len(wrote[e]) + Len(fromHub[e]) = read[e] + 1
    /\ Other(e) \notin copying \cup cut => Len(wrote[e]) = read[e]

\* The inductive invariant of the bytes.
TunnelInvariant ==
  /\ TunnelTypes
  /\ Ending
  /\ \A e \in Sides : Numbered(e) /\ CloseFollows(e)

\* The two ends.
LEMMA Ends2 ==
  ASSUME NEW e \in Sides
  PROVE  /\ Other(e) \in Sides /\ Other(e) # e /\ Other(Other(e)) = e
         /\ Sides = {e, Other(e)}
  BY DEF Sides, Other

\* A frame at the end of a queue.
LEMMA Appended ==
  ASSUME NEW q \in Seq(Nat), NEW x \in Nat
  PROVE  /\ Append(q, x) \in Seq(Nat) /\ Append(q, x) # <<>>
         /\ Len(Append(q, x)) = Len(q) + 1 /\ Append(q, x)[Len(Append(q, x))] = x
         /\ NoClose(q) /\ x # Close => NoClose(Append(q, x))
  BY DEF NoClose

\* A frame sent after the others continues them.
LEMMA ContinuesAppended ==
  ASSUME NEW q \in Seq(Nat), NEW n \in Nat, NEW r \in Nat, NEW s \in Nat, NEW x \in Nat,
         Continues(q, n, r), NoClose(q), r <= s,
         x = Close \/ (x = n + Len(q) + 1 /\ x <= s)
  PROVE  Continues(Append(q, x), n, s)
  BY DEF Continues, NoClose, Close

\* A close sent after the others continues them.
LEMMA ContinuesClosed ==
  ASSUME NEW q \in Seq(Nat), NEW n \in Nat, NEW r \in Nat, Continues(q, n, r), NoClose(q)
  PROVE  Continues(Append(q, Close), n, r)
  BY DEF Continues, NoClose, Close

\* A frame taken from the front.
LEMMA Taken ==
  ASSUME NEW q \in Seq(Nat), q # <<>>
  PROVE  /\ Head(q) \in Nat /\ Tail(q) \in Seq(Nat) /\ Len(Tail(q)) = Len(q) - 1
         /\ Len(q) \in Nat \ {0} /\ Head(q) = q[1]
         /\ NoClose(q) => NoClose(Tail(q)) /\ Head(q) # Close
         /\ Len(q) > 1 => Tail(q) # <<>> /\ Tail(q)[Len(Tail(q))] = q[Len(q)]
  <1>1. /\ q[1] = Head(q) /\ Len(Tail(q)) = Len(q) - 1 /\ Len(q) \in Nat /\ 1 \in 1..Len(q)
        /\ \A k \in 1..(Len(q) - 1) : Tail(q)[k] = q[k + 1] /\ k + 1 \in 1..Len(q)
    OBVIOUS
  <1>2. Head(q) \in Nat /\ Tail(q) \in Seq(Nat) /\ Len(q) \in Nat \ {0}
    OBVIOUS
  <1>3. NoClose(q) => NoClose(Tail(q)) /\ Head(q) # Close
    BY <1>1 DEF NoClose
  <1>4. ASSUME Len(q) > 1 PROVE Tail(q) # <<>> /\ Tail(q)[Len(Tail(q))] = q[Len(q)]
    <2>1. Tail(q) # <<>>
      <3>1. Len(Tail(q)) # 0 /\ Len(<<>>) = 0
        BY <1>1, <1>4
      <3> QED
        BY <3>1
    <2>2. Len(q) - 1 \in 1..(Len(q) - 1) /\ (Len(q) - 1) + 1 = Len(q)
      BY <1>1, <1>4
    <2> QED
      BY <1>1, <2>1, <2>2
  <1> QED
    BY <1>1, <1>2, <1>3, <1>4

\* What is taken from the front is the next frame or the close.
LEMMA ContinuesTaken ==
  ASSUME NEW q \in Seq(Nat), q # <<>>, NEW n \in Nat, NEW r \in Nat, Continues(q, n, r)
  PROVE  /\ Head(q) = Close => Len(q) = 1
         /\ Head(q) # Close => Head(q) = n + 1 /\ n + 1 <= r /\ Continues(Tail(q), n + 1, r)
  <1>1. /\ q[1] = Head(q) /\ Len(Tail(q)) = Len(q) - 1 /\ Len(q) \in Nat /\ 1 \in 1..Len(q)
        /\ \A k \in 1..(Len(q) - 1) : Tail(q)[k] = q[k + 1] /\ k + 1 \in 1..Len(q)
    OBVIOUS
  <1>2. (Head(q) = n + 1 /\ n + 1 <= r) \/ (Head(q) = Close /\ Len(q) = 1)
    BY <1>1 DEF Continues
  <1>3. Head(q) = Close => Len(q) = 1
    BY <1>2 DEF Close
  <1>4. ASSUME NEW k \in 1..(Len(q) - 1)
        PROVE  \/ Tail(q)[k] = (n + 1) + k /\ (n + 1) + k <= r
               \/ Tail(q)[k] = Close /\ k = Len(q) - 1
    <2>1. \/ q[k + 1] = n + (k + 1) /\ n + (k + 1) <= r
          \/ q[k + 1] = Close /\ k + 1 = Len(q)
      BY <1>1 DEF Continues
    <2>2. Tail(q)[k] = q[k + 1] /\ k \in Nat /\ n + (k + 1) = (n + 1) + k
      BY <1>1
    <2>3. k + 1 = Len(q) => k = Len(q) - 1
      <3>1. PICK l \in Nat : l = Len(q)
        BY <1>1
      <3> QED
        BY <2>2, <3>1
    <2> QED
      BY <2>1, <2>2, <2>3
  <1>5. Continues(Tail(q), n + 1, r)
    BY <1>1, <1>4 DEF Continues
  <1> QED
    BY <1>2, <1>3, <1>5

\* A queue that is cut off.
LEMMA Cut ==
  ASSUME NEW q \in Seq(Nat), NEW j \in 0..Len(q)
  PROVE  /\ SubSeq(q, 1, j) \in Seq(Nat)
         /\ NoClose(q) => NoClose(SubSeq(q, 1, j))
         /\ \A n, r \in Nat : Continues(q, n, r) => Continues(SubSeq(q, 1, j), n, r)
  <1>1. /\ Len(SubSeq(q, 1, j)) = j /\ Len(q) \in Nat
        /\ \A k \in 1..j : SubSeq(q, 1, j)[k] = q[k] /\ k \in 1..Len(q)
    OBVIOUS
  <1>2. SubSeq(q, 1, j) \in Seq(Nat)
    OBVIOUS
  <1>3. NoClose(q) => NoClose(SubSeq(q, 1, j))
    BY <1>1 DEF NoClose
  <1>4. ASSUME NEW n \in Nat, NEW r \in Nat, Continues(q, n, r) PROVE Continues(SubSeq(q, 1, j), n, r)
    <2>1. ASSUME NEW k \in 1..j, k = Len(q) PROVE k = j
      BY <1>1, <2>1
    <2> QED
      BY <1>1, <1>4, <2>1 DEF Continues
  <1> QED
    BY <1>2, <1>3, <1>4

\* More having been written breaks nothing.
LEMMA ContinuesLonger ==
  ASSUME NEW q \in Seq(Nat), NEW n \in Nat, NEW r \in Nat, NEW s \in Nat, Continues(q, n, r), r <= s
  PROVE  Continues(q, n, s)
  BY DEF Continues

\* An empty direction continues anything.
LEMMA Emptied == NoClose(<<>>) /\ \A n, r \in Nat : Continues(<<>>, n, r)
  BY DEF NoClose, Continues

\* The lengths of what a direction holds.
LEMMA Counts ==
  ASSUME TunnelTypes, NEW e \in Sides
  PROVE  \E w, f, t, r \in Nat :
           /\ w = Len(wrote[e]) /\ f = Len(fromHub[e]) /\ t = Len(toHub[e]) /\ r = read[e]
           /\ w + f \in Nat
  <1>1. /\ Len(wrote[e]) \in Nat /\ Len(fromHub[e]) \in Nat /\ Len(toHub[e]) \in Nat
        /\ read[e] \in Nat
    BY DEF TunnelTypes
  <1>2. \A w, f \in Nat : w + f \in Nat
    OBVIOUS
  <1> QED
    BY <1>1, <1>2

\* It holds of a tunnel on which nothing was written.
LEMMA TunnelStarts == TunnelInit => TunnelInvariant
  <1> SUFFICES ASSUME TunnelInit PROVE TunnelInvariant
    OBVIOUS
  <1>1. TunnelTypes
    <2>1. /\ copying \subseteq Sides /\ pumping \subseteq Sides /\ hungUp \subseteq Sides /\ cut \subseteq Sides
            /\ spliced \in BOOLEAN /\ torn \in BOOLEAN
      BY DEF TunnelInit
    <2>2. /\ read \in [Sides -> Nat] /\ toHub \in [Sides -> Seq(Nat)] /\ fromHub \in [Sides -> Seq(Nat)]
          /\ wrote \in [Sides -> Seq(Nat)]
      BY DEF TunnelInit
    <2> QED
      BY <2>1, <2>2 DEF TunnelTypes
  <1>2. Ending
    BY Emptied DEF TunnelInit, Ending
  <1>3. ASSUME NEW e \in Sides PROVE Numbered(e) /\ CloseFollows(e)
    <2>1. toHub[e] = <<>> /\ fromHub[e] = <<>> /\ wrote[e] = <<>> /\ read[e] = 0 /\ hungUp = {}
      BY DEF TunnelInit
    <2>2. Len(<<>>) = 0 /\ NoClose(<<>>) /\ Continues(<<>>, 0, 0)
      BY Emptied
    <2>3. Continues(toHub[e], Len(wrote[e]) + Len(fromHub[e]), read[e])
      BY <2>1, <2>2
    <2>4. Numbered(e)
      BY <2>1, <2>2, <2>3 DEF Numbered
    <2>5. CloseFollows(e)
      BY <2>1 DEF CloseFollows
    <2> QED
      BY <2>4, <2>5
  <1> QED
    BY <1>1, <1>2, <1>3 DEF TunnelInvariant

\* A chunk is read from a program and sent.
LEMMA ReadsStays ==
  ASSUME TunnelInvariant, NEW a \in Sides, ReadsProgram(a)
  PROVE  TunnelInvariant'
  <1>1. TunnelTypes /\ Ending /\ \A e \in Sides : Numbered(e) /\ CloseFollows(e)
    BY DEF TunnelInvariant
  <1>2. /\ a \in copying /\ a \notin hungUp
        /\ UNCHANGED <<copying, pumping, spliced, fromHub, wrote, hungUp, cut, torn>>
        /\ read'[a] = read[a] + 1 /\ read[a] \in Nat /\ toHub[a] \in Seq(Nat)
        /\ \A e \in Sides : e # a => read'[e] = read[e] /\ toHub'[e] = toHub[e]
        /\ spliced => toHub'[a] = Append(toHub[a], read[a] + 1)
        /\ ~spliced => toHub'[a] = toHub[a]
    BY <1>1 DEF ReadsProgram, Sent, TunnelTypes
  <1>3. TunnelTypes'
    BY <1>1, <1>2 DEF ReadsProgram, Sent, TunnelTypes
  <1>4. Ending'
    <2>1. read[a] + 1 \in Nat /\ read[a] + 1 # Close /\ NoClose(toHub[a])
      BY <1>1, <1>2 DEF Ending, Close
    <2>2. NoClose(toHub'[a])
      BY <1>2, <2>1, Appended
    <2> QED
      BY <1>1, <1>2, <2>2 DEF Ending
  <1>5. ASSUME NEW e \in Sides PROVE Numbered(e)' /\ CloseFollows(e)'
    <2>1. CASE e # a
      BY <1>1, <1>2, <2>1 DEF Numbered, CloseFollows
    <2>2. CASE e = a
      <3>1. CloseFollows(a)'
        BY <1>2 DEF CloseFollows
      <3>2. /\ fromHub[a] \in Seq(Nat) /\ wrote[a] \in Seq(Nat) /\ Len(wrote[a]) \in Nat /\ Len(fromHub[a]) \in Nat
            /\ Len(toHub[a]) \in Nat /\ NoClose(toHub[a])
        BY <1>1, <1>2 DEF TunnelTypes, Ending
      <3>3. Other(a) \in copying => Continues(fromHub[a], Len(wrote[a]), read[a] + 1)
        <4>1. Other(a) \in copying => Continues(fromHub[a], Len(wrote[a]), read[a])
          BY <1>1 DEF Numbered
        <4>2. read[a] + 1 \in Nat /\ read[a] <= read[a] + 1
          BY <1>2
        <4> QED
          BY <1>2, <3>2, <4>1, <4>2, ContinuesLonger
      <3>4. Len(wrote[a]) <= read[a] + 1
        <4>1. Len(wrote[a]) <= read[a]
          BY <1>1 DEF Numbered
        <4> QED
          BY <1>2, <3>2, <4>1
      <3>5. ASSUME Other(a) \in copying, spliced, a \in pumping
            PROVE  /\ Continues(toHub'[a], Len(wrote[a]) + Len(fromHub[a]), read[a] + 1)
                   /\ Len(wrote[a]) + Len(fromHub[a]) + Len(toHub'[a]) = read[a] + 1
        <4>1. /\ Continues(toHub[a], Len(wrote[a]) + Len(fromHub[a]), read[a])
              /\ Len(wrote[a]) + Len(fromHub[a]) + Len(toHub[a]) = read[a]
          BY <1>1, <1>2, <3>5 DEF Numbered
        <4>2. \A i, j \in Nat : i + j \in Nat
          OBVIOUS
        <4>3. PICK n \in Nat, l \in Nat, r \in Nat :
                n = Len(wrote[a]) + Len(fromHub[a]) /\ l = Len(toHub[a]) /\ r = read[a]
          BY <1>2, <3>2, <4>2
        <4>4. n + l = r
          BY <4>1, <4>3
        <4>5. r + 1 \in Nat /\ r <= r + 1 /\ r + 1 <= r + 1 /\ r + 1 = n + l + 1 /\ n + (l + 1) = r + 1
          BY <4>4
        <4>6. Continues(Append(toHub[a], r + 1), n, r + 1)
          BY <1>2, <3>2, <4>1, <4>3, <4>5, ContinuesAppended
        <4>7. Len(toHub'[a]) = l + 1
          BY <1>2, <3>5, <4>3, <4>5, Appended
        <4> QED
          BY <1>2, <3>5, <4>3, <4>5, <4>6, <4>7
      <3>6. Numbered(a)'
        <4>1. /\ \A k \in 1..Len(wrote[a]) : wrote[a][k] = k
              /\ Other(a) \in copying /\ a \in pumping => NoClose(fromHub[a])
          BY <1>1 DEF Numbered
        <4> QED
          BY <1>2, <3>3, <3>4, <3>5, <4>1 DEF Numbered
      <3> QED
        BY <2>2, <3>1, <3>6
    <2> QED
      BY <2>1, <2>2
  <1> QED
    BY <1>3, <1>4, <1>5 DEF TunnelInvariant

\* A chunk is read from a program, and Send meets the end of the stream.
LEMMA SendEndsStays ==
  ASSUME TunnelInvariant, NEW a \in Sides, SendEnds(a)
  PROVE  TunnelInvariant'
  <1>1. TunnelTypes /\ Ending /\ \A e \in Sides : Numbered(e) /\ CloseFollows(e)
    BY DEF TunnelInvariant
  <1>2. /\ a \in copying /\ a \notin hungUp /\ ~spliced
        /\ copying' = copying \ {a} /\ cut' = cut \cup {a}
        /\ UNCHANGED <<toHub, pumping, spliced, fromHub, wrote, hungUp, torn>>
        /\ read'[a] = read[a] + 1 /\ read[a] \in Nat
        /\ \A e \in Sides : e # a => read'[e] = read[e]
    BY <1>1 DEF SendEnds, Returns, TunnelTypes
  <1>3. Other(a) # a /\ Other(a) \in Sides /\ Other(Other(a)) = a /\ Sides = {a, Other(a)}
    BY Ends2
  <1>4. ASSUME ~torn PROVE Other(a) \in hungUp /\ Other(a) \notin pumping
    <2>1. a \in pumping
      BY <1>1, <1>2, <1>4 DEF Ending
    <2>2. Other(a) \notin pumping
      BY <1>1, <1>2, <1>3, <2>1 DEF Ending, TunnelTypes
    <2> QED
      BY <1>1, <1>3, <1>4, <2>2 DEF Ending
  <1>5. TunnelTypes'
    BY <1>1, <1>2 DEF SendEnds, TunnelTypes
  <1>6. Ending'
    BY <1>1, <1>2, <1>4 DEF Ending
  <1>7. ASSUME NEW e \in Sides PROVE Numbered(e)' /\ CloseFollows(e)'
    <2>1. CASE e = a
      <3>1. /\ fromHub[a] \in Seq(Nat) /\ Len(wrote[a]) \in Nat
            /\ read[a] + 1 \in Nat /\ read[a] <= read[a] + 1
        BY <1>1, <1>2 DEF TunnelTypes
      <3>2. Other(a) \in copying => Continues(fromHub[a], Len(wrote[a]), read[a] + 1)
        <4>1. Other(a) \in copying => Continues(fromHub[a], Len(wrote[a]), read[a])
          BY <1>1 DEF Numbered
        <4> QED
          BY <1>2, <3>1, <4>1, ContinuesLonger
      <3>3. Len(wrote[a]) <= read[a] + 1
        <4>1. Len(wrote[a]) <= read[a]
          BY <1>1 DEF Numbered
        <4> QED
          BY <1>2, <3>1, <4>1
      <3>4. /\ \A k \in 1..Len(wrote[a]) : wrote[a][k] = k
            /\ Other(a) \in copying /\ a \in pumping => NoClose(fromHub[a])
        BY <1>1 DEF Numbered
      <3>5. Numbered(a)'
        BY <1>2, <1>3, <3>2, <3>3, <3>4 DEF Numbered
      <3>6. CloseFollows(a)'
        BY <1>2 DEF CloseFollows
      <3> QED
        BY <2>1, <3>5, <3>6
    <2>2. CASE e = Other(a)
      <3>1. Other(e) = a /\ e # a /\ a \notin copying' /\ a \in cut'
        BY <1>2, <1>3, <2>2
      <3>2. Numbered(e)'
        BY <1>1, <1>2, <3>1 DEF Numbered
      <3>3. CloseFollows(e)'
        BY <1>2, <1>4, <2>2, <3>1 DEF CloseFollows
      <3> QED
        BY <3>2, <3>3
    <2> QED
      BY <1>3, <2>1, <2>2
  <1> QED
    BY <1>5, <1>6, <1>7 DEF TunnelInvariant

\* A program closes and Close is sent.
LEMMA HangsUpStays ==
  ASSUME TunnelInvariant, NEW a \in Sides, HangsUp(a)
  PROVE  TunnelInvariant'
  <1>1. TunnelTypes /\ Ending /\ \A e \in Sides : Numbered(e) /\ CloseFollows(e)
    BY DEF TunnelInvariant
  <1>2. /\ a \in copying /\ a \notin hungUp /\ hungUp' = hungUp \cup {a} /\ copying' = copying \ {a}
        /\ UNCHANGED <<read, pumping, spliced, fromHub, wrote, cut, torn>>
        /\ toHub[a] \in Seq(Nat)
        /\ \A e \in Sides : e # a => toHub'[e] = toHub[e]
        /\ spliced => toHub'[a] = Append(toHub[a], Close)
        /\ ~spliced => toHub'[a] = toHub[a]
    BY <1>1 DEF HangsUp, Sent, Returns, TunnelTypes, Ending
  <1>3. TunnelTypes'
    BY <1>1, <1>2 DEF HangsUp, Sent, TunnelTypes, Close
  <1>4. Ending'
    BY <1>1, <1>2 DEF Ending
  <1>5. ASSUME NEW e \in Sides PROVE Numbered(e)' /\ CloseFollows(e)'
    <2>1. CASE e # a
      <3>1. Other(e) = a
        BY <2>1, Ends2
      <3> QED
        BY <1>1, <1>2, <2>1, <3>1 DEF Numbered, CloseFollows
    <2>2. CASE e = a
      <3>1. Other(a) # a /\ Other(a) \in Sides /\ Sides = {a, Other(a)}
        BY Ends2
      <3>2. /\ fromHub[a] \in Seq(Nat) /\ wrote[a] \in Seq(Nat) /\ Len(wrote[a]) \in Nat /\ Len(fromHub[a]) \in Nat
            /\ Len(toHub[a]) \in Nat /\ NoClose(toHub[a]) /\ read[a] \in Nat /\ Close \in Nat
        BY <1>1, <1>2 DEF TunnelTypes, Ending, Close
      <3>3. PICK w \in Nat, f \in Nat, l \in Nat, r \in Nat :
              /\ w = Len(wrote[a]) /\ f = Len(fromHub[a]) /\ l = Len(toHub[a]) /\ r = read[a]
              /\ w + f \in Nat
        BY <1>1, Counts
      <3>4. Numbered(a)'
        <4>1. ASSUME Other(a) \in copying, spliced, a \in pumping
              PROVE  Continues(toHub'[a], Len(wrote[a]) + Len(fromHub[a]), read[a])
          <5>1. Continues(toHub[a], w + f, r)
            BY <1>1, <3>3, <4>1 DEF Numbered
          <5>2. Continues(Append(toHub[a], Close), w + f, r)
            BY <1>2, <3>2, <3>3, <5>1, ContinuesClosed
          <5> QED
            BY <1>2, <3>3, <4>1, <5>2
        <4>2. /\ Len(wrote[a]) <= read[a] /\ \A k \in 1..Len(wrote[a]) : wrote[a][k] = k
              /\ Other(a) \in copying =>
                   /\ Continues(fromHub[a], Len(wrote[a]), read[a])
                   /\ a \in pumping => NoClose(fromHub[a])
          BY <1>1 DEF Numbered
        <4> QED
          BY <1>2, <3>1, <4>1, <4>2 DEF Numbered
      <3>5. CloseFollows(a)'
        <4> SUFFICES ASSUME hungUp = {}, ~torn PROVE CloseFollows(a)'
          BY <1>2 DEF CloseFollows
        <4>1. a \in pumping /\ Other(a) \in pumping /\ copying = Sides
          BY <1>1, <3>1 DEF Ending
        <4>2. pumping = Sides /\ spliced /\ Other(a) \in copying
          BY <1>1, <3>1, <4>1 DEF Ending, TunnelTypes
        <4>3. w + f + l = r
          BY <1>1, <1>2, <3>3, <4>1, <4>2 DEF Numbered
        <4>4. w + f + (l + 1) = r + 1
          BY <4>3
        <4>5. /\ toHub'[a] # <<>> /\ toHub'[a][Len(toHub'[a])] = Close
              /\ Len(toHub'[a]) = l + 1
          BY <1>2, <3>2, <3>3, <4>2, Appended
        <4>6. a \in pumping' /\ Other(a) \in copying'
          BY <1>2, <3>1, <4>1, <4>2
        <4> QED
          BY <1>2, <3>3, <4>4, <4>5, <4>6 DEF CloseFollows
      <3> QED
        BY <2>2, <3>4, <3>5
    <2> QED
      BY <2>1, <2>2
  <1> QED
    BY <1>3, <1>4, <1>5 DEF TunnelInvariant

\* A chunk that moves on is counted once.
LEMMA Shift ==
  ASSUME NEW w \in Nat, NEW f \in Nat, NEW l \in Nat, NEW r \in Nat
  PROVE  /\ (w + 1) + (f - 1) = w + f
         /\ (w + 1) + (f - 1) + l = w + f + l
         /\ w + (f + 1) + (l - 1) = w + f + l
         /\ f = 1 /\ w + f = r + 1 => w = r
  OBVIOUS

\* A frame is given to the far end's program, or closes it.
LEMMA WritesStays ==
  ASSUME TunnelInvariant, NEW a \in Sides, WritesProgram(a)
  PROVE  TunnelInvariant'
  <1>1. TunnelTypes /\ Ending /\ \A e \in Sides : Numbered(e) /\ CloseFollows(e)
    BY DEF TunnelInvariant
  <1>2. /\ Other(a) \in copying /\ fromHub[a] # <<>>
        /\ UNCHANGED <<read, toHub, pumping, spliced, hungUp, cut, torn>>
        /\ fromHub'[a] = Tail(fromHub[a])
        /\ \A e \in Sides : e # a => fromHub'[e] = fromHub[e] /\ wrote'[e] = wrote[e]
        /\ Head(fromHub[a]) = Close => copying' = copying \ {Other(a)} /\ wrote' = wrote
        /\ Head(fromHub[a]) # Close =>
             copying' = copying /\ wrote'[a] = Append(wrote[a], Head(fromHub[a]))
    BY <1>1 DEF WritesProgram, Returns, TunnelTypes
  <1>3. PICK w \in Nat, f \in Nat, l \in Nat, r \in Nat :
          /\ w = Len(wrote[a]) /\ f = Len(fromHub[a]) /\ l = Len(toHub[a]) /\ r = read[a]
          /\ w + f \in Nat
    BY <1>1, Counts
  <1>4. fromHub[a] \in Seq(Nat) /\ wrote[a] \in Seq(Nat)
    BY <1>1 DEF TunnelTypes
  <1>5. /\ Head(fromHub[a]) \in Nat /\ Tail(fromHub[a]) \in Seq(Nat) /\ Len(fromHub'[a]) = f - 1
        /\ f \in Nat \ {0}
        /\ NoClose(fromHub[a]) => NoClose(fromHub'[a]) /\ Head(fromHub[a]) # Close
        /\ f > 1 => fromHub'[a] # <<>> /\ fromHub'[a][Len(fromHub'[a])] = fromHub[a][Len(fromHub[a])]
    BY <1>2, <1>3, <1>4, Taken
  <1>6. /\ Head(fromHub[a]) = Close => f = 1
        /\ Head(fromHub[a]) # Close =>
             Head(fromHub[a]) = w + 1 /\ w + 1 <= r /\ Continues(fromHub'[a], w + 1, r)
    <2>1. Continues(fromHub[a], w, r)
      BY <1>1, <1>2, <1>3 DEF Numbered
    <2> QED
      BY <1>2, <1>3, <1>4, <2>1, ContinuesTaken
  <1>7. Head(fromHub[a]) # Close =>
          /\ wrote'[a] \in Seq(Nat) /\ Len(wrote'[a]) = w + 1
          /\ \A k \in 1..Len(wrote'[a]) : wrote'[a][k] = k
    <2> SUFFICES ASSUME Head(fromHub[a]) # Close
                 PROVE  /\ wrote'[a] \in Seq(Nat) /\ Len(wrote'[a]) = w + 1
                        /\ \A k \in 1..Len(wrote'[a]) : wrote'[a][k] = k
      OBVIOUS
    <2>1. wrote'[a] = Append(wrote[a], w + 1)
      BY <1>2, <1>6
    <2>2. \A k \in 1..w : wrote[a][k] = k
      BY <1>1, <1>3 DEF Numbered
    <2> QED
      BY <1>3, <1>4, <2>1, <2>2
  <1>8. Other(a) # a /\ Other(a) \in Sides /\ Other(Other(a)) = a /\ Sides = {a, Other(a)}
    BY Ends2
  <1>9. TunnelTypes'
    <2>1. fromHub' \in [Sides -> Seq(Nat)]
      BY <1>1, <1>5 DEF WritesProgram, TunnelTypes
    <2>2. wrote' \in [Sides -> Seq(Nat)]
      <3>1. CASE Head(fromHub[a]) = Close
        BY <1>1, <1>2, <3>1 DEF TunnelTypes
      <3>2. CASE Head(fromHub[a]) # Close
        <4>1. Append(wrote[a], Head(fromHub[a])) \in Seq(Nat)
          BY <1>4, <1>5
        <4>2. wrote' = [wrote EXCEPT ![a] = Append(wrote[a], Head(fromHub[a]))]
          BY <3>2 DEF WritesProgram
        <4> QED
          BY <1>1, <4>1, <4>2 DEF TunnelTypes
      <3> QED
        BY <3>1, <3>2
    <2> QED
      BY <1>1, <1>2, <2>1, <2>2 DEF TunnelTypes
  <1>10. Ending'
    <2>1. Head(fromHub[a]) = Close => ~(hungUp = {} /\ ~torn)
      <3>1. hungUp = {} /\ ~torn => a \in pumping
        BY <1>1 DEF Ending
      <3>2. a \in pumping => NoClose(fromHub[a])
        BY <1>1, <1>2 DEF Numbered
      <3> QED
        BY <1>5, <3>1, <3>2
    <2> QED
      BY <1>1, <1>2, <2>1 DEF Ending
  <1>11. ASSUME NEW e \in Sides PROVE Numbered(e)' /\ CloseFollows(e)'
    <2>1. CASE e = Other(a)
      <3>1. Other(e) = a /\ Other(e) \in copying' <=> Other(e) \in copying
        BY <1>2, <1>8, <2>1
      <3>2. e \in copying' => e \in copying
        BY <1>2
      <3>3. Numbered(e)'
        BY <1>1, <1>2, <1>8, <2>1, <3>1, <3>2 DEF Numbered
      <3>4. CloseFollows(e)'
        BY <1>1, <1>2, <1>8, <2>1, <3>1 DEF CloseFollows
      <3> QED
        BY <3>3, <3>4
    <2>2. CASE e = a
      <3>1. Numbered(a)'
        <4>1. CASE Head(fromHub[a]) = Close
          BY <1>1, <1>2, <1>8, <4>1 DEF Numbered
        <4>2. CASE Head(fromHub[a]) # Close
          <5>1. (w + 1) + (f - 1) = w + f
            BY Shift
          <5>2. /\ Len(wrote'[a]) <= read'[a]
                /\ \A k \in 1..Len(wrote'[a]) : wrote'[a][k] = k
                /\ Continues(fromHub'[a], Len(wrote'[a]), read'[a])
                /\ Len(wrote'[a]) + Len(fromHub'[a]) = Len(wrote[a]) + Len(fromHub[a])
            BY <1>2, <1>3, <1>5, <1>6, <1>7, <4>2, <5>1
          <5>3. a \in pumping => NoClose(fromHub'[a])
            BY <1>1, <1>2, <1>5 DEF Numbered
          <5>4. spliced /\ a \in pumping =>
                  /\ Continues(toHub[a], Len(wrote[a]) + Len(fromHub[a]), read[a])
                  /\ a \in copying => Len(wrote[a]) + Len(fromHub[a]) + Len(toHub[a]) = read[a]
            BY <1>1, <1>2 DEF Numbered
          <5> QED
            BY <1>2, <4>2, <5>2, <5>3, <5>4 DEF Numbered
        <4> QED
          BY <4>1, <4>2
      <3>2. CloseFollows(a)'
        <4> SUFFICES ASSUME hungUp = {a}, ~torn PROVE CloseFollows(a)'
          BY <1>2 DEF CloseFollows
        <4>1. CASE a \in pumping
          <5>1. Head(fromHub[a]) # Close
            BY <1>1, <1>2, <1>5, <4>1 DEF Numbered
          <5>2. /\ toHub[a] # <<>> /\ toHub[a][Len(toHub[a])] = Close
                /\ w + f + l = r + 1
            BY <1>1, <1>3, <4>1 DEF CloseFollows
          <5>3. (w + 1) + (f - 1) + l = r + 1
            BY <5>2, Shift
          <5>4. Len(wrote'[a]) + Len(fromHub'[a]) + Len(toHub'[a]) = read'[a] + 1
            BY <1>2, <1>3, <1>5, <1>7, <5>1, <5>3
          <5>5. Other(a) \in copying'
            BY <1>2, <5>1
          <5> QED
            BY <1>2, <4>1, <5>2, <5>4, <5>5 DEF CloseFollows
        <4>2. CASE a \notin pumping
          <5>1. fromHub[a][Len(fromHub[a])] = Close /\ w + f = r + 1
            BY <1>1, <1>2, <1>3, <4>2 DEF CloseFollows
          <5>2. CASE Head(fromHub[a]) = Close
            <6>1. w = r
              BY <1>6, <5>1, <5>2, Shift
            <6>2. Len(wrote'[a]) = read'[a] /\ Other(a) \notin copying' /\ a \notin pumping'
              BY <1>2, <1>3, <4>2, <5>2, <6>1
            <6> QED
              BY <6>2 DEF CloseFollows
          <5>3. CASE Head(fromHub[a]) # Close
            <6>1. f > 1
              <7>1. f = 1 => Head(fromHub[a]) = fromHub[a][Len(fromHub[a])]
                BY <1>2, <1>3, <1>4, Taken
              <7> QED
                BY <1>5, <5>1, <5>3, <7>1
            <6>2. (w + 1) + (f - 1) = r + 1
              BY <5>1, Shift
            <6>3. Len(wrote'[a]) + Len(fromHub'[a]) = read'[a] + 1
              BY <1>2, <1>3, <1>5, <1>7, <5>3, <6>2
            <6>4. fromHub'[a] # <<>> /\ fromHub'[a][Len(fromHub'[a])] = Close
              BY <1>5, <5>1, <6>1
            <6>5. a \notin pumping' /\ Other(a) \in copying'
              BY <1>2, <4>2, <5>3
            <6> QED
              BY <6>3, <6>4, <6>5 DEF CloseFollows
          <5> QED
            BY <5>2, <5>3
        <4> QED
          BY <4>1, <4>2
      <3> QED
        BY <2>2, <3>1, <3>2
    <2> QED
      BY <1>8, <2>1, <2>2
  <1> QED
    BY <1>9, <1>10, <1>11 DEF TunnelInvariant

\* An end finds the validator's handler gone.
LEMMA HubStays ==
  ASSUME TunnelInvariant, NEW a \in Sides, HubHasReturned(a)
  PROVE  TunnelInvariant'
  <1>1. TunnelTypes /\ Ending /\ \A e \in Sides : Numbered(e) /\ CloseFollows(e)
    BY DEF TunnelInvariant
  <1>2. /\ a \in copying /\ ~spliced /\ fromHub[Other(a)] = <<>> /\ copying' = copying \ {a}
        /\ UNCHANGED <<read, toHub, pumping, spliced, fromHub, wrote, hungUp, cut, torn>>
    BY DEF HubHasReturned, Returns
  <1>3. Other(a) # a /\ Other(a) \in Sides /\ Other(Other(a)) = a /\ Sides = {a, Other(a)}
    BY Ends2
  <1>4. ASSUME ~torn, a \notin hungUp PROVE Other(a) \in hungUp /\ Other(a) \notin pumping
    <2>1. a \in pumping
      BY <1>1, <1>4 DEF Ending
    <2>2. Other(a) \notin pumping
      BY <1>1, <1>2, <1>3, <2>1 DEF Ending, TunnelTypes
    <2> QED
      BY <1>1, <1>3, <1>4, <2>2 DEF Ending
  <1>5. TunnelTypes'
    BY <1>1, <1>2 DEF TunnelTypes
  <1>6. Ending'
    BY <1>1, <1>2, <1>4 DEF Ending
  <1>7. ASSUME NEW e \in Sides PROVE Numbered(e)' /\ CloseFollows(e)'
    <2>1. Numbered(e)'
      BY <1>1, <1>2 DEF Numbered
    <2>2. CASE e = a
      BY <1>1, <1>2, <1>3, <2>1, <2>2 DEF CloseFollows
    <2>3. CASE e = Other(a)
      <3> SUFFICES ASSUME hungUp = {e}, ~torn PROVE FALSE
        BY <1>2, <2>1 DEF CloseFollows
      <3>1. a \notin hungUp /\ e \notin pumping
        BY <1>3, <1>4, <2>3
      <3>2. fromHub[e] # <<>>
        BY <1>1, <1>2, <1>3, <2>3, <3>1 DEF CloseFollows
      <3> QED
        BY <1>2, <2>3, <3>2
    <2> QED
      BY <1>3, <2>2, <2>3
  <1> QED
    BY <1>5, <1>6, <1>7 DEF TunnelInvariant

\* A connection breaks, or a process ends with frames it has not sent.
LEMMA TearsStays ==
  ASSUME TunnelInvariant, NEW a \in Sides, Tears(a)
  PROVE  TunnelInvariant'
  <1>1. TunnelTypes /\ Ending /\ \A e \in Sides : Numbered(e) /\ CloseFollows(e)
    BY DEF TunnelInvariant
  <1>2. Other(a) # a /\ Other(a) \in Sides /\ Other(Other(a)) = a /\ Sides = {a, Other(a)}
    BY Ends2
  <1>3. PICK k \in 0..Len(toHub[a]) : toHub' = [toHub EXCEPT ![a] = SubSeq(@, 1, k)]
    BY DEF Tears
  <1>4. /\ torn' = TRUE /\ copying' = copying \ {a}
        /\ fromHub' = [fromHub EXCEPT ![Other(a)] = <<>>]
        /\ UNCHANGED <<read, pumping, spliced, wrote, hungUp, cut>>
    BY DEF Tears
  <1>5. toHub[a] \in Seq(Nat)
    BY <1>1 DEF TunnelTypes
  <1>6. /\ SubSeq(toHub[a], 1, k) \in Seq(Nat)
        /\ NoClose(toHub[a]) => NoClose(SubSeq(toHub[a], 1, k))
        /\ \A n, r \in Nat : Continues(toHub[a], n, r) => Continues(SubSeq(toHub[a], 1, k), n, r)
    BY <1>5, Cut
  <1>7. toHub'[a] = SubSeq(toHub[a], 1, k) /\ toHub'[Other(a)] = toHub[Other(a)] /\ fromHub'[a] = fromHub[a]
    BY <1>1, <1>2, <1>3, <1>4 DEF TunnelTypes
  <1>8. TunnelTypes'
    <2>1. toHub' \in [Sides -> Seq(Nat)]
      BY <1>1, <1>3, <1>6 DEF TunnelTypes
    <2>2. fromHub' \in [Sides -> Seq(Nat)]
      <3>1. <<>> \in Seq(Nat)
        OBVIOUS
      <3> QED
        BY <1>1, <1>4, <3>1 DEF TunnelTypes
    <2> QED
      BY <1>1, <1>4, <2>1, <2>2 DEF TunnelTypes
  <1>9. Ending'
    <2>1. ASSUME NEW e \in Sides, e \notin hungUp PROVE NoClose(toHub'[e])
      <3>1. NoClose(toHub[e])
        BY <1>1, <2>1 DEF Ending
      <3> QED
        BY <1>2, <1>6, <1>7, <3>1
    <2> QED
      BY <1>1, <1>4, <2>1 DEF Ending
  <1>10. ASSUME NEW e \in Sides PROVE Numbered(e)' /\ CloseFollows(e)'
    <2>1. CloseFollows(e)'
      BY <1>4 DEF CloseFollows
    <2>2. CASE e = Other(a)
      <3>1. Other(e) \notin copying'
        BY <1>2, <1>4, <2>2
      <3> QED
        BY <1>1, <1>4, <2>1, <3>1 DEF Numbered
    <2>3. CASE e = a
      <3>1. PICK n \in Nat : n = Len(wrote[a]) + Len(fromHub[a])
        BY <1>1, Counts
      <3>2. read[a] \in Nat /\ a \notin copying'
        BY <1>1, <1>4 DEF TunnelTypes
      <3>3. ASSUME Other(a) \in copying, spliced, a \in pumping
            PROVE  Continues(toHub'[a], Len(wrote[a]) + Len(fromHub[a]), read[a])
        BY <1>1, <1>6, <1>7, <3>1, <3>2, <3>3 DEF Numbered
      <3> QED
        BY <1>1, <1>2, <1>4, <1>7, <2>1, <2>3, <3>2, <3>3 DEF Numbered
    <2> QED
      BY <1>2, <2>2, <2>3
  <1> QED
    BY <1>8, <1>9, <1>10 DEF TunnelInvariant

\* A pump of the validator gives up.
LEMMA PumpFailsStays ==
  ASSUME TunnelInvariant, NEW a \in Sides, PumpFails(a)
  PROVE  TunnelInvariant'
  <1>1. TunnelTypes /\ Ending /\ \A e \in Sides : Numbered(e) /\ CloseFollows(e)
    BY DEF TunnelInvariant
  <1>2. /\ torn /\ pumping' = pumping \ {a} /\ spliced /\ a \in pumping
        /\ UNCHANGED <<copying, read, toHub, spliced, fromHub, wrote, hungUp, cut, torn>>
    BY DEF PumpFails
  <1>3. TunnelTypes'
    BY <1>1, <1>2 DEF TunnelTypes
  <1>4. Ending'
    BY <1>1, <1>2 DEF Ending
  <1>5. ASSUME NEW e \in Sides PROVE Numbered(e)' /\ CloseFollows(e)'
    <2>1. CloseFollows(e)'
      BY <1>2 DEF CloseFollows
    <2> QED
      BY <1>1, <1>2, <2>1 DEF Numbered
  <1> QED
    BY <1>3, <1>4, <1>5 DEF TunnelInvariant

\* The first pump to return ends the splice.
LEMMA UnsplicesStays ==
  ASSUME TunnelInvariant, Unsplices
  PROVE  TunnelInvariant'
  <1>1. TunnelTypes /\ Ending /\ \A e \in Sides : Numbered(e) /\ CloseFollows(e)
    BY DEF TunnelInvariant
  <1>2. /\ pumping # Sides /\ ~spliced' /\ spliced' \in BOOLEAN /\ toHub' = [e \in Sides |-> <<>>]
        /\ UNCHANGED <<copying, read, pumping, fromHub, wrote, hungUp, cut, torn>>
    BY DEF Unsplices
  <1>3. TunnelTypes'
    <2>1. toHub' \in [Sides -> Seq(Nat)]
      BY <1>2
    <2> QED
      BY <1>1, <1>2, <2>1 DEF TunnelTypes
  <1>4. Ending'
    <2>1. \A e \in Sides : NoClose(toHub'[e])
      BY <1>2, Emptied
    <2> QED
      BY <1>1, <1>2, <2>1 DEF Ending
  <1>5. ASSUME NEW e \in Sides PROVE Numbered(e)' /\ CloseFollows(e)'
    <2>1. Numbered(e)'
      BY <1>1, <1>2 DEF Numbered
    <2>2. ASSUME hungUp = {e}, ~torn PROVE e \notin pumping
      <3>1. Other(e) \in pumping /\ Sides = {e, Other(e)}
        BY <1>1, <2>2, Ends2 DEF Ending
      <3> QED
        BY <1>1, <1>2, <3>1 DEF TunnelTypes
    <2> QED
      BY <1>1, <1>2, <2>1, <2>2 DEF CloseFollows
  <1> QED
    BY <1>3, <1>4, <1>5 DEF TunnelInvariant

\* A pump forwards a frame, or ends with a Close.
LEMMA PumpsStays ==
  ASSUME TunnelInvariant, NEW a \in Sides, Pumps(a)
  PROVE  TunnelInvariant'
  <1>1. TunnelTypes /\ Ending /\ \A e \in Sides : Numbered(e) /\ CloseFollows(e)
    BY DEF TunnelInvariant
  <1>2. Other(a) # a /\ Other(a) \in Sides /\ Other(Other(a)) = a /\ Sides = {a, Other(a)}
    BY Ends2
  <1>3. /\ spliced /\ a \in pumping /\ toHub[a] # <<>>
        /\ toHub'[a] = Tail(toHub[a])
        /\ \A e \in Sides : e # a => toHub'[e] = toHub[e] /\ fromHub'[e] = fromHub[e]
        /\ torn /\ Other(a) \notin copying => fromHub'[a] = fromHub[a]
        /\ ~(torn /\ Other(a) \notin copying) => fromHub'[a] = Append(fromHub[a], Head(toHub[a]))
        /\ Head(toHub[a]) = Close => pumping' = pumping \ {a}
        /\ Head(toHub[a]) # Close => pumping' = pumping
        /\ UNCHANGED <<copying, read, spliced, wrote, hungUp, cut, torn>>
    BY <1>1 DEF Pumps, TunnelTypes
  <1>4. PICK w \in Nat, f \in Nat, l \in Nat, r \in Nat :
          /\ w = Len(wrote[a]) /\ f = Len(fromHub[a]) /\ l = Len(toHub[a]) /\ r = read[a]
          /\ w + f \in Nat
    BY <1>1, Counts
  <1>5. toHub[a] \in Seq(Nat) /\ fromHub[a] \in Seq(Nat)
    BY <1>1 DEF TunnelTypes
  <1>6. /\ Head(toHub[a]) \in Nat /\ toHub'[a] \in Seq(Nat) /\ Len(toHub'[a]) = l - 1
        /\ NoClose(toHub[a]) => NoClose(toHub'[a]) /\ Head(toHub[a]) # Close
        /\ l > 1 => toHub'[a] # <<>> /\ toHub'[a][Len(toHub'[a])] = toHub[a][Len(toHub[a])]
        /\ l = 1 => Head(toHub[a]) = toHub[a][Len(toHub[a])]
    BY <1>3, <1>4, <1>5, Taken
  <1>7. l \in Nat \ {0}
    BY <1>3, <1>4, <1>5, Taken
  <1>8. /\ Append(fromHub[a], Head(toHub[a])) \in Seq(Nat)
        /\ Append(fromHub[a], Head(toHub[a])) # <<>>
        /\ Len(Append(fromHub[a], Head(toHub[a]))) = f + 1
        /\ Append(fromHub[a], Head(toHub[a]))[Len(Append(fromHub[a], Head(toHub[a])))] = Head(toHub[a])
        /\ NoClose(fromHub[a]) /\ Head(toHub[a]) # Close => NoClose(Append(fromHub[a], Head(toHub[a])))
    BY <1>4, <1>5, <1>6, Appended
  <1>9. Other(a) \in copying =>
          /\ NoClose(fromHub[a]) /\ Continues(fromHub[a], w, r) /\ Continues(toHub[a], w + f, r)
          /\ a \in copying => w + f + l = r
    BY <1>1, <1>3, <1>4 DEF Numbered
  <1>10. Other(a) \in copying =>
           /\ Head(toHub[a]) = Close => l = 1
           /\ Head(toHub[a]) # Close =>
                /\ Head(toHub[a]) = (w + f) + 1 /\ (w + f) + 1 <= r
                /\ Continues(toHub'[a], (w + f) + 1, r)
    <2> SUFFICES ASSUME Other(a) \in copying
                 PROVE  /\ Head(toHub[a]) = Close => l = 1
                        /\ Head(toHub[a]) # Close =>
                             /\ Head(toHub[a]) = (w + f) + 1 /\ (w + f) + 1 <= r
                             /\ Continues(toHub'[a], (w + f) + 1, r)
      OBVIOUS
    <2>1. PICK n \in Nat : n = w + f
      BY <1>4
    <2>2. Continues(toHub[a], n, r) /\ toHub[a] # <<>>
      BY <1>3, <1>9, <2>1
    <2>3. /\ Head(toHub[a]) = Close => Len(toHub[a]) = 1
          /\ Head(toHub[a]) # Close =>
               Head(toHub[a]) = n + 1 /\ n + 1 <= r /\ Continues(Tail(toHub[a]), n + 1, r)
      BY <1>5, <2>2, ContinuesTaken
    <2> QED
      BY <1>3, <1>4, <2>1, <2>3
  <1>11. TunnelTypes'
    <2>1. toHub' \in [Sides -> Seq(Nat)]
      BY <1>1, <1>3, <1>6 DEF Pumps, TunnelTypes
    <2>2. fromHub' \in [Sides -> Seq(Nat)]
      BY <1>1, <1>8 DEF Pumps, TunnelTypes
    <2> QED
      BY <1>1, <1>3, <2>1, <2>2 DEF TunnelTypes
  <1>12. Ending'
    <2>1. a \notin hungUp => NoClose(toHub'[a]) /\ pumping' = pumping
      BY <1>1, <1>3, <1>6 DEF Ending
    <2>2. \A e \in Sides : e \notin hungUp => NoClose(toHub'[e])
      BY <1>1, <1>2, <1>3, <2>1 DEF Ending
    <2>3. \A e \in Sides : e \notin hungUp /\ ~torn => e \in pumping'
      BY <1>1, <1>2, <1>3, <2>1 DEF Ending
    <2> QED
      BY <1>1, <1>3, <2>2, <2>3 DEF Ending
  <1>13. ASSUME NEW e \in Sides PROVE Numbered(e)' /\ CloseFollows(e)'
    <2>1. CASE e = Other(a)
      <3>1. toHub'[e] = toHub[e] /\ fromHub'[e] = fromHub[e] /\ (e \in pumping' <=> e \in pumping)
        BY <1>2, <1>3, <2>1
      <3>2. Numbered(e)'
        BY <1>1, <1>3, <3>1 DEF Numbered
      <3>3. CloseFollows(e)'
        BY <1>1, <1>3, <3>1 DEF CloseFollows
      <3> QED
        BY <3>2, <3>3
    <2>2. CASE e = a
      <3>1. Numbered(a)'
        <4>1. Len(wrote[a]) <= read[a] /\ \A k \in 1..Len(wrote[a]) : wrote[a][k] = k
          BY <1>1 DEF Numbered
        <4>2. CASE Other(a) \notin copying
          BY <1>3, <4>1, <4>2 DEF Numbered
        <4>3. CASE Other(a) \in copying
          <5>1. fromHub'[a] = Append(fromHub[a], Head(toHub[a]))
            BY <1>3, <4>3
          <5>2. CASE Head(toHub[a]) = Close
            <6>1. Continues(fromHub'[a], w, r)
              BY <1>4, <1>5, <1>9, <4>3, <5>1, <5>2, ContinuesClosed
            <6>2. a \notin pumping'
              BY <1>3, <5>2
            <6> QED
              BY <1>3, <1>4, <4>1, <6>1, <6>2 DEF Numbered
          <5>3. CASE Head(toHub[a]) # Close
            <6>1. Head(toHub[a]) = w + f + 1 /\ w + f + 1 <= r /\ r <= r
              BY <1>10, <4>3, <5>3
            <6>2. Continues(fromHub'[a], w, r)
              <7>1. PICK x \in Nat : x = Head(toHub[a])
                BY <1>6
              <7>2. x = w + Len(fromHub[a]) + 1 /\ x <= r /\ r <= r
                BY <1>4, <6>1, <7>1
              <7>3. NoClose(fromHub[a]) /\ Continues(fromHub[a], w, r)
                BY <1>9, <4>3
              <7> QED
                BY <1>5, <5>1, <7>1, <7>2, <7>3, ContinuesAppended
            <6>3. NoClose(fromHub'[a])
              BY <1>8, <1>9, <4>3, <5>1, <5>3
            <6>4. w + (f + 1) = (w + f) + 1 /\ w + (f + 1) + (l - 1) = w + f + l
              BY Shift
            <6>5. /\ Continues(toHub'[a], Len(wrote[a]) + Len(fromHub'[a]), r)
                  /\ a \in copying => Len(wrote[a]) + Len(fromHub'[a]) + Len(toHub'[a]) = r
              BY <1>4, <1>6, <1>8, <1>9, <1>10, <4>3, <5>1, <5>3, <6>4
            <6> QED
              BY <1>3, <1>4, <4>1, <6>2, <6>3, <6>5 DEF Numbered
          <5> QED
            BY <5>2, <5>3
        <4> QED
          BY <4>2, <4>3
      <3>2. CloseFollows(a)'
        <4> SUFFICES ASSUME hungUp = {a}, ~torn PROVE CloseFollows(a)'
          BY <1>3 DEF CloseFollows
        <4>1. /\ Other(a) \in copying /\ toHub[a][Len(toHub[a])] = Close
              /\ w + f + l = r + 1
          BY <1>1, <1>3, <1>4 DEF CloseFollows
        <4>2. Len(fromHub'[a]) = f + 1 /\ fromHub'[a] = Append(fromHub[a], Head(toHub[a]))
          BY <1>3, <1>8
        <4>3. w + (f + 1) + (l - 1) = r + 1
          BY <4>1, Shift
        <4>4. CASE Head(toHub[a]) = Close
          <5>1. l = 1
            BY <1>10, <4>1, <4>4
          <5>2. w + (f + 1) = r + 1
            BY <4>3, <5>1
          <5>3. /\ fromHub'[a] # <<>> /\ fromHub'[a][Len(fromHub'[a])] = Close
                /\ Len(wrote'[a]) + Len(fromHub'[a]) = read'[a] + 1
            BY <1>3, <1>4, <1>8, <4>2, <4>4, <5>2
          <5>4. a \notin pumping' /\ Other(a) \in copying'
            BY <1>3, <4>1, <4>4
          <5> QED
            BY <5>3, <5>4 DEF CloseFollows
        <4>5. CASE Head(toHub[a]) # Close
          <5>1. l > 1
            <6>1. l # 1
              BY <1>6, <4>1, <4>5
            <6> QED
              BY <1>7, <6>1
          <5>2. /\ toHub'[a] # <<>> /\ toHub'[a][Len(toHub'[a])] = Close
                /\ Len(wrote'[a]) + Len(fromHub'[a]) + Len(toHub'[a]) = read'[a] + 1
            BY <1>3, <1>4, <1>6, <4>1, <4>2, <4>3, <5>1
          <5>3. a \in pumping' /\ Other(a) \in copying'
            BY <1>3, <4>1, <4>5
          <5> QED
            BY <5>2, <5>3 DEF CloseFollows
        <4> QED
          BY <4>4, <4>5
      <3> QED
        BY <2>2, <3>1, <3>2
    <2> QED
      BY <1>2, <2>1, <2>2
  <1> QED
    BY <1>11, <1>12, <1>13 DEF TunnelInvariant

\* The inductive invariant of the tunnel's bytes holds in every reachable state.
THEOREM TunnelInvariantAlways == TunnelSpec => []TunnelInvariant
  <1>1. TunnelInvariant /\ [TunnelNext]_tunnelVars => TunnelInvariant'
    <2> SUFFICES ASSUME TunnelInvariant, [TunnelNext]_tunnelVars PROVE TunnelInvariant'
      OBVIOUS
    <2>1. CASE UNCHANGED tunnelVars
      BY <2>1 DEF tunnelVars, TunnelInvariant, TunnelTypes, Ending, Numbered, CloseFollows
    <2>2. CASE TunnelNext
      BY <2>2, ReadsStays, SendEndsStays, HangsUpStays, WritesStays, HubStays, TearsStays, PumpsStays,
         PumpFailsStays, UnsplicesStays DEF TunnelNext
    <2> QED
      BY <2>1, <2>2
  <1> QED
    BY TunnelStarts, <1>1, PTL DEF TunnelSpec

\* A sequence is the function of its elements.
LEMMA AsFunction ==
  ASSUME NEW q \in Seq(Nat)
  PROVE  q = [k \in 1..Len(q) |-> q[k]]
  OBVIOUS

\* What LastWordsArrive says of one direction.
LEMMA AllIsWritten ==
  ASSUME TunnelInvariant, NEW e \in Sides
  PROVE  /\ IsPrefix(wrote[e], Chunks(read[e]))
         /\ hungUp = {e} /\ ~torn /\ Other(e) \notin copying \cup cut => wrote[e] = Chunks(read[e])
  <1>1. PICK w \in Nat, r \in Nat : w = Len(wrote[e]) /\ r = read[e]
    BY Counts DEF TunnelInvariant
  <1>2. wrote[e] \in Seq(Nat) /\ w <= r /\ \A k \in 1..w : wrote[e][k] = k
    BY <1>1 DEF TunnelInvariant, TunnelTypes, Numbered
  <1>3. Len(Chunks(r)) = r /\ Chunks(r) \in Seq(Nat) /\ \A k \in 1..r : Chunks(r)[k] = k
    BY DEF Chunks
  <1>4. w \in 0..r
    BY <1>2
  <1>5. SubSeq(wrote[e], 1, w) = SubSeq(Chunks(r), 1, w)
    <2>1. PICK q \in Seq(Nat) : q = wrote[e]
      BY <1>2
    <2>2. PICK c \in Seq(Nat) : c = Chunks(r)
      BY <1>3
    <2>3. Len(q) = w /\ w <= Len(c) /\ \A k \in 1..w : q[k] = c[k]
      BY <1>1, <1>2, <1>3, <2>1, <2>2
    <2>4. SubSeq(q, 1, w) = SubSeq(c, 1, w)
      BY <2>3
    <2> QED
      BY <2>1, <2>2, <2>4
  <1>6. ASSUME hungUp = {e}, ~torn, Other(e) \notin copying \cup cut PROVE wrote[e] = Chunks(read[e])
    <2>1. w = r
      BY <1>1, <1>6 DEF TunnelInvariant, CloseFollows
    <2>2. wrote[e] = [k \in 1..Len(wrote[e]) |-> wrote[e][k]]
      BY <1>2, AsFunction
    <2>3. wrote[e] = [k \in 1..r |-> k]
      BY <1>1, <1>2, <2>1, <2>2
    <2> QED
      BY <1>1, <2>3 DEF Chunks
  <1> QED
    BY <1>1, <1>2, <1>3, <1>5, <1>6 DEF IsPrefix

\* LastWordsArrive holds in every reachable state, however many chunks are written: nothing is
\* repeated, reordered or left out in the middle, and what one side said before it hung up is
\* all written before the other returns, unless the other meets the end of the stream in Send.
THEOREM AllLastWordsArrive == TunnelSpec => []LastWordsArrive
  <1>1. TunnelInvariant => LastWordsArrive
    BY AllIsWritten DEF LastWordsArrive
  <1> QED
    BY TunnelInvariantAlways, <1>1, PTL

-----------------------------------------------------------------------------
(* TunnelRelay.                                                            *)

BridgePlaces == {"idle", "registered", "dispatched", "found", "serving", "returned"}
TunnelPlaces == {"none", "asked", "opened", "waiting", "refused", "spliced", "closed", "returned"}

RelayTypes ==
  /\ pending \in Bridges \cup {None}
  /\ clientCh \in [Bridges -> Bridges \cup {None}]
  /\ done \in SUBSET Bridges
  /\ bridge \in [Bridges -> BridgePlaces]
  /\ at \in [Bridges -> Bridges \cup {None}]
  /\ clientGone \in SUBSET Bridges
  /\ tunnel \in [Bridges -> TunnelPlaces]
  /\ client \in [Bridges -> Bridges \cup {None}]
  /\ agentGone \in SUBSET Bridges

\* A call that waits in Serve has found a registration, an idle one has none, and the agent
\* has not been told of one before Dispatch.
Found ==
  \A b \in Bridges :
    /\ bridge[b] \in {"found", "serving"} => at[b] \in Bridges
    /\ bridge[b] = "idle" => /\ clientCh[b] = None /\ b \notin done
                             /\ \A k \in Bridges : at[k] # b
    /\ bridge[b] \in {"idle", "registered"} => tunnel[b] = "none"

Splicing(r) == tunnel[r] \in {"spliced", "closed"}
Serving(b, r) == bridge[b] = "serving" /\ at[b] = r

\* The entry has an owner that will remove it: the call that registered it, a call that found
\* it, or the splice; the client in its channel is one of them, and so is whoever closes done.
Owned ==
  \A r \in Bridges : pending = r =>
    /\ \/ bridge[r] \in {"registered", "dispatched"}
       \/ \E b \in Bridges : bridge[b] = "found" /\ at[b] = r
       \/ \E b \in Bridges : Serving(b, r)
       \/ Splicing(r)
    /\ clientCh[r] # None => Serving(clientCh[r], r) \/ Splicing(r)
    /\ r \in done => Splicing(r)
    /\ tunnel[r] \notin {"refused", "returned"}
    /\ bridge[r] # "idle"

IInv == RelayTypes /\ Found /\ Owned

USE RelayAssumption
USE DEF rendezvous, clients, splices, agents

-----------------------------------------------------------------------------
\* Every step keeps the values.
LEMMA TypesStep == RelayTypes /\ [RelayNext]_relayVars => RelayTypes'
<1> SUFFICES ASSUME RelayTypes, [RelayNext]_relayVars PROVE RelayTypes'
  OBVIOUS
<1>1. CASE UNCHANGED relayVars
  BY <1>1 DEF relayVars, RelayTypes
<1>2. ASSUME NEW b \in Bridges,
             \/ Register(b) \/ RegisterRefused(b) \/ ClientGoes(b) \/ DispatchOpen(b)
             \/ DispatchFails(b) \/ ServeDone(b) \/ ServeCancelled(b)
      PROVE  RelayTypes'
  BY <1>2 DEF RelayTypes, BridgePlaces, TunnelPlaces, Register, RegisterRefused, ClientGoes,
              DispatchOpen, DispatchFails, ServeDone, ServeCancelled
<1>3. ASSUME NEW b \in Bridges, ServeGets(b) \/ ServePuts(b) PROVE RelayTypes'
  BY <1>3 DEF RelayTypes, BridgePlaces, ServeGets, ServePuts
<1>4. ASSUME NEW r \in Bridges,
             \/ AgentOpens(r) \/ AttachGets(r) \/ AttachTakes(r) \/ AttachCancelled(r)
             \/ EndSplice(r) \/ AttachRemoves(r) \/ AgentGoes(r) \/ SendBlocks(r) \/ PeerReads(r)
      PROVE  RelayTypes'
  BY <1>4 DEF RelayTypes, TunnelPlaces, AgentOpens, AttachGets, AttachTakes, AttachCancelled,
              EndSplice, AttachRemoves, AgentGoes, SendBlocks, PeerReads
<1>5. QED
  BY <1>1, <1>2, <1>3, <1>4 DEF RelayNext, BridgeStep, TunnelStep, SpliceBreaks, SpliceCloses

\* A registration is used once, so that nothing of it is left when it is made.
LEMMA FoundStep == IInv /\ [RelayNext]_relayVars => Found'
<1> SUFFICES ASSUME IInv, [RelayNext]_relayVars PROVE Found'
  OBVIOUS
<1> USE DEF IInv, RelayTypes, Found
<1>1. CASE UNCHANGED relayVars
  BY <1>1 DEF relayVars
<1>2. ASSUME NEW b \in Bridges,
             \/ Register(b) \/ RegisterRefused(b) \/ ClientGoes(b) \/ DispatchOpen(b)
             \/ DispatchFails(b) \/ ServeDone(b) \/ ServeCancelled(b)
      PROVE  Found'
  BY <1>2 DEF Register, RegisterRefused, ClientGoes, DispatchOpen, DispatchFails, ServeDone,
              ServeCancelled
<1>3. ASSUME NEW b \in Bridges, ServeGets(b) \/ ServePuts(b) PROVE Found'
  BY <1>3 DEF Owned, ServeGets, ServePuts
<1>4. ASSUME NEW r \in Bridges,
             \/ AgentOpens(r) \/ AttachGets(r) \/ AttachTakes(r) \/ AttachCancelled(r)
             \/ EndSplice(r) \/ AttachRemoves(r) \/ AgentGoes(r) \/ SendBlocks(r) \/ PeerReads(r)
      PROVE  Found'
  BY <1>4 DEF AgentOpens, AttachGets, AttachTakes, AttachCancelled, EndSplice, AttachRemoves,
              AgentGoes, SendBlocks, PeerReads
<1>5. QED
  BY <1>1, <1>2, <1>3, <1>4 DEF RelayNext, BridgeStep, TunnelStep, SpliceBreaks, SpliceCloses

\* Whoever leaves an entry behind leaves it to another owner.
LEMMA OwnedStep == IInv /\ [RelayNext]_relayVars => Owned'
<1> SUFFICES ASSUME IInv, [RelayNext]_relayVars PROVE Owned'
  OBVIOUS
<1> USE DEF IInv, RelayTypes, Owned, Splicing, Serving
<1>1. CASE UNCHANGED relayVars
  BY <1>1 DEF relayVars
<1>2. ASSUME NEW b \in Bridges,
             DispatchFails(b) \/ ServeCancelled(b) \/ AttachCancelled(b) \/ AttachRemoves(b)
      PROVE  Owned'
  BY <1>2 DEF DispatchFails, ServeCancelled, AttachCancelled, AttachRemoves
<1>3. ASSUME NEW b \in Bridges, Register(b) PROVE Owned'
  BY <1>3 DEF Register, Found
<1>4. ASSUME NEW b \in Bridges, RegisterRefused(b) PROVE Owned'
  BY <1>4 DEF RegisterRefused
<1>5. ASSUME NEW b \in Bridges, DispatchOpen(b) PROVE Owned'
  BY <1>5 DEF DispatchOpen, Found
<1>6. ASSUME NEW b \in Bridges, ServeGets(b) PROVE Owned'
  BY <1>6 DEF ServeGets
<1>7. ASSUME NEW b \in Bridges, ServePuts(b) PROVE Owned'
  BY <1>7 DEF ServePuts, Found
<1>8. ASSUME NEW b \in Bridges, ServeDone(b) PROVE Owned'
  BY <1>8 DEF ServeDone
<1>9. ASSUME NEW b \in Bridges, ClientGoes(b) \/ AgentGoes(b) \/ SendBlocks(b) \/ PeerReads(b)
      PROVE  Owned'
  BY <1>9 DEF ClientGoes, AgentGoes, SendBlocks, PeerReads
<1>10. ASSUME NEW r \in Bridges, AgentOpens(r) \/ AttachGets(r) PROVE Owned'
  BY <1>10 DEF AgentOpens, AttachGets
<1>11. ASSUME NEW r \in Bridges, AttachTakes(r) PROVE Owned'
  BY <1>11 DEF AttachTakes
<1>12. ASSUME NEW r \in Bridges, EndSplice(r) PROVE Owned'
  BY <1>12 DEF EndSplice
<1>13. QED
  BY <1>1, <1>2, <1>3, <1>4, <1>5, <1>6, <1>7, <1>8, <1>9, <1>10, <1>11, <1>12
     DEF RelayNext, BridgeStep, TunnelStep, SpliceBreaks, SpliceCloses

\* It holds before the first BridgeSsh.
LEMMA InitIInv == RelayInit => IInv
  BY DEF RelayInit, IInv, RelayTypes, Found, Owned, BridgePlaces, TunnelPlaces

\* Cancel, Serve and Attach remove the entry of a session on every path that leaves it behind,
\* although they find it by the session's id alone: no session is locked out for good.
THEOREM NeverLockedOut == RelaySpec => []NoStuckEntry
<1>1. IInv /\ [RelayNext]_relayVars => IInv'
  BY TypesStep, FoundStep, OwnedStep DEF IInv
<1>2. IInv => NoStuckEntry
  BY DEF IInv, RelayTypes, Owned, Splicing, Serving, NoStuckEntry
<1>3. QED
  BY InitIInv, <1>1, <1>2, PTL DEF RelaySpec

=============================================================================
