----------------------------- MODULE TunnelData -----------------------------
(***************************************************************************)
(* The bytes of a tunnel once TunnelRelay has brought its streams together:*)
(* Pipe of the client (clientapi/client.go), the validator's two pumps     *)
(* (tunnel/relay.go), the agent's splice (agent/ssh.go).  At each of the   *)
(* three places two goroutines copy, and the first to return ends both.    *)
(*                                                                         *)
(* A direction is named by the end it starts from.  Chunks of data are     *)
(* numbered, and Close is the frame that says there are no more.           *)
(***************************************************************************)
EXTENDS Naturals, Sequences, SequencesExt

CONSTANTS MaxChunks \* bound on the chunks an end's program writes

ASSUME TunnelAssumption == MaxChunks \in Nat

VARIABLES
  copying,  \* the ends whose copying function has not returned
  read,     \* chunks read from each end's program: the ssh client or sshd
  toHub,    \* frames between an end and the validator
  pumping,  \* directions whose pump has not returned
  spliced,  \* Attach has not returned
  fromHub,  \* frames between the validator and the far end
  wrote,    \* what a direction's far end has given its program
  hungUp,   \* history: the ends whose program closed
  cut,      \* history: the ends whose Send met the end of the stream
  torn      \* history: a stream broke, or a process took unsent frames with it

tunnelVars == <<copying, read, toHub, pumping, spliced, fromHub, wrote, hungUp, cut, torn>>

-----------------------------------------------------------------------------
Close == 0
Sides == {"client", "agent"}
Other(e) == IF e = "client" THEN "agent" ELSE "client"
Chunks(n) == [k \in 1..n |-> k]

TunnelInit ==
  /\ copying = Sides /\ read = [e \in Sides |-> 0]
  /\ toHub = [e \in Sides |-> <<>>] /\ fromHub = [e \in Sides |-> <<>>]
  /\ pumping = Sides /\ spliced = TRUE
  /\ wrote = [e \in Sides |-> <<>>]
  /\ hungUp = {} /\ cut = {} /\ torn = FALSE

Returns(e) == copying' = copying \ {e}
\* A frame to a stream the validator has finished with is lost: without an error as long as its
\* status has not arrived.
Sent(e, frame) == toHub' = IF spliced THEN [toHub EXCEPT ![e] = Append(@, frame)] ELSE toHub

-----------------------------------------------------------------------------
(* The ends: Pipe and the agent's splice.                                  *)

ReadsProgram(e) ==
  /\ e \in copying /\ e \notin hungUp /\ read[e] < MaxChunks
  /\ read' = [read EXCEPT ![e] = @ + 1]
  /\ Sent(e, read[e] + 1)
  /\ UNCHANGED <<copying, pumping, spliced, fromHub, wrote, hungUp, cut, torn>>

\* The status has arrived, and with it what the validator had sent before: Send gives io.EOF, and
\* the function returns although Recv has frames left to give.
SendEnds(e) ==
  /\ e \in copying /\ e \notin hungUp /\ ~spliced /\ read[e] < MaxChunks
  /\ read' = [read EXCEPT ![e] = @ + 1]
  /\ Returns(e)
  /\ cut' = cut \cup {e}
  /\ UNCHANGED <<toHub, pumping, spliced, fromHub, wrote, hungUp, torn>>

\* Variant: returning cancels the stream, and what it has not sent is dropped.
HangsUpCancelling(e) ==
  /\ e \in copying
  /\ hungUp' = hungUp \cup {e} /\ Returns(e)
  /\ toHub' = [toHub EXCEPT ![e] = <<Close>>]
  /\ UNCHANGED <<read, pumping, spliced, fromHub, wrote, cut, torn>>

\* The program closes: Close is sent and the function returns, whatever is still to come from
\* the other side.
HangsUp(e) ==
  /\ e \in copying
  /\ hungUp' = hungUp \cup {e} /\ Returns(e)
  /\ Sent(e, Close)
  /\ UNCHANGED <<read, pumping, spliced, fromHub, wrote, cut, torn>>

WritesProgram(e) ==
  /\ Other(e) \in copying /\ fromHub[e] # <<>>
  /\ fromHub' = [fromHub EXCEPT ![e] = Tail(@)]
  /\ IF Head(fromHub[e]) = Close
     THEN Returns(Other(e)) /\ UNCHANGED wrote
     ELSE wrote' = [wrote EXCEPT ![e] = Append(@, Head(fromHub[e]))] /\ UNCHANGED copying
  /\ UNCHANGED <<read, toHub, pumping, spliced, hungUp, cut, torn>>

\* The validator's handler has returned: the frames it had sent are read before its status.
HubHasReturned(e) ==
  /\ e \in copying /\ ~spliced /\ fromHub[Other(e)] = <<>>
  /\ Returns(e)
  /\ UNCHANGED <<read, toHub, pumping, spliced, fromHub, wrote, hungUp, cut, torn>>

\* An end's connection breaks, at any moment, or its process ends with frames it has not sent:
\* the client's does so right after Pipe returns.
Tears(e) ==
  /\ torn' = TRUE
  /\ copying' = copying \ {e}
  /\ \E k \in 0..Len(toHub[e]) : toHub' = [toHub EXCEPT ![e] = SubSeq(@, 1, k)]
  /\ fromHub' = [fromHub EXCEPT ![Other(e)] = <<>>]
  /\ UNCHANGED <<read, pumping, spliced, wrote, hungUp, cut>>

-----------------------------------------------------------------------------
(* The validator.                                                          *)

Pumps(e) ==
  /\ spliced /\ e \in pumping /\ toHub[e] # <<>>
  /\ toHub' = [toHub EXCEPT ![e] = Tail(@)]
  /\ fromHub' = [fromHub EXCEPT ![e] = IF torn /\ Other(e) \notin copying THEN @
                                       ELSE Append(@, Head(toHub[e]))]
  /\ pumping' = IF Head(toHub[e]) = Close THEN pumping \ {e} ELSE pumping
  /\ UNCHANGED <<copying, read, spliced, wrote, hungUp, cut, torn>>

\* Recv or Send gives the error of a stream that broke.
PumpFails(e) ==
  /\ spliced /\ torn /\ e \in pumping
  /\ pumping' = pumping \ {e}
  /\ UNCHANGED <<copying, read, toHub, spliced, fromHub, wrote, hungUp, cut, torn>>

\* The first pump to return ends the splice, and both handlers with it: what the other has
\* not forwarded by now goes nowhere.
Unsplices ==
  /\ spliced /\ pumping # Sides
  /\ spliced' = FALSE
  /\ toHub' = [e \in Sides |-> <<>>]
  /\ UNCHANGED <<copying, read, pumping, fromHub, wrote, hungUp, cut, torn>>

-----------------------------------------------------------------------------
TunnelNext ==
  \/ Unsplices
  \/ \E e \in Sides :
       \/ ReadsProgram(e) \/ SendEnds(e) \/ HangsUp(e) \/ WritesProgram(e)
       \/ HubHasReturned(e) \/ Tears(e) \/ Pumps(e) \/ PumpFails(e)

TunnelSpec == TunnelInit /\ [][TunnelNext]_tunnelVars
-----------------------------------------------------------------------------
(* Properties.                                                             *)

\* Nothing is repeated, reordered or left out in the middle; and when one side hangs up while
\* the other is still open and nothing breaks, the other does not return before it has
\* written all that the first had said, unless it is itself sending to the stream that has ended.
\* (What the other was saying may be lost.)
LastWordsArrive ==
  \A e \in Sides :
    /\ IsPrefix(wrote[e], Chunks(read[e]))
    /\ hungUp = {e} /\ ~torn /\ Other(e) \notin copying \cup cut => wrote[e] = Chunks(read[e])
=============================================================================
