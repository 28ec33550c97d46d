-------------------------------- MODULE Relay --------------------------------
(***************************************************************************)
(* What a proxied pair promises its two ends: a byte stream each way. What *)
(* an end has written and the other has not yet read is in transit, in     *)
(* order; a close may cut the tail off what is in transit, and nothing     *)
(* else ever happens to a stream. Module ProxyPair implements this.        *)
(***************************************************************************)
EXTENDS Naturals, Sequences

CONSTANT Bytes   \* what an end may write

Sides == {"client", "backend"}

VARIABLES
  transit,    \* transit[s]: the bytes from s that the other end has not read
  received,   \* received[s]: the bytes that s has read
  open        \* the proxy has not closed the pair

vars == <<transit, received, open>>

Other(s) == IF s = "client" THEN "backend" ELSE "client"

Init ==
  /\ transit = [s \in Sides |-> <<>>]
  /\ received = [s \in Sides |-> <<>>]
  /\ open = TRUE

\* End s writes a byte.
Send(s) ==
  /\ open
  /\ \E byte \in Bytes : transit' = [transit EXCEPT ![s] = Append(@, byte)]
  /\ UNCHANGED <<received, open>>

\* End s reads the oldest byte in transit to it.
Receive(s) ==
  /\ transit[Other(s)] # <<>>
  /\ received' = [received EXCEPT ![s] = Append(@, Head(transit[Other(s)]))]
  /\ transit' = [transit EXCEPT ![Other(s)] = Tail(@)]
  /\ UNCHANGED open

\* The proxy closes both sides: only what it had already handed over is kept.
Close ==
  /\ open /\ ~ open'
  /\ transit' \in [Sides -> Seq(Bytes)]
  /\ \A s \in Sides : \E kept \in 0 .. Len(transit[s]) :
       transit'[s] = SubSeq(transit[s], 1, kept)
  /\ UNCHANGED received

Next == Close \/ \E s \in Sides : Send(s) \/ Receive(s)

Spec == Init /\ [][Next]_vars
=============================================================================
