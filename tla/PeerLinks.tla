------------------------------ MODULE PeerLinks ------------------------------
(***************************************************************************)
(* What the signaling between the gateway, a stream source and the viewers *)
(* is for, without messages: the gateway pairs a source with one viewer    *)
(* after another; the source makes connection attempts, each for the last  *)
(* pairing it knows of; and an attempt leads to a peer-to-peer connection  *)
(* with the viewer of that pairing, or of a later one, but never to one    *)
(* with the viewer of an earlier pairing.  Negotiation implements it.      *)
(***************************************************************************)
EXTENDS Naturals, Sequences

CONSTANTS Sources, Sinks, Nobody

VARIABLES paired,          \* the viewers each source was paired with, in order
          since,           \* the pairing each source's attempt is made for
          link             \* the viewer each source is connected with

vars == <<paired, since, link>>

Init ==
  /\ paired = [s \in Sources |-> <<>>]
  /\ since = [s \in Sources |-> 0]
  /\ link = [s \in Sources |-> Nobody]

\* Several sources may be paired at once, each with one viewer.
Pair(made) ==
  /\ paired' = [s \in Sources |-> IF s \in DOMAIN made
                                  THEN Append(paired[s], made[s]) ELSE paired[s]]
  /\ UNCHANGED <<since, link>>

\* A new attempt ends the connection there is.
Attempt(s, n) ==
  /\ n \in since[s] .. Len(paired[s])
  /\ since' = [since EXCEPT ![s] = n]
  /\ link' = [link EXCEPT ![s] = Nobody]
  /\ UNCHANGED paired

Connect(s, n) ==
  /\ n \in since[s] .. Len(paired[s]) \ {0}
  /\ link[s] = Nobody
  /\ link' = [link EXCEPT ![s] = paired[s][n]]
  /\ UNCHANGED <<paired, since>>

\* A viewer that closes its peer connection may have been several sources'.
Disconnect(lost) ==
  /\ link' = [s \in Sources |-> IF s \in lost THEN Nobody ELSE link[s]]
  /\ UNCHANGED <<paired, since>>

Next ==
  \/ \E some \in SUBSET Sources : \E made \in [some -> Sinks] : Pair(made)
  \/ \E s \in Sources : \E n \in 0 .. Len(paired[s]) :
       Attempt(s, n) \/ Connect(s, n)
  \/ \E lost \in SUBSET Sources : Disconnect(lost)

Spec == Init /\ [][Next]_vars
=============================================================================
