---------------------------- MODULE MCNegotiation ----------------------------
(* An instance of Negotiation for TLC: one source, whose socket may close    *)
(* and open again, and viewers that come once.                             *)
EXTENDS Negotiation

CONSTANTS s1, k1, k2, e1, e2

OwnEndPoint == [c \in Connections |-> IF c = k2 THEN e2 ELSE e1]

AnySession == [c \in Connections |-> {NoSession}]

\* The source's socket closes once and a timeout comes early: the next attempt
\* may get the answer to the one before, and an attempt may be made before the
\* viewer knows of its pairing, so the third retry is the one that is left.
SourceReturns ==
  [visits |-> [c \in Connections |-> IF c = k2 THEN 0
                                     ELSE IF c = s1 THEN 2 ELSE 1],
   retries |-> 3, early |-> 1]

\* One viewer follows another.
ViewerFollows ==
  [visits |-> [c \in Connections |-> 1], retries |-> 1, early |-> 0]

SomeBounds == {SourceReturns, ViewerFollows}
=============================================================================
