---------------------------- MODULE MCMatchmaker ----------------------------
(* An instance of Matchmaker for TLC.                                      *)
EXTENDS Matchmaker

CONSTANTS s1, s2, s3, s4, k1, k2, k3, e1, e2, e3, idA, idB

\* s3 and s4 are seen at one end point, as behind a proxy; the others have
\* end points of their own.
SomeEndPoint == [c \in Connections |-> IF c \in {s1, k1} THEN e1
                                       ELSE IF c \in {s2, k2} THEN e2
                                       ELSE e3]

\* One source streams to any viewer or to a session others stream to as well,
\* s4 to a session of its own; s1 is the only suitor of k3.
SomeSession == [c \in Connections |-> IF c \in {s1, k1} THEN {NoSession, idA}
                                      ELSE IF c = s4 THEN {idB}
                                      ELSE IF c = k2 THEN {idA, idB}
                                      ELSE IF c = k3 THEN {NoSession}
                                      ELSE {idA}]
=============================================================================
