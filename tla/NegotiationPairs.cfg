SPECIFICATION FairSpec

CONSTANTS
  s1 = s1  k1 = k1  k2 = k2
  e1 = e1  e2 = e2
  NoSession = NoSession
  NoConnection = NoConnection
  Nobody = Nobody
  Sources = {s1}
  Sinks = {k1, k2}
  EndPoints = {e1, e2}
  SessionIds = {NoSession}
  EndPoint <- OwnEndPoint
  Requestable <- AnySession
  Bounds <- SomeBounds

INVARIANTS
  NegotiationTypeOK

PROPERTIES
  LinksPartners
  Negotiates
  OutlivesLateAnswers

\* The clients may stay connected and have nothing more to do.
CHECK_DEADLOCK FALSE
