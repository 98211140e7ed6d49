SPECIFICATION Spec

CONSTANTS
  s1 = s1  s2 = s2  s3 = s3  s4 = s4
  k1 = k1  k2 = k2  k3 = k3
  e1 = e1  e2 = e2  e3 = e3
  idA = idA  idB = idB
  NoSession = NoSession
  NoConnection = NoConnection
  Sources = {s1, s2, s3, s4}
  Sinks = {k1, k2, k3}
  EndPoints = {e1, e2, e3}
  SessionIds = {NoSession, idA, idB}
  EndPoint <- SomeEndPoint
  Requestable <- SomeSession

INVARIANT
  PairedSinksAlive
