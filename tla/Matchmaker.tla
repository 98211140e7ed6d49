----------------------------- MODULE Matchmaker -----------------------------
(***************************************************************************)
(* The gateway's matchmaker and the two web socket repositories that feed  *)
(* it: warp-gateway/Session/Matchmaker.cs and                              *)
(* warp-gateway/Messaging/WebSocketRepository.cs.                          *)
(*                                                                         *)
(* A stream is accepted by a controller, turns into a connection with its  *)
(* ConnectionRequest, and leaves when its socket closes.  The matchmaker   *)
(* keeps the connections it has no partner for in two dictionaries keyed   *)
(* by end point, and the pairs it made in a list.  Its four handlers run   *)
(* under one lock, and a stream raises its own events one after another,   *)
(* so each handler is one step.                                            *)
(*                                                                         *)
(* Two orders are left open, which only adds behaviours: the order in      *)
(* which a Dictionary enumerates its values, and which of several pairs    *)
(* of one sink List.FirstOrDefault finds.                                  *)
(***************************************************************************)
EXTENDS Naturals, FiniteSets

CONSTANTS Sources,         \* connections accepted by the source controller
          Sinks,           \* connections accepted by the sink controller
          EndPoints,       \* "address:port" strings
          EndPoint,        \* the end point each connection is seen at
          SessionIds,      \* GUIDs
          NoSession,       \* Guid.Empty
          Requestable,     \* the session ids each connection may ask for
          NoConnection     \* marks a key absent from a dictionary

Connections == Sources \cup Sinks

ASSUME RolesAssumption == Sources \cap Sinks = {}
ASSUME EndPointAssumption == EndPoint \in [Connections -> EndPoints]
ASSUME SessionAssumption == /\ NoSession \in SessionIds
                            /\ Requestable \in [Connections -> SUBSET SessionIds]
ASSUME AbsentAssumption == NoConnection \notin Connections

VARIABLES connection,      \* how far each web socket has got
          session,         \* WebSocketConnection.SessionId
          freeSources,     \* _freeSources: end point -> connection
          freeSinks,       \* _freeSinks: end point -> connection
          pairs            \* _pairs, the SourceSinkPairs not disposed

vars == <<connection, session, freeSources, freeSinks, pairs>>

Pair == [source : Sources, sink : Sinks]

-----------------------------------------------------------------------------
Values(dictionary) == {dictionary[e] : e \in EndPoints} \ {NoConnection}

Put(dictionary, c) == [dictionary EXCEPT ![EndPoint[c]] = c]

\* Dictionary.Remove(c.EndPoint): takes out whatever is stored at that key.
RemoveKey(dictionary, c) == [dictionary EXCEPT ![EndPoint[c]] = NoConnection]

HasKey(dictionary, c) == dictionary[EndPoint[c]] # NoConnection

Without(dictionary, taken) ==
  [e \in EndPoints |-> IF dictionary[e] \in taken THEN NoConnection
                                                  ELSE dictionary[e]]

Held == Values(freeSources) \cup Values(freeSinks)
          \cup {p.source : p \in pairs} \cup {p.sink : p \in pairs}

-----------------------------------------------------------------------------
Init ==
  /\ connection = [c \in Connections |-> "closed"]
  /\ session = [c \in Connections |-> NoSession]
  /\ freeSources = [e \in EndPoints |-> NoConnection]
  /\ freeSinks = [e \in EndPoints |-> NoConnection]
  /\ pairs = {}

\* Mutant: a viewer without a session is shown every source.
Fits_OpenSinks(id, s, k) ==
  id[s] = NoSession \/ id[k] = NoSession \/ id[k] = id[s]

\* The predicate of the sink search, id being the session ids known.
Fits(id, s, k) == id[s] = NoSession \/ id[k] = id[s]

(***************************************************************************)
(* The loop of PairSourcesAndSinks walks a snapshot of the free sources    *)
(* and gives each the first fitting sink of a snapshot of the free sinks.  *)
(* FirstFits holds the results the possible enumeration orders lead to:    *)
(* the snapshot is not updated in the loop, so two sources that could take *)
(* each other's sink stop at the same one.                                 *)
(***************************************************************************)
FirstFits(id, sources, sinks) ==
  LET Matched == {s \in sources : \E k \in sinks : Fits(id, s, k)}
  IN  {f \in [Matched -> sinks] :
         /\ \A s \in Matched : Fits(id, s, f[s])
         /\ \A s, t \in Matched :
              Fits(id, s, f[t]) /\ Fits(id, t, f[s]) => f[s] = f[t]}

\* Mutants: the paired sources stay free; the paired sinks stay free; the
\* loop ends with the first pair it makes.
PairSourcesAndSinks_KeepsSources(id, sources, sinks) ==
  \E f \in FirstFits(id, Values(sources), Values(sinks)) :
    /\ pairs' = pairs \cup {[source |-> s, sink |-> f[s]] : s \in DOMAIN f}
    /\ freeSources' = sources
    /\ freeSinks' = Without(sinks, {f[s] : s \in DOMAIN f})

PairSourcesAndSinks_KeepsSinks(id, sources, sinks) ==
  \E f \in FirstFits(id, Values(sources), Values(sinks)) :
    /\ pairs' = pairs \cup {[source |-> s, sink |-> f[s]] : s \in DOMAIN f}
    /\ freeSources' = Without(sources, DOMAIN f)
    /\ freeSinks' = sinks

PairSourcesAndSinks_OnePair(id, sources, sinks) ==
  \E f \in FirstFits(id, Values(sources), Values(sinks)) :
    \E first \in SUBSET DOMAIN f :
      /\ first = {} <=> DOMAIN f = {}
      /\ \A s, t \in first : s = t
      /\ pairs' = pairs \cup {[source |-> s, sink |-> f[s]] : s \in first}
      /\ freeSources' = Without(sources, first)
      /\ freeSinks' = Without(sinks, {f[s] : s \in first})

\* `sources` and `sinks` are the dictionaries with the caller's insertion.
PairSourcesAndSinks(id, sources, sinks) ==
  \E f \in FirstFits(id, Values(sources), Values(sinks)) :
    /\ pairs' = pairs \cup {[source |-> s, sink |-> f[s]] : s \in DOMAIN f}
    /\ freeSources' = Without(sources, DOMAIN f)
    /\ freeSinks' = Without(sinks, {f[s] : s \in DOMAIN f})

-----------------------------------------------------------------------------
\* WebSocketController.Connect: the stream is accepted and registered.  The
\* name of a closed connection nobody holds stands for a new one.
Connect(c) ==
  /\ connection[c] = "closed"
  /\ c \notin Held
  /\ connection' = [connection EXCEPT ![c] = "open"]
  /\ UNCHANGED <<session, freeSources, freeSinks, pairs>>

\* OnStreamMessageReceived: the client's one ConnectionRequest turns the
\* stream into a connection with the session id it asks for.
Request(c, id) ==
  /\ connection[c] = "open"
  /\ id \in Requestable[c]
  /\ connection' = [connection EXCEPT ![c] = "connected"]
  /\ session' = [session EXCEPT ![c] = id]

OnSourceAdded(s, id) ==
  /\ Request(s, id)
  /\ PairSourcesAndSinks([session EXCEPT ![s] = id],
                         Put(freeSources, s), freeSinks)

OnSinkAdded(k, id) ==
  /\ Request(k, id)
  /\ PairSourcesAndSinks([session EXCEPT ![k] = id],
                         freeSources, Put(freeSinks, k))

\* OnStreamDisconnected of a stream that never sent its request.
Abandon(c) ==
  /\ connection[c] = "open"
  /\ connection' = [connection EXCEPT ![c] = "closed"]
  /\ UNCHANGED <<session, freeSources, freeSinks, pairs>>

\* OnStreamDisconnected of a connection: TryRemove, then ConnectionRemoved.
Disconnect(c) ==
  /\ connection[c] = "connected"
  /\ connection' = [connection EXCEPT ![c] = "closed"]
  /\ UNCHANGED session

\* Mutants: a source that leaves while free is only looked for in the pairs;
\* the sink of its pair is dropped; every pair of that sink is removed.
OnSourceRemoved_OnlyPairs(s) ==
  /\ Disconnect(s)
  /\ UNCHANGED freeSources
  /\ \/ \E p \in pairs : /\ p.source = s
                         /\ pairs' = pairs \ {p}
                         /\ freeSinks' = Put(freeSinks, p.sink)
     \/ /\ \A p \in pairs : p.source # s
        /\ UNCHANGED <<freeSinks, pairs>>

OnSourceRemoved_DropsSink(s) ==
  /\ Disconnect(s)
  /\ freeSources' = IF HasKey(freeSources, s) THEN RemoveKey(freeSources, s)
                                              ELSE freeSources
  /\ UNCHANGED freeSinks
  /\ pairs' = IF HasKey(freeSources, s) THEN pairs
                                        ELSE {p \in pairs : p.source # s}

OnSourceRemoved_AllPairsOfSink(s) ==
  /\ Disconnect(s)
  /\ ~ HasKey(freeSources, s)
  /\ UNCHANGED freeSources
  /\ \E p \in pairs : /\ p.source = s
                      /\ pairs' = {q \in pairs : q.sink # p.sink}
                      /\ freeSinks' = Put(freeSinks, p.sink)

\* A removed source gives the sink of its pair back to the free sinks; the
\* free connections are not searched again.
OnSourceRemoved(s) ==
  /\ Disconnect(s)
  /\ IF HasKey(freeSources, s)
       THEN /\ freeSources' = RemoveKey(freeSources, s)
            /\ UNCHANGED <<freeSinks, pairs>>
       ELSE /\ UNCHANGED freeSources
            /\ \/ \E p \in pairs : /\ p.source = s
                                   /\ pairs' = pairs \ {p}
                                   /\ freeSinks' = Put(freeSinks, p.sink)
               \/ /\ \A p \in pairs : p.source # s
                  /\ UNCHANGED <<freeSinks, pairs>>

\* Mutants: the removed sink itself goes to the free sources; a sink that
\* leaves while free is only looked for in the pairs.
OnSinkRemoved_FreesSink(k) ==
  /\ Disconnect(k)
  /\ ~ HasKey(freeSinks, k)
  /\ UNCHANGED freeSinks
  /\ \E p \in pairs : /\ p.sink = k
                      /\ pairs' = pairs \ {p}
                      /\ freeSources' = Put(freeSources, p.sink)

OnSinkRemoved_OnlyPairs(k) ==
  /\ Disconnect(k)
  /\ UNCHANGED freeSinks
  /\ \/ \E p \in pairs : /\ p.sink = k
                         /\ pairs' = pairs \ {p}
                         /\ freeSources' = Put(freeSources, p.source)
     \/ /\ \A p \in pairs : p.sink # k
        /\ UNCHANGED <<freeSources, pairs>>

OnSinkRemoved(k) ==
  /\ Disconnect(k)
  /\ IF HasKey(freeSinks, k)
       THEN /\ freeSinks' = RemoveKey(freeSinks, k)
            /\ UNCHANGED <<freeSources, pairs>>
       ELSE /\ UNCHANGED freeSinks
            /\ \/ \E p \in pairs : /\ p.sink = k
                                   /\ pairs' = pairs \ {p}
                                   /\ freeSources' = Put(freeSources, p.source)
               \/ /\ \A p \in pairs : p.sink # k
                  /\ UNCHANGED <<freeSources, pairs>>

Next ==
  \/ \E c \in Connections : Connect(c) \/ Abandon(c)
  \/ \E s \in Sources : \/ \E id \in SessionIds : OnSourceAdded(s, id)
                        \/ OnSourceRemoved(s)
  \/ \E k \in Sinks : \/ \E id \in SessionIds : OnSinkAdded(k, id)
                      \/ OnSinkRemoved(k)

Spec == Init /\ [][Next]_vars

-----------------------------------------------------------------------------
(***************************************************************************)
(* What some properties need of a connection.  One that is accepted        *)
(* directly has an end point of its own; behind a reverse proxy that       *)
(* forwards addresses without ports (ForwardedHeaders, wormhole/           *)
(* Program.cs:39) it may not.  A sink whose session only one source        *)
(* streams to has one suitor.                                              *)
(***************************************************************************)
HasOwnEndPoint(c) ==
  \A other \in (IF c \in Sources THEN Sources ELSE Sinks) \ {c} :
    EndPoint[other] # EndPoint[c]

Suitors(k) == {s \in Sources : \/ NoSession \in Requestable[s]
                              \/ Requestable[s] \cap Requestable[k] # {}}

HasOneSuitor(k) == \A s, t \in Suitors(k) : s = t

TypeOK ==
  /\ connection \in [Connections -> {"closed", "open", "connected"}]
  /\ session \in [Connections -> SessionIds]
  /\ freeSources \in [EndPoints -> Sources \cup {NoConnection}]
  /\ freeSinks \in [EndPoints -> Sinks \cup {NoConnection}]
  /\ pairs \subseteq Pair

\* A source streams to one viewer at most: it is in at most one pair, and
\* not waiting for a partner while it is in one (Matchmaker.cs:112-184).
SourceHeldOnce ==
  /\ \A p, q \in pairs : p.source = q.source => p = q
  /\ \A p \in pairs : p.source \notin Values(freeSources)

\* The matchmaker keeps no source that has gone: whichever of the free list
\* and the pairs it is in, OnSourceRemoved finds it, unless another source
\* is stored under its end point (Matchmaker.cs:112-125).
SourcesAlive ==
  \A s \in Sources :
    HasOwnEndPoint(s) /\ s \in Values(freeSources) \cup {p.source : p \in pairs}
      => connection[s] = "connected"

\* No connection gets lost between the lists: while its socket is up it is
\* waiting for a partner or in a pair, unless it is overwritten by another
\* with its end point (Matchmaker.cs:103-184).
NobodyLost ==
  \A c \in Connections :
    HasOwnEndPoint(c) /\ connection[c] = "connected" => c \in Held

\* A source that asks for a session is only ever shown to viewers of that
\* session, however often both sides are paired anew (Matchmaker.cs:175).
PairsFit ==
  \A p \in pairs :
    session[p.source] # NoSession => session[p.sink] = session[p.source]

\* A pair whose two ends are connected survives everything that happens to
\* other connections (Matchmaker.cs:112-164).
PairsKept ==
  [][\A p \in pairs \ pairs' :
       "closed" \in {connection'[p.source], connection'[p.sink]}]_vars

\* After a connection is added no source waits beside a sink it could have:
\* the loop leaves out no source a sink is there for (Matchmaker.cs:166-184).
Waiting(id, sources, sinks) ==
  \E s \in Values(sources), k \in Values(sinks) : Fits(id, s, k)

AddingSettles ==
  [][(\E c \in Connections : /\ connection[c] = "open"
                             /\ connection'[c] = "connected")
       => ~ Waiting(session', freeSources', freeSinks')]_vars

\* A viewer only one source can stream to is in at most one pair, and not
\* waiting while in it, whatever happens to the viewers that several sources
\* are given (Matchmaker.cs:136-184).
SinkHeldOnce ==
  \A p \in pairs : HasOneSuitor(p.sink) =>
    /\ p.sink \notin Values(freeSinks)
    /\ \A q \in pairs : p.sink = q.sink => p = q

\* Such a viewer is not kept or paired once it has gone
\* (Matchmaker.cs:136-164).
SinksAlive ==
  \A k \in Sinks :
    HasOwnEndPoint(k) /\ HasOneSuitor(k) /\ k \in Values(freeSinks) \cup {p.sink : p \in pairs}
      => connection[k] = "connected"

\* readme.md:37 "allows the stream source and sink to establish a peer-to
\* peer-connection": a source is not kept in a pair with a sink that left.
PairedSinksAlive == \A p \in pairs : connection[p.sink] = "connected"
=============================================================================
