-------------------------- MODULE MatchmakerProofs --------------------------
(***************************************************************************)
(* Theorems about the matchmaker, for any connections, end points and      *)
(* session ids.  The proofs go through three layers: what the operations   *)
(* on the dictionaries do to their values, what one run of the pairing     *)
(* loop does, and the induction over the handlers.                         *)
(***************************************************************************)
EXTENDS Matchmaker, TLAPS

(***************************************************************************)
(* SourceHeldOnce is not inductive: Connect could name a source that is    *)
(* still in a list.  NewNotHeld says that a stream that has not sent its   *)
(* request is in none.                                                     *)
(***************************************************************************)
NewNotHeld == \A c \in Connections : connection[c] = "open" => c \notin Held

SourceInv == TypeOK /\ SourceHeldOnce /\ NewNotHeld

-----------------------------------------------------------------------------
\* The dictionaries: an insertion adds at most the connection inserted, a
\* removal adds nothing, and Without takes out exactly the values named.
LEMMA PutValues ==
  ASSUME NEW S \in SUBSET Connections, NEW c \in S,
         NEW d \in [EndPoints -> S \cup {NoConnection}]
  PROVE  /\ Put(d, c) \in [EndPoints -> S \cup {NoConnection}]
         /\ Values(Put(d, c)) \subseteq Values(d) \cup {c}
         /\ c \in Values(Put(d, c))
  BY EndPointAssumption, AbsentAssumption DEF Put, Values

\* TryRemove leaves the other entries (Matchmaker.cs:116).
LEMMA RemoveKeyValues ==
  ASSUME NEW S \in SUBSET Connections, NEW c \in Connections,
         NEW d \in [EndPoints -> S \cup {NoConnection}]
  PROVE  /\ RemoveKey(d, c) \in [EndPoints -> S \cup {NoConnection}]
         /\ Values(RemoveKey(d, c)) \subseteq Values(d)
  BY EndPointAssumption, AbsentAssumption DEF RemoveKey, Values

\* A pairing takes its connection out of the dictionary and leaves the others
\* (Matchmaker.cs:181).
LEMMA WithoutValues ==
  ASSUME NEW S \in SUBSET Connections, NEW taken,
         NEW d \in [EndPoints -> S \cup {NoConnection}]
  PROVE  /\ Without(d, taken) \in [EndPoints -> S \cup {NoConnection}]
         /\ Values(Without(d, taken)) = Values(d) \ taken
  BY AbsentAssumption DEF Without, Values

\* What a dictionary holds has the type of its entries.
LEMMA ValuesType ==
  ASSUME NEW S \in SUBSET Connections,
         NEW d \in [EndPoints -> S \cup {NoConnection}]
  PROVE  Values(d) \in SUBSET S
  BY DEF Values

-----------------------------------------------------------------------------
\* One run of the pairing loop over sources that are in no pair yet: each
\* ends in at most one place, and nobody is held that was not before.
LEMMA PairingLoop ==
  ASSUME NEW id,
         NEW sources \in [EndPoints -> Sources \cup {NoConnection}],
         NEW sinks \in [EndPoints -> Sinks \cup {NoConnection}],
         pairs \subseteq Pair,
         \A p, q \in pairs : p.source = q.source => p = q,
         \A p \in pairs : p.source \notin Values(sources),
         PairSourcesAndSinks(id, sources, sinks)
  PROVE  /\ freeSources' \in [EndPoints -> Sources \cup {NoConnection}]
         /\ freeSinks' \in [EndPoints -> Sinks \cup {NoConnection}]
         /\ pairs' \subseteq Pair
         /\ SourceHeldOnce'
         /\ Held' \subseteq Values(sources) \cup Values(sinks)
              \cup {p.source : p \in pairs} \cup {p.sink : p \in pairs}
<1>1. PICK f \in FirstFits(id, Values(sources), Values(sinks)) :
        /\ pairs' = pairs \cup {[source |-> s, sink |-> f[s]] : s \in DOMAIN f}
        /\ freeSources' = Without(sources, DOMAIN f)
        /\ freeSinks' = Without(sinks, {f[s] : s \in DOMAIN f})
  BY DEF PairSourcesAndSinks
<1>2. /\ DOMAIN f \subseteq Values(sources)
      /\ \A s \in DOMAIN f : f[s] \in Values(sinks)
  BY <1>1 DEF FirstFits
<1>3. Values(sources) \in SUBSET Sources /\ Values(sinks) \in SUBSET Sinks
  BY ValuesType DEF Connections
<1>4. /\ freeSources' \in [EndPoints -> Sources \cup {NoConnection}]
      /\ Values(freeSources)' = Values(sources) \ DOMAIN f
  <2>1. Values(freeSources)' = Values(freeSources')
    BY DEF Values
  <2>2. Sources \in SUBSET Connections
    BY DEF Connections
  <2>3. QED BY <1>1, <2>1, <2>2, WithoutValues
<1>5. /\ freeSinks' \in [EndPoints -> Sinks \cup {NoConnection}]
      /\ Values(freeSinks)' \subseteq Values(sinks)
  <2>1. Values(freeSinks)' = Values(freeSinks')
    BY DEF Values
  <2>2. Sinks \in SUBSET Connections
    BY DEF Connections
  <2>3. QED BY <1>1, <2>1, <2>2, WithoutValues
<1>6. pairs' \subseteq Pair
  BY <1>1, <1>2, <1>3 DEF Pair
<1>7. SourceHeldOnce'
  <2>1. \A p, q \in pairs' : p.source = q.source => p = q
    BY <1>1, <1>2
  <2>2. \A p \in pairs' : p.source \notin Values(freeSources)'
    BY <1>1, <1>2, <1>4
  <2>3. QED BY <2>1, <2>2 DEF SourceHeldOnce
<1>8. Held' \subseteq Values(sources) \cup Values(sinks)
              \cup {p.source : p \in pairs} \cup {p.sink : p \in pairs}
  BY <1>1, <1>2, <1>4, <1>5 DEF Held
<1>9. QED BY <1>4, <1>5, <1>6, <1>7, <1>8

-----------------------------------------------------------------------------
\* The matchmaker starts with empty dictionaries and no pairs.
LEMMA SourceInvInit == Init => SourceInv
  BY SessionAssumption
     DEF Init, SourceInv, TypeOK, SourceHeldOnce, NewNotHeld, Held, Values

\* What Request does to the statuses, shared by both kinds of connection.
LEMMA RequestTypes ==
  ASSUME TypeOK, NEW c \in Connections, NEW id \in SessionIds, Request(c, id)
  PROVE  /\ connection' \in [Connections -> {"closed", "open", "connected"}]
         /\ session' \in [Connections -> SessionIds]
  BY DEF TypeOK, Request

\* Every event of a connection, with the handler it ends in, preserves the
\* source invariant (Matchmaker.cs:103-184).
LEMMA SourceInvNext == SourceInv /\ [Next]_vars => SourceInv'
<1> SUFFICES ASSUME SourceInv, [Next]_vars PROVE SourceInv'
  OBVIOUS
<1> USE DEF SourceInv
<1>1. ASSUME NEW c \in Connections, Connect(c) PROVE SourceInv'
  <2>1. Held' = Held /\ SourceHeldOnce'
    BY <1>1 DEF Connect, Held, SourceHeldOnce, Values
  <2>2. TypeOK'
    BY <1>1 DEF Connect, TypeOK
  <2>3. NewNotHeld'
    BY <1>1, <2>1 DEF Connect, NewNotHeld, TypeOK
  <2>4. QED BY <2>1, <2>2, <2>3
<1>2. ASSUME NEW c \in Connections, Abandon(c) PROVE SourceInv'
  <2>1. Held' = Held /\ SourceHeldOnce'
    BY <1>2 DEF Abandon, Held, SourceHeldOnce, Values
  <2>2. TypeOK'
    BY <1>2 DEF Abandon, TypeOK
  <2>3. NewNotHeld'
    BY <1>2, <2>1 DEF Abandon, NewNotHeld, TypeOK
  <2>4. QED BY <2>1, <2>2, <2>3
<1>3. ASSUME NEW s \in Sources, NEW id \in SessionIds, OnSourceAdded(s, id)
      PROVE SourceInv'
  <2> DEFINE sources == Put(freeSources, s)
  <2>1. /\ sources \in [EndPoints -> Sources \cup {NoConnection}]
        /\ Values(sources) \subseteq Values(freeSources) \cup {s}
    BY PutValues DEF TypeOK, Connections
  <2>2. s \in Connections /\ s \notin Held
    BY <1>3 DEF OnSourceAdded, Request, NewNotHeld, Connections
  <2>3. \A p \in pairs : p.source \notin Values(sources)
    BY <2>1, <2>2 DEF Held, SourceHeldOnce
  <2>4. /\ freeSources' \in [EndPoints -> Sources \cup {NoConnection}]
        /\ freeSinks' \in [EndPoints -> Sinks \cup {NoConnection}]
        /\ pairs' \subseteq Pair
        /\ SourceHeldOnce'
        /\ Held' \subseteq Held \cup {s}
    <3>1. PairSourcesAndSinks([session EXCEPT ![s] = id], sources, freeSinks)
      BY <1>3 DEF OnSourceAdded
    <3> HIDE DEF sources
    <3>2. /\ freeSources' \in [EndPoints -> Sources \cup {NoConnection}]
          /\ freeSinks' \in [EndPoints -> Sinks \cup {NoConnection}]
          /\ pairs' \subseteq Pair
          /\ SourceHeldOnce'
          /\ Held' \subseteq Values(sources) \cup Values(freeSinks)
               \cup {p.source : p \in pairs} \cup {p.sink : p \in pairs}
      BY <2>1, <2>3, <3>1, PairingLoop DEF TypeOK, SourceHeldOnce
    <3>3. QED BY <3>2, <2>1 DEF Held
  <2>5. TypeOK'
    BY <1>3, <2>2, <2>4, RequestTypes DEF OnSourceAdded, TypeOK
  <2>6. NewNotHeld'
    BY <1>3, <2>2, <2>4 DEF OnSourceAdded, Request, NewNotHeld, TypeOK
  <2>7. QED BY <2>4, <2>5, <2>6
<1>4. ASSUME NEW k \in Sinks, NEW id \in SessionIds, OnSinkAdded(k, id)
      PROVE SourceInv'
  <2> DEFINE sinks == Put(freeSinks, k)
  <2>1. /\ sinks \in [EndPoints -> Sinks \cup {NoConnection}]
        /\ Values(sinks) \subseteq Values(freeSinks) \cup {k}
    BY PutValues DEF TypeOK, Connections
  <2>2. k \in Connections
    BY DEF Connections
  <2>3. /\ freeSources' \in [EndPoints -> Sources \cup {NoConnection}]
        /\ freeSinks' \in [EndPoints -> Sinks \cup {NoConnection}]
        /\ pairs' \subseteq Pair
        /\ SourceHeldOnce'
        /\ Held' \subseteq Held \cup {k}
    <3>1. PairSourcesAndSinks([session EXCEPT ![k] = id], freeSources, sinks)
      BY <1>4 DEF OnSinkAdded
    <3> HIDE DEF sinks
    <3>2. /\ freeSources' \in [EndPoints -> Sources \cup {NoConnection}]
          /\ freeSinks' \in [EndPoints -> Sinks \cup {NoConnection}]
          /\ pairs' \subseteq Pair
          /\ SourceHeldOnce'
          /\ Held' \subseteq Values(freeSources) \cup Values(sinks)
               \cup {p.source : p \in pairs} \cup {p.sink : p \in pairs}
      BY <2>1, <3>1, PairingLoop DEF TypeOK, SourceHeldOnce
    <3>3. QED BY <3>2, <2>1 DEF Held
  <2>4. TypeOK'
    BY <1>4, <2>2, <2>3, RequestTypes DEF OnSinkAdded, TypeOK
  <2>5. NewNotHeld'
    BY <1>4, <2>2, <2>3 DEF OnSinkAdded, Request, NewNotHeld, TypeOK
  <2>6. QED BY <2>3, <2>4, <2>5
<1>5. ASSUME NEW s \in Sources, OnSourceRemoved(s) PROVE SourceInv'
  <2>1. TypeOK' /\ SourceHeldOnce' /\ Held' \subseteq Held
    <3>1. CASE HasKey(freeSources, s)
      <4>1. /\ freeSources' = RemoveKey(freeSources, s)
            /\ UNCHANGED <<freeSinks, pairs, session>>
        BY <1>5, <3>1 DEF OnSourceRemoved, Disconnect
      <4>2. /\ freeSources' \in [EndPoints -> Sources \cup {NoConnection}]
            /\ Values(freeSources)' \subseteq Values(freeSources)
        <5>1. Values(freeSources)' = Values(freeSources')
          BY DEF Values
        <5>2. Sources \in SUBSET Connections /\ s \in Connections
          BY DEF Connections
        <5>3. freeSources \in [EndPoints -> Sources \cup {NoConnection}]
          BY DEF TypeOK
        <5>4. QED BY <4>1, <5>1, <5>2, <5>3, RemoveKeyValues
      <4>3. Values(freeSinks)' = Values(freeSinks)
        BY <4>1 DEF Values
      <4>4. TypeOK'
        BY <1>5, <4>1, <4>2 DEF OnSourceRemoved, Disconnect, TypeOK
      <4>5. QED BY <4>1, <4>2, <4>3, <4>4 DEF SourceHeldOnce, Held
    <3>2. CASE /\ UNCHANGED <<freeSources, session>>
               /\ \E p \in pairs : /\ p.source = s
                                   /\ pairs' = pairs \ {p}
                                   /\ freeSinks' = Put(freeSinks, p.sink)
      <4>1. PICK p \in pairs : /\ pairs' = pairs \ {p}
                               /\ freeSinks' = Put(freeSinks, p.sink)
        BY <3>2
      <4>2. p.sink \in Sinks
        BY DEF TypeOK, Pair
      <4>3. /\ freeSinks' \in [EndPoints -> Sinks \cup {NoConnection}]
            /\ Values(freeSinks)' \subseteq Values(freeSinks) \cup {p.sink}
        <5>1. Values(freeSinks)' = Values(freeSinks')
          BY DEF Values
        <5>2. Sinks \in SUBSET Connections
          BY DEF Connections
        <5>3. freeSinks \in [EndPoints -> Sinks \cup {NoConnection}]
          BY DEF TypeOK
        <5>4. QED BY <4>1, <4>2, <5>1, <5>2, <5>3, PutValues
      <4>4. Values(freeSources)' = Values(freeSources)
        BY <3>2 DEF Values
      <4>5. TypeOK'
        BY <1>5, <3>2, <4>1, <4>3 DEF OnSourceRemoved, Disconnect, TypeOK
      <4>6. QED BY <4>1, <4>3, <4>4, <4>5 DEF SourceHeldOnce, Held
    <3>3. CASE UNCHANGED <<freeSources, freeSinks, pairs, session>>
      <4>1. Held' = Held /\ SourceHeldOnce'
        BY <3>3 DEF Held, SourceHeldOnce, Values
      <4>2. TypeOK'
        BY <1>5, <3>3 DEF OnSourceRemoved, Disconnect, TypeOK
      <4>3. QED BY <4>1, <4>2
    <3>4. QED BY <1>5, <3>1, <3>2, <3>3 DEF OnSourceRemoved, Disconnect
  <2>2. NewNotHeld'
    BY <1>5, <2>1 DEF OnSourceRemoved, Disconnect, NewNotHeld, TypeOK,
                      Connections
  <2>3. QED BY <2>1, <2>2
<1>6. ASSUME NEW k \in Sinks, OnSinkRemoved(k) PROVE SourceInv'
  <2>1. TypeOK' /\ SourceHeldOnce' /\ Held' \subseteq Held
    <3>1. CASE HasKey(freeSinks, k)
      <4>1. /\ freeSinks' = RemoveKey(freeSinks, k)
            /\ UNCHANGED <<freeSources, pairs, session>>
        BY <1>6, <3>1 DEF OnSinkRemoved, Disconnect
      <4>2. /\ freeSinks' \in [EndPoints -> Sinks \cup {NoConnection}]
            /\ Values(freeSinks)' \subseteq Values(freeSinks)
        <5>1. Values(freeSinks)' = Values(freeSinks')
          BY DEF Values
        <5>2. Sinks \in SUBSET Connections /\ k \in Connections
          BY DEF Connections
        <5>3. freeSinks \in [EndPoints -> Sinks \cup {NoConnection}]
          BY DEF TypeOK
        <5>4. QED BY <4>1, <5>1, <5>2, <5>3, RemoveKeyValues
      <4>3. Values(freeSources)' = Values(freeSources)
        BY <4>1 DEF Values
      <4>4. TypeOK'
        BY <1>6, <4>1, <4>2 DEF OnSinkRemoved, Disconnect, TypeOK
      <4>5. QED BY <4>1, <4>2, <4>3, <4>4 DEF SourceHeldOnce, Held
    <3>2. CASE /\ UNCHANGED <<freeSinks, session>>
               /\ \E p \in pairs : /\ p.sink = k
                                   /\ pairs' = pairs \ {p}
                                   /\ freeSources' = Put(freeSources, p.source)
      <4>1. PICK p \in pairs : /\ pairs' = pairs \ {p}
                               /\ freeSources' = Put(freeSources, p.source)
        BY <3>2
      <4>2. p.source \in Sources
        BY DEF TypeOK, Pair
      <4>3. /\ freeSources' \in [EndPoints -> Sources \cup {NoConnection}]
            /\ Values(freeSources)' \subseteq Values(freeSources) \cup {p.source}
        <5>1. Values(freeSources)' = Values(freeSources')
          BY DEF Values
        <5>2. Sources \in SUBSET Connections
          BY DEF Connections
        <5>3. freeSources \in [EndPoints -> Sources \cup {NoConnection}]
          BY DEF TypeOK
        <5>4. QED BY <4>1, <4>2, <5>1, <5>2, <5>3, PutValues
      <4>4. Values(freeSinks)' = Values(freeSinks)
        BY <3>2 DEF Values
      <4>5. TypeOK'
        BY <1>6, <3>2, <4>1, <4>3 DEF OnSinkRemoved, Disconnect, TypeOK
      \* No other pair has this source, so it may wait again.
      <4>6. SourceHeldOnce'
        BY <4>1, <4>3 DEF SourceHeldOnce
      <4>7. QED BY <4>1, <4>3, <4>4, <4>5, <4>6 DEF Held
    <3>3. CASE UNCHANGED <<freeSources, freeSinks, pairs, session>>
      <4>1. Held' = Held /\ SourceHeldOnce'
        BY <3>3 DEF Held, SourceHeldOnce, Values
      <4>2. TypeOK'
        BY <1>6, <3>3 DEF OnSinkRemoved, Disconnect, TypeOK
      <4>3. QED BY <4>1, <4>2
    <3>4. QED BY <1>6, <3>1, <3>2, <3>3 DEF OnSinkRemoved, Disconnect
  <2>2. NewNotHeld'
    BY <1>6, <2>1 DEF OnSinkRemoved, Disconnect, NewNotHeld, TypeOK,
                      Connections
  <2>3. QED BY <2>1, <2>2
<1>7. ASSUME UNCHANGED vars PROVE SourceInv'
  BY <1>7 DEF vars, TypeOK, SourceHeldOnce, NewNotHeld, Held, Values
<1>8. QED
  BY <1>1, <1>2, <1>3, <1>4, <1>5, <1>6, <1>7 DEF Next

-----------------------------------------------------------------------------
\* In every state reached, the source invariant holds.
THEOREM SourceInvariant == Spec => []SourceInv
  BY SourceInvInit, SourceInvNext, PTL DEF Spec

\* The variables keep their types: no sink is filed under the free sources,
\* and no pair has its ends swapped, whatever the end points are.
THEOREM TypeCorrect == Spec => []TypeOK
<1>1. SourceInv => TypeOK
  BY DEF SourceInv
<1>2. QED BY <1>1, SourceInvariant, PTL

\* A source is in at most one pair and does not wait while it is in one,
\* even when connections share end points (Matchmaker.cs:112-184).
THEOREM SourcesHeldOnce == Spec => []SourceHeldOnce
<1>1. SourceInv => SourceHeldOnce
  BY DEF SourceInv
<1>2. QED BY <1>1, SourceInvariant, PTL

-----------------------------------------------------------------------------
(***************************************************************************)
(* What else the matchmaker keeps: nobody who has gone is kept, nobody who *)
(* is there is lost, sessions are kept apart, and viewers with one suitor  *)
(* are held once.                                                          *)
(*                                                                         *)
(* The dictionaries are reduced to the sets of their values, which is      *)
(* possible as long as each value is filed under its own end point; the    *)
(* pairing loop to the set of the pairs it makes; and the handlers to two  *)
(* kinds of steps, one that adds a connection and one that removes one.    *)
(***************************************************************************)
Filed(dictionary) ==
  \A e \in EndPoints :
    dictionary[e] # NoConnection => EndPoint[dictionary[e]] = e

\* The values filed under other end points than that of c.
Others(dictionary, c) ==
  {x \in Values(dictionary) : EndPoint[x] # EndPoint[c]}

FreesFiled == Filed(freeSources) /\ Filed(freeSinks)

\* Whoever is in a list has asked for the session it is known with.
SessionsAsked == \A c \in Held : session[c] \in Requestable[c]

(***************************************************************************)
(* The conjuncts lean on each other: a source that leaves is found because *)
(* it is in one place, a viewer is in one place because all the sources it *)
(* is paired with are its suitors, and they are because sessions fit.      *)
(***************************************************************************)
ListsInv ==
  /\ FreesFiled /\ SessionsAsked
  /\ PairsFit
  /\ SinkHeldOnce
  /\ SourcesAlive /\ SinksAlive
  /\ NobodyLost

-----------------------------------------------------------------------------
\* An insertion replaces what was filed under the end point, and nothing else
\* (Matchmaker.cs:107, 121, 131, 145).
LEMMA PutFiled ==
  ASSUME NEW S \in SUBSET Connections, NEW c \in S,
         NEW d \in [EndPoints -> S \cup {NoConnection}], Filed(d)
  PROVE  /\ Filed(Put(d, c))
         /\ Values(Put(d, c)) = Others(d, c) \cup {c}
<1>1. c \in Connections /\ EndPoint[c] \in EndPoints /\ c # NoConnection
  BY EndPointAssumption, AbsentAssumption
<1>2. \A e \in EndPoints : Put(d, c)[e] = IF e = EndPoint[c] THEN c ELSE d[e]
  BY <1>1 DEF Put
<1>3. Filed(Put(d, c))
  BY <1>1, <1>2 DEF Filed
<1>4. ASSUME NEW x \in Values(Put(d, c)) PROVE x \in Others(d, c) \cup {c}
  BY <1>1, <1>2 DEF Values, Others, Filed
<1>5. ASSUME NEW x \in Others(d, c) PROVE x \in Values(Put(d, c))
  BY <1>1, <1>2 DEF Values, Others, Filed
<1>6. c \in Values(Put(d, c))
  BY <1>1, <1>2 DEF Values
<1>7. QED BY <1>3, <1>4, <1>5, <1>6

\* A removal takes out what is filed under the end point, and nothing else
\* (Matchmaker.cs:116, 140).
LEMMA RemoveKeyFiled ==
  ASSUME NEW S \in SUBSET Connections, NEW c \in Connections,
         NEW d \in [EndPoints -> S \cup {NoConnection}], Filed(d)
  PROVE  /\ Filed(RemoveKey(d, c))
         /\ Values(RemoveKey(d, c)) = Others(d, c)
<1>1. EndPoint[c] \in EndPoints
  BY EndPointAssumption
<1>2. \A e \in EndPoints :
        RemoveKey(d, c)[e] = IF e = EndPoint[c] THEN NoConnection ELSE d[e]
  BY <1>1 DEF RemoveKey
<1>3. Filed(RemoveKey(d, c))
  BY <1>1, <1>2 DEF Filed
<1>4. ASSUME NEW x \in Values(RemoveKey(d, c)) PROVE x \in Others(d, c)
  BY <1>1, <1>2 DEF Values, Others, Filed
<1>5. ASSUME NEW x \in Others(d, c) PROVE x \in Values(RemoveKey(d, c))
  BY <1>1, <1>2 DEF Values, Others, Filed
<1>6. QED BY <1>3, <1>4, <1>5

\* The loop leaves what it does not pair under its end point.
LEMMA WithoutFiled ==
  ASSUME NEW d, NEW taken, Filed(d)
  PROVE  Filed(Without(d, taken))
  BY DEF Filed, Without

\* A key is there if a connection at that end point is filed.
LEMMA HasKeyFiled ==
  ASSUME NEW S \in SUBSET Connections, NEW c \in Connections,
         NEW d \in [EndPoints -> S \cup {NoConnection}], Filed(d)
  PROVE  HasKey(d, c) <=> \E x \in Values(d) : EndPoint[x] = EndPoint[c]
<1>1. EndPoint[c] \in EndPoints
  BY EndPointAssumption
<1>2. QED BY <1>1 DEF HasKey, Values, Filed

-----------------------------------------------------------------------------
\* The pairs a run of the loop makes: sources and sinks that were free and
\* fit, one pair for each source; no source left over fits any sink that was
\* free (Matchmaker.cs:166-184).
LoopPairs(id, sources, sinks, new) ==
  /\ pairs' = pairs \cup new
  /\ Values(freeSources)' = Values(sources) \ {p.source : p \in new}
  /\ Values(freeSinks)' = Values(sinks) \ {p.sink : p \in new}
  /\ \A p \in new : /\ p.source \in Values(sources)
                    /\ p.sink \in Values(sinks)
                    /\ Fits(id, p.source, p.sink)
  /\ \A p, q \in new : p.source = q.source => p = q
  /\ \A s \in Values(freeSources)', k \in Values(sinks) : ~ Fits(id, s, k)

\* That is what the walk over the snapshots comes to, whatever their order.
LEMMA LoopMakesPairs ==
  ASSUME NEW id,
         NEW sources \in [EndPoints -> Sources \cup {NoConnection}],
         NEW sinks \in [EndPoints -> Sinks \cup {NoConnection}],
         Filed(sources), Filed(sinks),
         PairSourcesAndSinks(id, sources, sinks)
  PROVE  /\ FreesFiled'
         /\ \E new \in SUBSET Pair : LoopPairs(id, sources, sinks, new)
<1>1. PICK f \in FirstFits(id, Values(sources), Values(sinks)) :
        /\ pairs' = pairs \cup {[source |-> s, sink |-> f[s]] : s \in DOMAIN f}
        /\ freeSources' = Without(sources, DOMAIN f)
        /\ freeSinks' = Without(sinks, {f[s] : s \in DOMAIN f})
  BY DEF PairSourcesAndSinks
<1> DEFINE new == {[source |-> s, sink |-> f[s]] : s \in DOMAIN f}
<1>2. /\ DOMAIN f = {s \in Values(sources) :
                       \E k \in Values(sinks) : Fits(id, s, k)}
      /\ \A s \in DOMAIN f : f[s] \in Values(sinks) /\ Fits(id, s, f[s])
  BY <1>1 DEF FirstFits
<1>3. /\ Sources \in SUBSET Connections /\ Sinks \in SUBSET Connections
      /\ Values(sources) \in SUBSET Sources /\ Values(sinks) \in SUBSET Sinks
  BY ValuesType DEF Connections
<1>4. FreesFiled'
  <2>1. Filed(freeSources') /\ Filed(freeSinks')
    BY <1>1, WithoutFiled
  <2>2. QED BY <2>1 DEF FreesFiled, Filed
<1>5. new \in SUBSET Pair
  BY <1>2, <1>3 DEF Pair
<1>6. /\ DOMAIN f = {p.source : p \in new}
      /\ {f[s] : s \in DOMAIN f} = {p.sink : p \in new}
  <2>1. \A p \in new : p.source \in DOMAIN f /\ p.sink = f[p.source]
    OBVIOUS
  <2>2. ASSUME NEW s \in DOMAIN f
        PROVE  \E p \in new : p.source = s /\ p.sink = f[s]
    <3>1. [source |-> s, sink |-> f[s]] \in new
      OBVIOUS
    <3> HIDE DEF new
    <3>2. WITNESS [source |-> s, sink |-> f[s]] \in new
    <3>3. QED OBVIOUS
  <2> HIDE DEF new
  <2>3. DOMAIN f = {p.source : p \in new}
    BY <2>1, <2>2
  <2>4. {f[s] : s \in DOMAIN f} = {p.sink : p \in new}
    <3>1. ASSUME NEW k \in {f[s] : s \in DOMAIN f}
          PROVE  k \in {p.sink : p \in new}
      BY <2>2
    <3>2. ASSUME NEW k \in {p.sink : p \in new}
          PROVE  k \in {f[s] : s \in DOMAIN f}
      BY <2>1
    <3>3. QED BY <3>1, <3>2
  <2>5. QED BY <2>3, <2>4
<1>7. /\ Values(freeSources)' = Values(sources) \ {p.source : p \in new}
      /\ Values(freeSinks)' = Values(sinks) \ {p.sink : p \in new}
  <2>1. /\ Values(freeSources') = Values(sources) \ DOMAIN f
        /\ Values(freeSinks') = Values(sinks) \ {f[s] : s \in DOMAIN f}
    <3> HIDE DEF new
    <3>1. Values(Without(sources, DOMAIN f)) = Values(sources) \ DOMAIN f
      BY <1>3, WithoutValues
    <3>2. \A taken : Values(Without(sinks, taken)) = Values(sinks) \ taken
      BY <1>3, WithoutValues
    <3>3. QED BY <1>1, <3>1, <3>2
  <2>2. /\ Values(freeSources)' = Values(freeSources')
        /\ Values(freeSinks)' = Values(freeSinks')
    BY DEF Values
  <2> HIDE DEF new
  <2>3. QED BY <1>6, <2>1, <2>2
<1>8. \A p \in new : /\ p.source \in Values(sources)
                     /\ p.sink \in Values(sinks)
                     /\ Fits(id, p.source, p.sink)
  BY <1>2
<1>9. \A p, q \in new : p.source = q.source => p = q
  OBVIOUS
<1>10. \A s \in Values(freeSources)', k \in Values(sinks) : ~ Fits(id, s, k)
  <2>1. \A s \in Values(freeSources)' : s \in Values(sources) \ DOMAIN f
    BY <1>6, <1>7
  <2>2. QED BY <1>2, <2>1
<1>11. LoopPairs(id, sources, sinks, new)
  <2> HIDE DEF new
  <2>1. pairs' = pairs \cup new
    BY <1>1 DEF new
  <2>2. QED BY <1>7, <1>8, <1>9, <1>10, <2>1 DEF LoopPairs
<1>12. QED BY <1>4, <1>5, <1>11

-----------------------------------------------------------------------------
\* A source is only paired with viewers it is a suitor of, since sessions fit
\* and are those that were asked for (Matchmaker.cs:175).
LEMMA PairedWithSuitors ==
  TypeOK /\ SessionsAsked /\ PairsFit =>
    \A p \in pairs : p.source \in Suitors(p.sink)
<1> SUFFICES ASSUME TypeOK, SessionsAsked, PairsFit, NEW p \in pairs
             PROVE  p.source \in Suitors(p.sink)
  OBVIOUS
<1>1. p.source \in Sources /\ {p.source, p.sink} \subseteq Held
  BY DEF TypeOK, Pair, Held
<1>2. /\ session[p.source] \in Requestable[p.source]
      /\ session[p.sink] \in Requestable[p.sink]
  BY <1>1 DEF SessionsAsked
<1>3. CASE session[p.source] = NoSession
  BY <1>1, <1>2, <1>3 DEF Suitors
<1>4. CASE session[p.source] # NoSession
  BY <1>1, <1>2, <1>4 DEF PairsFit, Suitors
<1>5. QED BY <1>3, <1>4

\* So a viewer with one suitor is in one pair at most, as its suitor is.
LEMMA OneSuitorOnePair ==
  SourceInv /\ SessionsAsked /\ PairsFit =>
    \A p, q \in pairs : HasOneSuitor(p.sink) /\ p.sink = q.sink => p = q
  BY PairedWithSuitors DEF SourceInv, SourceHeldOnce, HasOneSuitor

\* What the lists hold has the types of the lists.
LEMMA HeldTypes ==
  TypeOK => /\ Values(freeSources) \subseteq Sources
            /\ Values(freeSinks) \subseteq Sinks
            /\ \A p \in pairs : p.source \in Sources /\ p.sink \in Sinks
  BY DEF TypeOK, Values, Pair

-----------------------------------------------------------------------------
\* A connection enters one of the dictionaries.
Entered(c, sources, sinks) ==
  \/ /\ c \in Sources
     /\ Values(sources) = Others(freeSources, c) \cup {c}
     /\ Values(sinks) = Values(freeSinks)
  \/ /\ c \in Sinks
     /\ Values(sources) = Values(freeSources)
     /\ Values(sinks) = Others(freeSinks, c) \cup {c}

\* An addition, with the loop that follows it, preserves the invariant
\* (Matchmaker.cs:103-110, 127-134, 166-184).
LEMMA AdditionKeeps ==
  ASSUME SourceInv, SourceInv', ListsInv,
         NEW c \in Connections, NEW id \in SessionIds, Request(c, id),
         NEW sources \in [EndPoints -> Sources \cup {NoConnection}],
         NEW sinks \in [EndPoints -> Sinks \cup {NoConnection}],
         Filed(sources), Filed(sinks), Entered(c, sources, sinks),
         PairSourcesAndSinks([session EXCEPT ![c] = id], sources, sinks)
  PROVE  ListsInv'
<1>1. /\ c \notin Held /\ id \in Requestable[c]
      /\ \A x \in Connections :
           /\ connection'[x] = IF x = c THEN "connected" ELSE connection[x]
           /\ session'[x] = IF x = c THEN id ELSE session[x]
      /\ session' = [session EXCEPT ![c] = id]
  BY DEF Request, SourceInv, NewNotHeld, TypeOK
<1>2. PICK new \in SUBSET Pair : LoopPairs(session', sources, sinks, new)
  BY <1>1, LoopMakesPairs
<1>3. FreesFiled'
  BY <1>1, LoopMakesPairs
<1>4. /\ Values(freeSources) \subseteq Sources /\ Values(freeSinks) \subseteq Sinks
      /\ \A p \in pairs : p.source \in Sources /\ p.sink \in Sinks
      /\ \A p \in new : p.source \in Sources /\ p.sink \in Sinks
      /\ Sources \subseteq Connections /\ Sinks \subseteq Connections
  BY HeldTypes DEF SourceInv, Pair, Connections
<1>5. /\ Values(sources) \subseteq Values(freeSources) \cup {c}
      /\ Values(sinks) \subseteq Values(freeSinks) \cup {c}
      /\ c \in Sources => c \notin Values(sinks)
      /\ c \in Sinks => c \notin Values(sources)
  BY <1>4, RolesAssumption DEF Entered, Others
<1>6. Held' \subseteq Held \cup {c}
  BY <1>2, <1>5 DEF LoopPairs, Held
<1>7. SessionsAsked'
  <2>1. Held \subseteq Connections
    BY <1>4 DEF Held
  <2>2. QED BY <1>1, <1>6, <2>1 DEF SessionsAsked, ListsInv
<1>8. PairsFit'
  <2>1. \A p \in pairs : session'[p.source] = session[p.source]
                         /\ session'[p.sink] = session[p.sink]
    BY <1>1, <1>4 DEF Held
  <2>2. QED BY <1>2, <2>1 DEF LoopPairs, PairsFit, Fits, ListsInv
<1>9. SinkHeldOnce'
  <2>1. \A p, q \in pairs' : HasOneSuitor(p.sink) /\ p.sink = q.sink => p = q
    <3>1. (\A p, q \in pairs : HasOneSuitor(p.sink) /\ p.sink = q.sink => p = q)'
      BY <1>7, <1>8, OneSuitorOnePair, PTL
    <3>2. QED BY <3>1 DEF HasOneSuitor, Suitors
  <2>2. \A p \in new : p.sink \notin Values(freeSinks)'
    BY <1>2 DEF LoopPairs
  <2>3. \A p \in pairs : HasOneSuitor(p.sink) => p.sink \notin Values(freeSinks)'
    BY <1>1, <1>2, <1>5 DEF LoopPairs, ListsInv, SinkHeldOnce, Held
  <2>4. QED BY <1>2, <2>1, <2>2, <2>3 DEF LoopPairs, SinkHeldOnce
<1>10. SourcesAlive'
  BY <1>1, <1>2, <1>4, <1>5 DEF LoopPairs, ListsInv, SourcesAlive
<1>11. SinksAlive'
  BY <1>1, <1>2, <1>4, <1>5 DEF LoopPairs, ListsInv, SinksAlive
<1>12. NobodyLost'
  <2> SUFFICES ASSUME NEW x \in Connections, HasOwnEndPoint(x),
                      connection'[x] = "connected"
               PROVE  x \in Held'
    BY DEF NobodyLost
  <2>1. x \in Values(sources) \cup Values(sinks)
              \cup {p.source : p \in pairs} \cup {p.sink : p \in pairs}
    <3>1. CASE x = c
      BY <3>1 DEF Entered
    <3>2. CASE x # c
      <4>1. x \in Held
        BY <1>1, <3>2 DEF ListsInv, NobodyLost
      <4>2. x \in Values(freeSources) => x \in Values(sources)
        BY <1>4, <3>2 DEF Entered, Others, HasOwnEndPoint
      <4>3. x \in Values(freeSinks) => x \in Values(sinks)
        BY <1>4, <3>2, RolesAssumption DEF Entered, Others, HasOwnEndPoint
      <4>4. QED BY <4>1, <4>2, <4>3 DEF Held
    <3>3. QED BY <3>1, <3>2
  <2>2. QED BY <1>2, <2>1 DEF LoopPairs, Held
<1>13. QED BY <1>3, <1>7, <1>8, <1>9, <1>10, <1>11, <1>12 DEF ListsInv

-----------------------------------------------------------------------------
\* What a removal of c does to the lists: it adds nobody, takes out nobody
\* else whose end point is its own, and takes out c if that and, for a
\* viewer, its suitor are its own.
Removal(c) ==
  /\ FreesFiled'
  /\ pairs' \subseteq pairs
  /\ Values(freeSources)' \subseteq Values(freeSources) \cup {p.source : p \in pairs}
  /\ Values(freeSinks)' \subseteq Values(freeSinks) \cup {p.sink : p \in pairs}
  /\ \A x \in Held \ {c} : HasOwnEndPoint(x) => x \in Held'
  /\ HasOwnEndPoint(c) /\ (c \in Sinks => HasOneSuitor(c)) => c \notin Held'
  /\ \A p \in pairs' : HasOneSuitor(p.sink) => p.sink \notin Values(freeSinks)'

\* Such a removal preserves the invariant.
LEMMA RemovalKeeps ==
  ASSUME SourceInv, SourceInv', ListsInv,
         NEW c \in Connections, Disconnect(c), Removal(c)
  PROVE  ListsInv'
<1>1. /\ session' = session
      /\ \A x \in Connections :
           connection'[x] = IF x = c THEN "closed" ELSE connection[x]
  BY DEF Disconnect, SourceInv, TypeOK
<1>2. /\ Values(freeSources) \subseteq Sources /\ Values(freeSinks) \subseteq Sinks
      /\ \A p \in pairs : p.source \in Sources /\ p.sink \in Sinks
      /\ Sources \subseteq Connections /\ Sinks \subseteq Connections
  BY HeldTypes DEF SourceInv, Connections
<1>3. Held' \subseteq Held /\ pairs' \subseteq pairs
  BY DEF Removal, Held
<1>4. FreesFiled' /\ SessionsAsked' /\ PairsFit'
  BY <1>1, <1>3 DEF Removal, ListsInv, SessionsAsked, PairsFit
<1>5. SinkHeldOnce'
  BY <1>3 DEF Removal, ListsInv, SinkHeldOnce
<1>6. SourcesAlive'
  <2> SUFFICES ASSUME NEW s \in Sources, HasOwnEndPoint(s),
                      s \in (Values(freeSources) \cup {p.source : p \in pairs})'
               PROVE  connection'[s] = "connected"
    BY DEF SourcesAlive
  <2>1. s \in Held' /\ s \in Values(freeSources) \cup {p.source : p \in pairs}
    BY <1>3 DEF Removal, Held
  <2>2. s # c
    BY <2>1, RolesAssumption DEF Removal
  <2>3. QED BY <1>1, <1>2, <2>1, <2>2 DEF ListsInv, SourcesAlive
<1>7. SinksAlive'
  <2> SUFFICES ASSUME NEW k \in Sinks, HasOwnEndPoint(k), HasOneSuitor(k),
                      k \in (Values(freeSinks) \cup {p.sink : p \in pairs})'
               PROVE  connection'[k] = "connected"
    BY DEF SinksAlive
  <2>1. k \in Held' /\ k \in Values(freeSinks) \cup {p.sink : p \in pairs}
    BY <1>3 DEF Removal, Held
  <2>2. k # c
    BY <2>1 DEF Removal
  <2>3. QED BY <1>1, <1>2, <2>1, <2>2 DEF ListsInv, SinksAlive
<1>8. NobodyLost'
  BY <1>1 DEF Removal, ListsInv, NobodyLost
<1>9. QED BY <1>4, <1>5, <1>6, <1>7, <1>8 DEF ListsInv

-----------------------------------------------------------------------------
\* OnSourceRemoved takes out the source, in whichever list it is, and gives
\* the sink of its pair back (Matchmaker.cs:112-125).
LEMMA SourceRemoval ==
  ASSUME SourceInv, ListsInv, NEW s \in Sources, OnSourceRemoved(s)
  PROVE  Removal(s)
<1>1. /\ Values(freeSources) \subseteq Sources /\ Values(freeSinks) \subseteq Sinks
      /\ \A p \in pairs : p.source \in Sources /\ p.sink \in Sinks
      /\ Sources \in SUBSET Connections /\ Sinks \in SUBSET Connections
      /\ s \in Connections /\ s \notin Sinks
  BY HeldTypes, RolesAssumption DEF SourceInv, Connections
<1>2. /\ freeSources \in [EndPoints -> Sources \cup {NoConnection}]
      /\ freeSinks \in [EndPoints -> Sinks \cup {NoConnection}]
      /\ Filed(freeSources) /\ Filed(freeSinks)
  BY DEF SourceInv, TypeOK, ListsInv, FreesFiled
<1>3. HasKey(freeSources, s)
        <=> \E x \in Values(freeSources) : EndPoint[x] = EndPoint[s]
  BY <1>1, <1>2, HasKeyFiled
<1>4. CASE HasKey(freeSources, s)
  <2>1. freeSources' = RemoveKey(freeSources, s) /\ UNCHANGED <<freeSinks, pairs>>
    BY <1>4 DEF OnSourceRemoved
  <2>2. FreesFiled' /\ Values(freeSources)' = Others(freeSources, s)
    <3>1. /\ Filed(freeSources')
          /\ Values(freeSources') = Others(freeSources, s)
      BY <1>1, <1>2, <2>1, RemoveKeyFiled
    <3>2. QED BY <1>2, <2>1, <3>1 DEF FreesFiled, Filed, Values
  <2>3. Values(freeSinks)' = Values(freeSinks)
    BY <2>1 DEF Values
  <2>4. \A x \in Held \ {s} : HasOwnEndPoint(x) => x \in Held'
    BY <1>1, <2>1, <2>2, <2>3 DEF Held, Others, HasOwnEndPoint
  <2>5. HasOwnEndPoint(s) => s \notin Held'
    <3>1. HasOwnEndPoint(s) => s \in Values(freeSources)
      BY <1>1, <1>3, <1>4 DEF HasOwnEndPoint
    <3>2. QED BY <1>1, <2>1, <2>2, <2>3, <3>1
              DEF Held, Others, SourceInv, SourceHeldOnce
  <2>6. QED BY <2>1, <2>2, <2>3, <2>4, <2>5
            DEF Removal, Others, ListsInv, SinkHeldOnce
<1>5. CASE /\ ~ HasKey(freeSources, s) /\ UNCHANGED freeSources
           /\ \E p \in pairs : /\ p.source = s /\ pairs' = pairs \ {p}
                               /\ freeSinks' = Put(freeSinks, p.sink)
  <2>1. PICK p \in pairs : /\ p.source = s /\ pairs' = pairs \ {p}
                           /\ freeSinks' = Put(freeSinks, p.sink)
    BY <1>5
  <2>2. FreesFiled' /\ Values(freeSinks)' = Others(freeSinks, p.sink) \cup {p.sink}
    <3>1. /\ Filed(freeSinks')
          /\ Values(freeSinks') = Others(freeSinks, p.sink) \cup {p.sink}
      BY <1>1, <1>2, <2>1, PutFiled
    <3>2. QED BY <1>2, <1>5, <3>1 DEF FreesFiled, Filed, Values
  <2>3. Values(freeSources)' = Values(freeSources)
    BY <1>5 DEF Values
  <2>4. \A x \in Held \ {s} : HasOwnEndPoint(x) => x \in Held'
    <3>1. \A x \in Values(freeSinks) :
            HasOwnEndPoint(x) => x \in Values(freeSinks)'
      BY <1>1, <2>2, RolesAssumption DEF Others, HasOwnEndPoint
    <3>2. QED BY <2>1, <2>2, <2>3, <3>1 DEF Held
  <2>5. HasOwnEndPoint(s) => s \notin Held'
    <3>1. s \notin Values(freeSources)
      BY <1>3, <1>5
    <3>2. \A q \in pairs' : q.source # s
      BY <2>1 DEF SourceInv, SourceHeldOnce
    <3>3. QED BY <1>1, <2>1, <2>2, <2>3, <3>1, <3>2 DEF Held, Others
  <2>6. \A q \in pairs' :
          HasOneSuitor(q.sink) => q.sink \notin Values(freeSinks)'
    BY <2>1, <2>2 DEF Others, ListsInv, SinkHeldOnce
  <2>7. QED BY <2>1, <2>2, <2>3, <2>4, <2>5, <2>6 DEF Removal, Others
<1>6. CASE /\ ~ HasKey(freeSources, s)
           /\ \A p \in pairs : p.source # s
           /\ UNCHANGED <<freeSources, freeSinks, pairs>>
  <2>1. /\ Values(freeSources)' = Values(freeSources)
        /\ Values(freeSinks)' = Values(freeSinks) /\ Held' = Held
    BY <1>6 DEF Values, Held
  <2>2. FreesFiled'
    BY <1>2, <1>6 DEF FreesFiled, Filed
  <2>3. s \notin Held
    BY <1>1, <1>3, <1>6 DEF Held
  <2>4. QED BY <1>6, <2>1, <2>2, <2>3 DEF Removal, ListsInv, SinkHeldOnce
<1>7. QED BY <1>4, <1>5, <1>6 DEF OnSourceRemoved

\* OnSinkRemoved takes out the sink, in whichever list it is, and gives the
\* source of its pair back (Matchmaker.cs:136-149).
LEMMA SinkRemoval ==
  ASSUME SourceInv, ListsInv, NEW k \in Sinks, OnSinkRemoved(k)
  PROVE  Removal(k)
<1>1. /\ Values(freeSources) \subseteq Sources /\ Values(freeSinks) \subseteq Sinks
      /\ \A p \in pairs : p.source \in Sources /\ p.sink \in Sinks
      /\ Sources \in SUBSET Connections /\ Sinks \in SUBSET Connections
      /\ k \in Connections /\ k \notin Sources
  BY HeldTypes, RolesAssumption DEF SourceInv, Connections
<1>2. /\ freeSources \in [EndPoints -> Sources \cup {NoConnection}]
      /\ freeSinks \in [EndPoints -> Sinks \cup {NoConnection}]
      /\ Filed(freeSources) /\ Filed(freeSinks)
  BY DEF SourceInv, TypeOK, ListsInv, FreesFiled
<1>3. HasKey(freeSinks, k)
        <=> \E x \in Values(freeSinks) : EndPoint[x] = EndPoint[k]
  BY <1>1, <1>2, HasKeyFiled
<1>4. CASE HasKey(freeSinks, k)
  <2>1. freeSinks' = RemoveKey(freeSinks, k) /\ UNCHANGED <<freeSources, pairs>>
    BY <1>4 DEF OnSinkRemoved
  <2>2. FreesFiled' /\ Values(freeSinks)' = Others(freeSinks, k)
    <3>1. /\ Filed(freeSinks')
          /\ Values(freeSinks') = Others(freeSinks, k)
      BY <1>1, <1>2, <2>1, RemoveKeyFiled
    <3>2. QED BY <1>2, <2>1, <3>1 DEF FreesFiled, Filed, Values
  <2>3. Values(freeSources)' = Values(freeSources)
    BY <2>1 DEF Values
  <2>4. \A x \in Held \ {k} : HasOwnEndPoint(x) => x \in Held'
    <3>1. \A x \in Values(freeSinks) \ {k} :
            HasOwnEndPoint(x) => x \in Values(freeSinks)'
      BY <1>1, <2>2, RolesAssumption DEF Others, HasOwnEndPoint
    <3>2. QED BY <2>1, <2>3, <3>1 DEF Held
  <2>5. HasOwnEndPoint(k) /\ HasOneSuitor(k) => k \notin Held'
    <3>1. HasOwnEndPoint(k) => k \in Values(freeSinks)
      BY <1>1, <1>3, <1>4, RolesAssumption DEF HasOwnEndPoint
    <3>2. QED BY <1>1, <2>1, <2>2, <2>3, <3>1
              DEF Held, Others, ListsInv, SinkHeldOnce
  <2>6. QED BY <2>1, <2>2, <2>3, <2>4, <2>5
            DEF Removal, Others, ListsInv, SinkHeldOnce
<1>5. CASE /\ ~ HasKey(freeSinks, k) /\ UNCHANGED freeSinks
           /\ \E p \in pairs : /\ p.sink = k /\ pairs' = pairs \ {p}
                               /\ freeSources' = Put(freeSources, p.source)
  <2>1. PICK p \in pairs : /\ p.sink = k /\ pairs' = pairs \ {p}
                           /\ freeSources' = Put(freeSources, p.source)
    BY <1>5
  <2>2. /\ FreesFiled'
        /\ Values(freeSources)' = Others(freeSources, p.source) \cup {p.source}
    <3>1. /\ Filed(freeSources')
          /\ Values(freeSources') = Others(freeSources, p.source) \cup {p.source}
      BY <1>1, <1>2, <2>1, PutFiled
    <3>2. QED BY <1>2, <1>5, <3>1 DEF FreesFiled, Filed, Values
  <2>3. Values(freeSinks)' = Values(freeSinks)
    BY <1>5 DEF Values
  <2>4. \A x \in Held \ {k} : HasOwnEndPoint(x) => x \in Held'
    <3>1. \A x \in Values(freeSources) :
            HasOwnEndPoint(x) => x \in Values(freeSources)'
      BY <1>1, <2>2, RolesAssumption DEF Others, HasOwnEndPoint
    <3>2. QED BY <2>1, <2>2, <2>3, <3>1 DEF Held
  <2>5. HasOwnEndPoint(k) /\ HasOneSuitor(k) => k \notin Held'
    <3>1. k \notin Values(freeSinks)
      BY <1>3, <1>5
    <3>2. HasOneSuitor(k) => \A q \in pairs' : q.sink # k
      BY <2>1 DEF ListsInv, SinkHeldOnce
    <3>3. QED BY <1>1, <2>1, <2>2, <2>3, <3>1, <3>2 DEF Held, Others
  <2>6. \A q \in pairs' :
          HasOneSuitor(q.sink) => q.sink \notin Values(freeSinks)'
    BY <2>1, <2>3 DEF ListsInv, SinkHeldOnce
  <2>7. QED BY <2>1, <2>2, <2>3, <2>4, <2>5, <2>6 DEF Removal, Others
<1>6. CASE /\ ~ HasKey(freeSinks, k)
           /\ \A p \in pairs : p.sink # k
           /\ UNCHANGED <<freeSources, freeSinks, pairs>>
  <2>1. /\ Values(freeSources)' = Values(freeSources)
        /\ Values(freeSinks)' = Values(freeSinks) /\ Held' = Held
    BY <1>6 DEF Values, Held
  <2>2. FreesFiled'
    BY <1>2, <1>6 DEF FreesFiled, Filed
  <2>3. k \notin Held
    BY <1>1, <1>3, <1>6 DEF Held
  <2>4. QED BY <1>6, <2>1, <2>2, <2>3 DEF Removal, ListsInv, SinkHeldOnce
<1>7. QED BY <1>4, <1>5, <1>6 DEF OnSinkRemoved

-----------------------------------------------------------------------------
\* The matchmaker starts with nobody in its lists and no socket connected.
LEMMA ListsInvInit == Init => ListsInv
  BY DEF Init, ListsInv, FreesFiled, Filed, SessionsAsked, PairsFit,
         SinkHeldOnce, SourcesAlive, SinksAlive, NobodyLost, Held, Values

\* Every event of a connection preserves the invariant.
LEMMA ListsInvNext == SourceInv /\ ListsInv /\ [Next]_vars => ListsInv'
<1> SUFFICES ASSUME SourceInv, ListsInv, [Next]_vars PROVE ListsInv'
  OBVIOUS
<1>1. SourceInv'
  BY SourceInvNext
<1>2. /\ Sources \in SUBSET Connections /\ Sinks \in SUBSET Connections
      /\ freeSources \in [EndPoints -> Sources \cup {NoConnection}]
      /\ freeSinks \in [EndPoints -> Sinks \cup {NoConnection}]
      /\ Filed(freeSources) /\ Filed(freeSinks)
  BY DEF SourceInv, TypeOK, ListsInv, FreesFiled, Connections
<1>3. ASSUME NEW c \in Connections, Connect(c) \/ Abandon(c) PROVE ListsInv'
  <2>1. /\ UNCHANGED <<session, freeSources, freeSinks, pairs>>
        /\ c \notin Held
        /\ \A x \in Connections \ {c} : connection'[x] = connection[x]
        /\ connection'[c] # "connected"
    BY <1>3 DEF Connect, Abandon, SourceInv, NewNotHeld, TypeOK
  <2>2. /\ Values(freeSources)' = Values(freeSources)
        /\ Values(freeSinks)' = Values(freeSinks) /\ Held' = Held
    BY <2>1 DEF Values, Held
  <2>3. (FreesFiled /\ SessionsAsked /\ PairsFit /\ SinkHeldOnce)'
    BY <2>1, <2>2 DEF ListsInv, FreesFiled, Filed, SessionsAsked, PairsFit,
                      SinkHeldOnce
  <2>4. (SourcesAlive /\ SinksAlive /\ NobodyLost)'
    <3>1. SourcesAlive'
      BY <2>1, <2>2 DEF ListsInv, SourcesAlive, Held, Connections
    <3>2. SinksAlive'
      BY <2>1, <2>2 DEF ListsInv, SinksAlive, Held, Connections
    <3>3. NobodyLost'
      BY <2>1, <2>2 DEF ListsInv, NobodyLost
    <3>4. QED BY <3>1, <3>2, <3>3
  <2>5. QED BY <2>3, <2>4 DEF ListsInv
<1>4. ASSUME NEW s \in Sources, NEW id \in SessionIds, OnSourceAdded(s, id)
      PROVE ListsInv'
  <2> DEFINE sources == Put(freeSources, s)
  <2>1. /\ sources \in [EndPoints -> Sources \cup {NoConnection}]
        /\ Filed(sources) /\ Values(sources) = Others(freeSources, s) \cup {s}
    BY <1>2, PutValues, PutFiled
  <2>2. Request(s, id)
        /\ PairSourcesAndSinks([session EXCEPT ![s] = id], sources, freeSinks)
    BY <1>4 DEF OnSourceAdded
  <2> HIDE DEF sources
  <2>3. Entered(s, sources, freeSinks)
    BY <2>1 DEF Entered
  <2>4. s \in Connections
    BY <1>2
  <2>5. QED BY <1>1, <1>2, <2>1, <2>2, <2>3, <2>4, AdditionKeeps
<1>5. ASSUME NEW k \in Sinks, NEW id \in SessionIds, OnSinkAdded(k, id)
      PROVE ListsInv'
  <2> DEFINE sinks == Put(freeSinks, k)
  <2>1. /\ sinks \in [EndPoints -> Sinks \cup {NoConnection}]
        /\ Filed(sinks) /\ Values(sinks) = Others(freeSinks, k) \cup {k}
    BY <1>2, PutValues, PutFiled
  <2>2. Request(k, id)
        /\ PairSourcesAndSinks([session EXCEPT ![k] = id], freeSources, sinks)
    BY <1>5 DEF OnSinkAdded
  <2> HIDE DEF sinks
  <2>3. Entered(k, freeSources, sinks)
    BY <2>1 DEF Entered
  <2>4. k \in Connections
    BY <1>2
  <2>5. QED BY <1>1, <1>2, <2>1, <2>2, <2>3, <2>4, AdditionKeeps
<1>6. ASSUME NEW s \in Sources, OnSourceRemoved(s) PROVE ListsInv'
  <2>1. Disconnect(s) /\ s \in Connections
    BY <1>2, <1>6 DEF OnSourceRemoved
  <2>2. Removal(s)
    BY <1>6, SourceRemoval
  <2>3. QED BY <1>1, <2>1, <2>2, RemovalKeeps
<1>7. ASSUME NEW k \in Sinks, OnSinkRemoved(k) PROVE ListsInv'
  <2>1. Disconnect(k) /\ k \in Connections
    BY <1>2, <1>7 DEF OnSinkRemoved
  <2>2. Removal(k)
    BY <1>7, SinkRemoval
  <2>3. QED BY <1>1, <2>1, <2>2, RemovalKeeps
<1>8. CASE UNCHANGED vars
  BY <1>8 DEF vars, ListsInv, FreesFiled, Filed, SessionsAsked, PairsFit,
              SinkHeldOnce, SourcesAlive, SinksAlive, NobodyLost, Held, Values
<1>9. QED BY <1>3, <1>4, <1>5, <1>6, <1>7, <1>8 DEF Next

-----------------------------------------------------------------------------
\* In every state reached, the lists are as the invariant says.
THEOREM ListsInvariant == Spec => []ListsInv
  BY ListsInvInit, ListsInvNext, SourceInvariant, PTL DEF Spec

\* The matchmaker keeps no source that has gone, if its end point is its own
\* (Matchmaker.cs:112-125).
THEOREM NoGoneSources == Spec => []SourcesAlive
<1>1. ListsInv => SourcesAlive
  BY DEF ListsInv
<1>2. QED BY <1>1, ListsInvariant, PTL

\* Nor a viewer that has gone, if only one source can stream to it besides
\* (Matchmaker.cs:136-164).
THEOREM NoGoneSinks == Spec => []SinksAlive
<1>1. ListsInv => SinksAlive
  BY DEF ListsInv
<1>2. QED BY <1>1, ListsInvariant, PTL

\* Whoever is connected under an end point of its own is in one of the lists
\* (Matchmaker.cs:103-184).
THEOREM ConnectedAreHeld == Spec => []NobodyLost
<1>1. ListsInv => NobodyLost
  BY DEF ListsInv
<1>2. QED BY <1>1, ListsInvariant, PTL

\* A viewer with one suitor is in one place (Matchmaker.cs:136-184).
THEOREM SinksHeldOnce == Spec => []SinkHeldOnce
<1>1. ListsInv => SinkHeldOnce
  BY DEF ListsInv
<1>2. QED BY <1>1, ListsInvariant, PTL

\* A source that asked for a session is only paired with viewers of that
\* session (Matchmaker.cs:175).
THEOREM SessionsKeptApart == Spec => []PairsFit
<1>1. ListsInv => PairsFit
  BY DEF ListsInv
<1>2. QED BY <1>1, ListsInvariant, PTL

\* A pair lasts until one of its ends leaves, whatever happens to the other
\* connections (Matchmaker.cs:112-164).
THEOREM PairsStay == Spec => PairsKept
<1>1. ASSUME TypeOK, [Next]_vars
      PROVE  [\A p \in pairs \ pairs' :
                "closed" \in {connection'[p.source], connection'[p.sink]}]_vars
  <2>1. ASSUME NEW c \in Connections, Connect(c) \/ Abandon(c)
        PROVE  pairs' = pairs
    BY <2>1 DEF Connect, Abandon
  <2>2. ASSUME NEW id, NEW sources, NEW sinks,
               PairSourcesAndSinks(id, sources, sinks)
        PROVE  pairs \subseteq pairs'
    BY <2>2 DEF PairSourcesAndSinks
  <2>3. ASSUME NEW c \in Sources, NEW id \in SessionIds, OnSourceAdded(c, id)
        PROVE  pairs \subseteq pairs'
    BY <2>2, <2>3 DEF OnSourceAdded
  <2>4. ASSUME NEW c \in Sinks, NEW id \in SessionIds, OnSinkAdded(c, id)
        PROVE  pairs \subseteq pairs'
    BY <2>2, <2>4 DEF OnSinkAdded
  <2>5. ASSUME NEW s \in Sources, OnSourceRemoved(s)
        PROVE  \A p \in pairs \ pairs' : connection'[p.source] = "closed"
    BY <1>1, <2>5 DEF OnSourceRemoved, Disconnect, TypeOK, Pair, Connections
  <2>6. ASSUME NEW k \in Sinks, OnSinkRemoved(k)
        PROVE  \A p \in pairs \ pairs' : connection'[p.sink] = "closed"
    BY <1>1, <2>6 DEF OnSinkRemoved, Disconnect, TypeOK, Pair, Connections
  <2>7. QED BY <1>1, <2>1, <2>3, <2>4, <2>5, <2>6 DEF Next
<1>2. QED BY <1>1, TypeCorrect, PTL DEF Spec, PairsKept

\* When a connection has been added, no free source fits a free viewer: the
\* loop leaves nobody out (Matchmaker.cs:166-184).
THEOREM AdditionsSettle == Spec => AddingSettles
<1>1. ASSUME SourceInv, ListsInv, [Next]_vars
      PROVE  [(\E c \in Connections : /\ connection[c] = "open"
                                      /\ connection'[c] = "connected")
               => ~ Waiting(session', freeSources', freeSinks')]_vars
  <2>1. /\ Sources \in SUBSET Connections /\ Sinks \in SUBSET Connections
        /\ freeSources \in [EndPoints -> Sources \cup {NoConnection}]
        /\ freeSinks \in [EndPoints -> Sinks \cup {NoConnection}]
        /\ Filed(freeSources) /\ Filed(freeSinks)
    BY <1>1 DEF SourceInv, TypeOK, ListsInv, FreesFiled, Connections
  <2>2. ASSUME NEW sources \in [EndPoints -> Sources \cup {NoConnection}],
               NEW sinks \in [EndPoints -> Sinks \cup {NoConnection}],
               Filed(sources), Filed(sinks),
               PairSourcesAndSinks(session', sources, sinks)
        PROVE  ~ Waiting(session', freeSources', freeSinks')
    <3>1. PICK new \in SUBSET Pair : LoopPairs(session', sources, sinks, new)
      BY <2>2, LoopMakesPairs
    <3>2. /\ Values(freeSources)' = Values(freeSources')
          /\ Values(freeSinks)' = Values(freeSinks')
      BY DEF Values
    <3>3. QED BY <3>1, <3>2 DEF LoopPairs, Waiting
  <2>3. ASSUME NEW s \in Sources, NEW id \in SessionIds, OnSourceAdded(s, id)
        PROVE  ~ Waiting(session', freeSources', freeSinks')
    <3>1. /\ Put(freeSources, s) \in [EndPoints -> Sources \cup {NoConnection}]
          /\ Filed(Put(freeSources, s))
      BY <2>1, PutValues, PutFiled
    <3>2. PairSourcesAndSinks(session', Put(freeSources, s), freeSinks)
      BY <2>3 DEF OnSourceAdded, Request
    <3>3. QED BY <2>1, <2>2, <3>1, <3>2
  <2>4. ASSUME NEW k \in Sinks, NEW id \in SessionIds, OnSinkAdded(k, id)
        PROVE  ~ Waiting(session', freeSources', freeSinks')
    <3>1. /\ Put(freeSinks, k) \in [EndPoints -> Sinks \cup {NoConnection}]
          /\ Filed(Put(freeSinks, k))
      BY <2>1, PutValues, PutFiled
    <3>2. PairSourcesAndSinks(session', freeSources, Put(freeSinks, k))
      BY <2>4 DEF OnSinkAdded, Request
    <3>3. QED BY <2>1, <2>2, <3>1, <3>2
  <2>5. ASSUME NEW c \in Connections,
               Connect(c) \/ Abandon(c)
                 \/ (c \in Sources /\ OnSourceRemoved(c))
                 \/ (c \in Sinks /\ OnSinkRemoved(c)),
               NEW d \in Connections, connection[d] = "open"
        PROVE  connection'[d] # "connected"
    BY <1>1, <2>5 DEF Connect, Abandon, OnSourceRemoved, OnSinkRemoved,
                      Disconnect, SourceInv, TypeOK
  <2>6. QED BY <1>1, <2>1, <2>3, <2>4, <2>5 DEF Next
<1>2. QED
  BY <1>1, SourceInvariant, ListsInvariant, PTL DEF Spec, AddingSettles
=============================================================================
