-------------------------- MODULE NegotiationProofs --------------------------
(***************************************************************************)
(* Theorems about how sources and viewers come to their connections, for   *)
(* any number of both, any sockets that close and open again, and any      *)
(* number of retries: Negotiation implements PeerLinks, so that a source   *)
(* is connected with no viewer but that of the pairing its attempt was     *)
(* made for or of a later pairing.                                         *)
(*                                                                         *)
(* A message is followed by what the queues may hold: each invariant about *)
(* messages says that every queue it can be in is a sequence over the set  *)
(* of messages that are right there.  A step keeps it when that set only   *)
(* grows and what is appended belongs to it.                               *)
(***************************************************************************)
EXTENDS Negotiation, MatchmakerProofs, SequenceTheorems, FiniteSetTheorems

-----------------------------------------------------------------------------
(***************************************************************************)
(* The types, which say in which direction each kind of message goes.      *)
(***************************************************************************)
Candidates(descriptions) == [type : {"candidate"}, of : descriptions]
Pairings == [type : {"pairing"}, number : Nat]

FromSource == Offers \cup Candidates(Offers)
FromSink == Answers \cup Candidates(Answers)
ToSource == FromSink \cup Pairings
ToSink == FromSource \cup Pairings

QueueTypes ==
  /\ up \in [Connections -> Seq(FromSource \cup FromSink)]
  /\ down \in [Connections -> Seq(ToSource \cup ToSink)]
  /\ \A s \in Sources : up[s] \in Seq(FromSource) /\ down[s] \in Seq(ToSource)
  /\ \A k \in Sinks : up[k] \in Seq(FromSink) /\ down[k] \in Seq(ToSink)
  /\ \A c \in Connections : connection[c] = "closed" =>
       up[c] = <<>> /\ down[c] = <<>>

Threads == {"none", "starting", "sleeping", "ended", "stuck"}

SourceClients ==
  [thread : Threads, retries : Nat, pairing : Nat, since : Nat, attempt : Nat,
   remote : Answers \cup {Nobody}, heard : BOOLEAN, link : Sinks \cup {Nobody}]

SourceTypes ==
  /\ source \in [Sources -> SourceClients]
  /\ \A s \in Sources : source[s].heard => source[s].remote # Nobody

Operations ==
  [operation : {"setRemoteDescription", "addIceCandidate"}, of : Offers]
    \cup [operation : {"createAnswer"}, of : {Nobody}]
    \cup [operation : {"setLocalDescription"}, of : Answers]

PeerConnections ==
  [peer : Nat, remote : Offers \cup {Nobody}, offered : BOOLEAN,
   created : Answers \cup {Nobody}, local : Answers \cup {Nobody},
   heard : BOOLEAN, chain : Seq(Operations)]

ViewerTypes ==
  /\ viewer \in [Sinks -> PeerConnections]
  /\ \A k \in Sinks : /\ viewer[k].offered => viewer[k].remote # Nobody
                      /\ viewer[k].peer = 0 => viewer[k].chain = <<>>

HistoryTypes ==
  /\ notices \in Seq([to : Connections, number : Nat])
  /\ paired \in [Sources -> Seq(Sinks)]
  /\ bounds \in [visits : [Connections -> Nat], retries : Nat, early : Nat]
  /\ early \in Nat

Types == QueueTypes /\ SourceTypes /\ ViewerTypes /\ HistoryTypes

(***************************************************************************)
(* A pair is its source's last; what the source is told of its pairings    *)
(* comes in their order, so that its attempts are for later and later ones.*)
(***************************************************************************)
PairsLast ==
  \A p \in pairs : /\ paired[p.source] # <<>>
                   /\ paired[p.source][Len(paired[p.source])] = p.sink

NoticesLast ==
  notices \in Seq({n \in [to : Connections, number : Nat] :
                     n.to \in Sources => n.number = Len(paired[n.to])})

NumbersRise(queue, from, to) ==
  \A i \in 1 .. Len(queue) : queue[i].type = "pairing" =>
    /\ from <= queue[i].number /\ queue[i].number <= to
    /\ \A j \in i .. Len(queue) : queue[j].type = "pairing" =>
         queue[i].number <= queue[j].number

PairingsInOrder ==
  \A s \in Sources :
    /\ source[s].since <= source[s].pairing
    /\ source[s].pairing <= Len(paired[s])
    /\ NumbersRise(down[s], source[s].pairing, Len(paired[s]))

(***************************************************************************)
(* An offer that reaches a viewer is one of an earlier attempt of its      *)
(* source, or the source has been paired with this viewer since it made    *)
(* the attempt.                                                            *)
(***************************************************************************)
PairedSince(s, k) ==
  \E n \in source[s].since .. Len(paired[s]) : n # 0 /\ paired[s][n] = k

Due(offer, k) ==
  /\ offer.attempt <= source[offer.source].attempt
  /\ offer.attempt = source[offer.source].attempt =>
       PairedSince(offer.source, k)

Sendable(s) ==
  {m \in FromSource : m.type = "offer" =>
                        m.source = s /\ m.attempt <= source[s].attempt}
Relayed(k) == {m \in ToSink : m.type = "offer" => Due(m, k)}
Awaited(k) ==
  {x \in Operations : x.operation = "setRemoteDescription" => Due(x.of, k)}

SentDue == \A s \in Sources : up[s] \in Seq(Sendable(s))
RelayedDue == \A k \in Sinks : down[k] \in Seq(Relayed(k))
AwaitedDue ==
  \A k \in Sinks : /\ viewer[k].chain \in Seq(Awaited(k))
                   /\ viewer[k].remote # Nobody => Due(viewer[k].remote, k)

OffersDue == SentDue /\ RelayedDue /\ AwaitedDue

(***************************************************************************)
(* The inductive invariant.                                                *)
(***************************************************************************)
LinksInv ==
  SourceInv /\ Types /\ PairsLast /\ NoticesLast /\ PairingsInOrder /\ OffersDue

-----------------------------------------------------------------------------
\* What taking the first message of a queue leaves there.
LEMMA TakenFirst ==
  ASSUME NEW S, NEW q \in Seq(S), q # <<>>
  PROVE  /\ Head(q) \in S /\ Head(q) = q[1] /\ Len(q) >= 1
         /\ Tail(q) \in Seq(S) /\ Len(Tail(q)) = Len(q) - 1
         /\ \A i \in 1 .. Len(q) - 1 : Tail(q)[i] = q[i + 1]
  BY HeadTailProperties, EmptySeq

\* What the gateway or a client sends is put behind what is there, unless the
\* socket is closed (Sent).
LEMMA SentTypes ==
  ASSUME NEW S, NEW T, NEW queue \in [Connections -> Seq(S)],
         NEW c \in Connections, queue[c] \in Seq(T),
         NEW messages \in Seq(T), T \subseteq S
  PROVE  /\ Sent(queue, c, messages) \in [Connections -> Seq(S)]
         /\ Sent(queue, c, messages)[c] \in Seq(T)
         /\ connection[c] = "closed" => Sent(queue, c, messages) = queue
<1>1. queue[c] \o messages \in Seq(T)
  BY ConcatProperties
<1>2. Seq(T) \subseteq Seq(S)
  BY SeqMonotonic
<1>3. QED BY <1>1, <1>2 DEF Sent

\* Sequences of two and of one.
LEMMA ShortSeqs ==
  ASSUME NEW S, NEW a \in S, NEW b \in S
  PROVE  /\ <<a>> \in Seq(S) /\ <<a, b>> \in Seq(S)
         /\ Len(<<a>>) = 1 /\ <<a>>[1] = a
  OBVIOUS

-----------------------------------------------------------------------------
(***************************************************************************)
(* What happens to the connections is the matchmaker's: every step of the  *)
(* negotiation is one of the matchmaker's or leaves it alone.              *)
(***************************************************************************)
LEMMA GatewayStep == NegotiationNext => [Next]_vars
<1> SUFFICES ASSUME NegotiationNext PROVE [Next]_vars
  OBVIOUS
<1>1. ASSUME NEW c \in Connections, Open(c) PROVE Next
  BY <1>1 DEF Open, Next
<1>2. ASSUME NEW c \in Connections, Close(c) PROVE Next
  BY <1>2 DEF Close, Next, Connections
<1>3. ASSUME NEW c \in Connections, NEW id \in SessionIds, AddConnection(c, id)
      PROVE Next
  BY <1>3 DEF AddConnection, Next, Connections
<1>4. CASE UNCHANGED gatewayVars
  BY <1>4 DEF gatewayVars, vars
<1>5. ASSUME NEW c \in Connections, Relay(c) PROVE UNCHANGED gatewayVars
  BY <1>5 DEF Relay
<1>6. ASSUME SendNotice PROVE UNCHANGED gatewayVars
  BY <1>6 DEF SendNotice
<1>7. ASSUME NEW s \in Sources,
             \/ OnSignalingMessageReceived(s) \/ NewPeer(s) \/ Timeout(s)
             \/ \E k \in Sinks : Link(s, k)
      PROVE UNCHANGED gatewayVars
  BY <1>7 DEF OnSignalingMessageReceived, NewPeer, Timeout, Link
<1>8. ASSUME NEW k \in Sinks, OnMessageReceived(k) \/ RunOperation(k)
      PROVE UNCHANGED gatewayVars
  BY <1>8 DEF OnMessageReceived, RunOperation, SetRemoteDescription, Operation,
              CreateAnswer, SetLocalDescription, AddIceCandidate
<1>9. QED
  BY <1>1, <1>2, <1>3, <1>4, <1>5, <1>6, <1>7, <1>8 DEF NegotiationNext

\* What the matchmaker promises it also promises to the clients.
THEOREM NegotiationMatches == NegotiationSpec => Spec
<1>1. NegotiationInit => Init
  BY DEF NegotiationInit
<1>2. [NegotiationNext]_allVars => [Next]_vars
  BY GatewayStep DEF allVars, gatewayVars, vars
<1>3. QED BY <1>1, <1>2, PTL DEF NegotiationSpec, Spec

-----------------------------------------------------------------------------
(***************************************************************************)
(* Types.                                                                  *)
(***************************************************************************)
\* A message says by its type what it is.
LEMMA MessageKinds ==
  /\ \A m \in ToSource : /\ m.type = "pairing" => m \in Pairings
                         /\ m.type = "answer" => m \in Answers
                         /\ m.type = "candidate" => m.of \in Answers
  /\ \A m \in ToSink : /\ m.type = "offer" => m \in Offers
                       /\ m.type = "candidate" => m.of \in Offers
  BY DEF ToSource, ToSink, FromSource, FromSink, Offers, Answers, Candidates,
         Pairings

\* What a source and a viewer send.
LEMMA SentMessages ==
  /\ \A s \in Sources, n \in Nat :
       Offer(s, n) \in Offers /\ Candidate(Offer(s, n)) \in Candidates(Offers)
  /\ \A k \in Sinks, n \in Nat, o \in Offers : Answer(k, n, o) \in Answers
  /\ \A answer \in Answers : Candidate(answer) \in Candidates(Answers)
  /\ \A n \in Nat : PairingComplete(n) \in Pairings
  BY DEF Offer, Offers, Answer, Answers, Candidate, Candidates, PairingComplete,
         Pairings

\* A queue that gets a message keeps to its direction.
LEMMA UpSent ==
  ASSUME QueueTypes, NEW c \in Connections,
         NEW messages \in Seq(IF c \in Sources THEN FromSource ELSE FromSink),
         up' = Sent(up, c, messages), UNCHANGED <<connection, down>>
  PROVE  QueueTypes'
<1> DEFINE S == FromSource \cup FromSink
           T == IF c \in Sources THEN FromSource ELSE FromSink
<1>1. up \in [Connections -> Seq(S)] /\ up[c] \in Seq(T) /\ T \subseteq S
  BY DEF QueueTypes, Connections
<1>2. messages \in Seq(T)
  OBVIOUS
<1> HIDE DEF S, T
<1>3. /\ up' \in [Connections -> Seq(S)]
      /\ up'[c] \in Seq(T)
      /\ up' = [up EXCEPT ![c] = up'[c]]
      /\ connection[c] = "closed" => up' = up
  <2>1. up' \in [Connections -> Seq(S)]
    BY <1>1, <1>2, SentTypes
  <2>2. up'[c] \in Seq(T)
    BY <1>1, <1>2, SentTypes
  <2>3. up' = [up EXCEPT ![c] = up'[c]]
    BY <1>1, <2>1 DEF Sent
  <2>4. connection[c] = "closed" => up' = up
    BY <1>1, <1>2, SentTypes
  <2>5. QED BY <2>1, <2>2, <2>3, <2>4
<1> USE DEF QueueTypes
<1>4. \A s \in Sources : up'[s] \in Seq(FromSource)
  BY <1>3 DEF T, Connections
<1>5. \A k \in Sinks : up'[k] \in Seq(FromSink)
  BY <1>3, RolesAssumption DEF T, Connections
<1>6. \A d \in Connections : connection'[d] = "closed" =>
        up'[d] = <<>> /\ down'[d] = <<>>
  BY <1>3
<1>7. QED BY <1>3, <1>4, <1>5, <1>6 DEF S

LEMMA DownSent ==
  ASSUME QueueTypes, NEW c \in Connections,
         NEW messages \in Seq(IF c \in Sources THEN ToSource ELSE ToSink),
         down' = Sent(down, c, messages), UNCHANGED <<connection, up>>
  PROVE  QueueTypes'
<1> DEFINE S == ToSource \cup ToSink
           T == IF c \in Sources THEN ToSource ELSE ToSink
<1>1. down \in [Connections -> Seq(S)] /\ down[c] \in Seq(T) /\ T \subseteq S
  BY DEF QueueTypes, Connections
<1>2. messages \in Seq(T)
  OBVIOUS
<1> HIDE DEF S, T
<1>3. /\ down' \in [Connections -> Seq(S)]
      /\ down'[c] \in Seq(T)
      /\ down' = [down EXCEPT ![c] = down'[c]]
      /\ connection[c] = "closed" => down' = down
  <2>1. down' \in [Connections -> Seq(S)]
    BY <1>1, <1>2, SentTypes
  <2>2. down'[c] \in Seq(T)
    BY <1>1, <1>2, SentTypes
  <2>3. down' = [down EXCEPT ![c] = down'[c]]
    BY <1>1, <2>1 DEF Sent
  <2>4. connection[c] = "closed" => down' = down
    BY <1>1, <1>2, SentTypes
  <2>5. QED BY <2>1, <2>2, <2>3, <2>4
<1> USE DEF QueueTypes
<1>4. \A s \in Sources : down'[s] \in Seq(ToSource)
  BY <1>3 DEF T, Connections
<1>5. \A k \in Sinks : down'[k] \in Seq(ToSink)
  BY <1>3, RolesAssumption DEF T, Connections
<1>6. \A d \in Connections : connection'[d] = "closed" =>
        up'[d] = <<>> /\ down'[d] = <<>>
  BY <1>3
<1>7. QED BY <1>3, <1>4, <1>5, <1>6 DEF S

\* A client that takes a message leaves the rest of its queue.
LEMMA DownTaken ==
  ASSUME QueueTypes, NEW c \in Connections, down[c] # <<>>,
         down' = [down EXCEPT ![c] = Tail(@)], UNCHANGED <<connection, up>>
  PROVE  /\ QueueTypes'
         /\ c \in Sources => Head(down[c]) \in ToSource
         /\ c \in Sinks => Head(down[c]) \in ToSink
<1> USE DEF QueueTypes
<1>1. /\ Tail(down[c]) \in Seq(ToSource \cup ToSink)
      /\ c \in Sources => /\ Tail(down[c]) \in Seq(ToSource)
                          /\ Head(down[c]) \in ToSource
      /\ c \in Sinks => /\ Tail(down[c]) \in Seq(ToSink)
                        /\ Head(down[c]) \in ToSink
  BY TakenFirst
<1>2. \A d \in Connections :
        down'[d] = IF d = c THEN Tail(down[c]) ELSE down[d]
  OBVIOUS
<1>3. QED BY <1>1, <1>2 DEF Connections

\* The queues keep their types in every step.
LEMMA QueueTypesNext ==
  ASSUME SourceInv, Types, NegotiationNext
  PROVE  QueueTypes'
<1> USE DEF Types
<1>1. ASSUME UNCHANGED <<up, down>>,
             \A c \in Connections : connection'[c] = "closed" =>
                                      connection[c] = "closed"
      PROVE  QueueTypes'
  BY <1>1 DEF QueueTypes
<1>2. ASSUME NEW c \in Connections, Open(c) PROVE QueueTypes'
  BY <1>1, <1>2 DEF Open, Connect, SourceInv, TypeOK
<1>3. ASSUME NEW c \in Connections, Close(c) PROVE QueueTypes'
  <2>1. connection' = [connection EXCEPT ![c] = "closed"]
    BY <1>3 DEF Close, Abandon, OnSourceRemoved, OnSinkRemoved, Disconnect
  <2>2. up' = [up EXCEPT ![c] = <<>>] /\ down' = [down EXCEPT ![c] = <<>>]
    BY <1>3 DEF Close
  <2>3. QED
    BY <2>1, <2>2, EmptySeq DEF QueueTypes, SourceInv, TypeOK, Connections
<1>4. ASSUME NEW c \in Connections, Relay(c) PROVE QueueTypes'
  <2> USE DEF QueueTypes
  <2>1. /\ connection' = connection /\ up[c] # <<>>
        /\ up' = [up EXCEPT ![c] = Tail(@)]
        /\ \A d \in Connections :
             down'[d] = IF d \in Partners(c) /\ connection[d] # "closed"
                          THEN Append(down[d], Head(up[c])) ELSE down[d]
        /\ down' = [d \in Connections |-> down'[d]]
    BY <1>4 DEF Relay, gatewayVars
  <2>2. /\ Tail(up[c]) \in Seq(FromSource \cup FromSink)
        /\ c \in Sources => /\ Tail(up[c]) \in Seq(FromSource)
                            /\ Head(up[c]) \in FromSource
        /\ c \in Sinks => /\ Tail(up[c]) \in Seq(FromSink)
                          /\ Head(up[c]) \in FromSink
    BY <2>1, TakenFirst
  <2>3. \A d \in Connections : up'[d] = IF d = c THEN Tail(up[c]) ELSE up[d]
    BY <2>1
  <2>4. /\ c \in Sources => Partners(c) \subseteq Sinks
        /\ c \in Sinks => Partners(c) \subseteq Sources
    BY RolesAssumption DEF Partners, SourceInv, TypeOK, Pair
  <2>5. \A s \in Sources : down'[s] \in Seq(ToSource)
    <3>1. TAKE s \in Sources
    <3>2. CASE s \in Partners(c) /\ connection[s] # "closed"
      <4>1. c \in Sinks
        BY <3>2, <2>4, RolesAssumption DEF Connections
      <4>2. Head(up[c]) \in ToSource /\ down[s] \in Seq(ToSource)
        BY <4>1, <2>2 DEF ToSource
      <4>3. down'[s] = Append(down[s], Head(up[c]))
        BY <3>2, <2>1 DEF Connections
      <4>4. QED BY <4>2, <4>3, AppendProperties
    <3>3. CASE ~ (s \in Partners(c) /\ connection[s] # "closed")
      BY <3>3, <2>1 DEF Connections
    <3>4. QED BY <3>2, <3>3
  <2>6. \A k \in Sinks : down'[k] \in Seq(ToSink)
    <3>1. TAKE k \in Sinks
    <3>2. CASE k \in Partners(c) /\ connection[k] # "closed"
      <4>1. c \in Sources
        BY <3>2, <2>4, RolesAssumption DEF Connections
      <4>2. Head(up[c]) \in ToSink /\ down[k] \in Seq(ToSink)
        BY <4>1, <2>2 DEF ToSink
      <4>3. down'[k] = Append(down[k], Head(up[c]))
        BY <3>2, <2>1 DEF Connections
      <4>4. QED BY <4>2, <4>3, AppendProperties
    <3>3. CASE ~ (k \in Partners(c) /\ connection[k] # "closed")
      BY <3>3, <2>1 DEF Connections
    <3>4. QED BY <3>2, <3>3
  <2>7. down' \in [Connections -> Seq(ToSource \cup ToSink)]
    <3>1. Seq(ToSource) \subseteq Seq(ToSource \cup ToSink)
      BY SeqMonotonic
    <3>2. Seq(ToSink) \subseteq Seq(ToSource \cup ToSink)
      BY SeqMonotonic
    <3>3. QED BY <3>1, <3>2, <2>1, <2>5, <2>6 DEF Connections
  <2>8. up' \in [Connections -> Seq(FromSource \cup FromSink)]
    BY <2>1, <2>2
  <2>9. /\ \A s \in Sources : up'[s] \in Seq(FromSource)
        /\ \A k \in Sinks : up'[k] \in Seq(FromSink)
    BY <2>2, <2>3 DEF Connections
  <2>10. \A d \in Connections : connection'[d] = "closed" =>
           up'[d] = <<>> /\ down'[d] = <<>>
    BY <2>1, <2>3
  <2>11. QED BY <2>5, <2>6, <2>7, <2>8, <2>9, <2>10
<1>5. ASSUME NEW c \in Connections, NEW id \in SessionIds, AddConnection(c, id)
      PROVE  QueueTypes'
  <2>1. connection' = [connection EXCEPT ![c] = "connected"]
    BY <1>5 DEF AddConnection, OnSourceAdded, OnSinkAdded, Request
  <2>2. UNCHANGED <<up, down>>
    BY <1>5 DEF AddConnection
  <2>3. QED BY <1>1, <2>1, <2>2 DEF SourceInv, TypeOK
<1>6. ASSUME SendNotice PROVE QueueTypes'
  <2>1. Head(notices) \in [to : Connections, number : Nat]
    BY <1>6, TakenFirst DEF SendNotice, HistoryTypes
  <2>2. PairingComplete(Head(notices).number) \in ToSource \cap ToSink
    BY <2>1, SentMessages DEF ToSource, ToSink
  <2> DEFINE T == IF Head(notices).to \in Sources THEN ToSource ELSE ToSink
  <2>3. PairingComplete(Head(notices).number) \in T
    BY <2>2
  <2> HIDE DEF T
  <2>4. <<PairingComplete(Head(notices).number)>> \in Seq(T)
    BY <2>3, ShortSeqs
  <2>5. UNCHANGED <<connection, up>> /\ Head(notices).to \in Connections
    BY <1>6, <2>1 DEF SendNotice, gatewayVars
  <2>6. down' = Sent(down, Head(notices).to,
                     <<PairingComplete(Head(notices).number)>>)
    BY <1>6 DEF SendNotice
  <2>7. QED BY <2>4, <2>5, <2>6, DownSent DEF T
<1>7. ASSUME NEW s \in Sources, OnSignalingMessageReceived(s) PROVE QueueTypes'
  BY <1>7, DownTaken DEF OnSignalingMessageReceived, gatewayVars, Connections
<1>8. ASSUME NEW s \in Sources, NewPeer(s) PROVE QueueTypes'
  <2> DEFINE offer == Offer(s, source[s].attempt + 1)
  <2>1. offer \in FromSource /\ Candidate(offer) \in FromSource
    BY SentMessages DEF FromSource, SourceTypes, SourceClients
  <2>2. up' = Sent(up, s, <<offer, Candidate(offer)>>)
    BY <1>8 DEF NewPeer
  <2>3. UNCHANGED <<connection, down>>
    BY <1>8 DEF NewPeer, gatewayVars
  <2> HIDE DEF offer
  <2>4. <<offer, Candidate(offer)>> \in
          Seq(IF s \in Sources THEN FromSource ELSE FromSink)
    BY <2>1
  <2>5. QED BY <2>2, <2>3, <2>4, UpSent DEF Connections
<1>9. ASSUME NEW s \in Sources, Timeout(s) \/ \E k \in Sinks : Link(s, k)
      PROVE  QueueTypes'
  BY <1>1, <1>9 DEF Timeout, Link, gatewayVars, socketVars
<1>10. ASSUME NEW k \in Sinks, OnMessageReceived(k) PROVE QueueTypes'
  BY <1>10, DownTaken DEF OnMessageReceived, gatewayVars, Connections
<1>11. ASSUME NEW k \in Sinks, RunOperation(k) PROVE QueueTypes'
  <2>1. CASE UNCHANGED <<up, down, connection>>
    BY <1>1, <2>1
  <2>2. CASE SetLocalDescription(k)
    <3> DEFINE answer == Head(viewer[k].chain).of
    <3>1. CASE UNCHANGED up
      BY <2>1, <2>2, <3>1 DEF SetLocalDescription, Operation, gatewayVars
    <3>2. CASE up' = Sent(up, k, <<answer, Candidate(answer)>>)
      <4>1. answer \in Answers
        <5>1. /\ viewer[k].chain \in Seq(Operations) /\ viewer[k].chain # <<>>
              /\ Head(viewer[k].chain).operation = "setLocalDescription"
          BY <2>2 DEF SetLocalDescription, Operation, ViewerTypes,
                      PeerConnections
        <5>2. Head(viewer[k].chain) \in Operations
          BY <5>1, TakenFirst
        <5>3. QED BY <5>1, <5>2 DEF Operations
      <4>2. UNCHANGED <<connection, down>>
        BY <2>2 DEF SetLocalDescription, Operation, gatewayVars
      <4> HIDE DEF answer
      <4>3. answer \in FromSink /\ Candidate(answer) \in FromSink
        BY <4>1, SentMessages DEF FromSink
      <4>4. <<answer, Candidate(answer)>> \in
              Seq(IF k \in Sources THEN FromSource ELSE FromSink)
        <5>1. <<answer, Candidate(answer)>> \in Seq(FromSink)
          BY <4>3, ShortSeqs
        <5>2. k \notin Sources
          BY RolesAssumption
        <5>3. QED BY <5>1, <5>2
      <4>5. QED BY <3>2, <4>2, <4>4, UpSent DEF Connections
    <3>3. QED BY <2>2, <3>1, <3>2 DEF SetLocalDescription
  <2>3. QED
    BY <1>11, <2>1, <2>2
       DEF RunOperation, SetRemoteDescription, CreateAnswer, AddIceCandidate,
           Operation, gatewayVars
<1>12. QED
  BY <1>2, <1>3, <1>4, <1>5, <1>6, <1>7, <1>8, <1>9, <1>10, <1>11
     DEF NegotiationNext

\* What a new peer connection makes of its client's fields.
Begun(client) ==
  [thread |-> "sleeping", retries |-> client.retries, pairing |-> client.pairing,
   since |-> client.pairing, attempt |-> client.attempt + 1, remote |-> Nobody,
   heard |-> FALSE, link |-> Nobody]

LEMMA NewPeerSource ==
  ASSUME SourceTypes, NEW s \in Sources, NewPeer(s)
  PROVE  /\ source' = [source EXCEPT ![s] = source'[s]]
         /\ source'[s] = Begun(source[s])
<1>1. source[s] \in SourceClients
  BY DEF SourceTypes
<1>2. source' = [source EXCEPT ![s] =
                  [source[s] EXCEPT !.thread = "sleeping",
                                    !.attempt = source[s].attempt + 1,
                                    !.since = source[s].pairing,
                                    !.remote = Nobody, !.heard = FALSE,
                                    !.link = Nobody]]
  BY DEF NewPeer
<1>3. QED BY <1>1, <1>2 DEF SourceTypes, SourceClients, Begun

\* The sources' clients keep their types in every step.
LEMMA SourceTypesNext ==
  ASSUME Types, NegotiationNext
  PROVE  SourceTypes'
<1> USE DEF Types
<1>1. ASSUME UNCHANGED source PROVE SourceTypes'
  BY <1>1 DEF SourceTypes
<1>2. ASSUME NEW c \in Connections, Open(c) \/ Close(c) \/ Relay(c)
      PROVE  SourceTypes'
  BY <1>1, <1>2 DEF Open, Close, Relay
<1>3. ASSUME NEW c \in Connections, NEW id \in SessionIds, AddConnection(c, id)
      PROVE  SourceTypes'
  BY <1>1, <1>3 DEF AddConnection
<1>4. ASSUME SendNotice PROVE SourceTypes'
  BY <1>1, <1>4 DEF SendNotice
<1>5. ASSUME NEW s \in Sources, OnSignalingMessageReceived(s)
      PROVE  SourceTypes'
  <2> DEFINE m == Head(down[s])
  <2>1. m \in ToSource
    BY <1>5, TakenFirst DEF OnSignalingMessageReceived, QueueTypes
  <2>2. CASE m.type = "pairing" /\ OnPairingComplete(s, m.number)
    <3>1. m.number \in Nat
      BY <2>1, <2>2, MessageKinds DEF Pairings
    <3>2. PICK thread \in Threads :
            source' = [source EXCEPT ![s].thread = thread, ![s].retries = 0,
                                     ![s].pairing = m.number]
      BY <2>2 DEF OnPairingComplete, Threads
    <3> HIDE DEF m
    <3>3. source' \in [Sources -> SourceClients]
      <4>1. [source[s] EXCEPT !.thread = thread, !.retries = 0,
                              !.pairing = m.number] \in SourceClients
        BY <3>1 DEF SourceTypes, SourceClients
      <4>2. QED BY <3>2, <4>1 DEF SourceTypes
    <3>4. \A t \in Sources : /\ source'[t].heard = source[t].heard
                             /\ source'[t].remote = source[t].remote
      BY <3>2 DEF SourceTypes, SourceClients
    <3>5. QED BY <3>3, <3>4 DEF SourceTypes
  <2>3. CASE m.type = "answer" /\ OnDescription(s, m)
    <3>1. m \in Answers
      BY <2>1, <2>3, MessageKinds
    <3>2. CASE source' = [source EXCEPT ![s].remote = m]
      BY <3>1, <3>2, NobodyAssumption DEF SourceTypes, SourceClients
    <3>3. QED BY <1>1, <2>3, <3>2 DEF OnDescription
  <2>4. CASE m.type = "candidate" /\ OnCandidate(s, m.of)
    <3>1. CASE UNCHANGED source
      BY <1>1, <3>1
    <3>2. CASE /\ source[s].remote # Nobody
               /\ source' = [source EXCEPT ![s].heard = TRUE]
      BY <3>2 DEF SourceTypes, SourceClients
    <3>3. QED BY <2>4, <3>1, <3>2 DEF OnCandidate
  <2>5. QED BY <1>5, <2>2, <2>3, <2>4 DEF OnSignalingMessageReceived
<1>6. ASSUME NEW s \in Sources, NewPeer(s) PROVE SourceTypes'
  <2>1. source'[s] \in SourceClients /\ ~ source'[s].heard
    <3>1. source[s] \in SourceClients
      BY DEF SourceTypes
    <3>2. /\ source[s].retries \in Nat /\ source[s].pairing \in Nat
          /\ source[s].attempt + 1 \in Nat
      BY <3>1 DEF SourceClients
    <3>3. source'[s] = Begun(source[s])
      BY <1>6, NewPeerSource
    <3>4. QED BY <3>2, <3>3 DEF SourceClients, Threads, Begun
  <2>2. source' = [source EXCEPT ![s] = source'[s]]
    BY <1>6, NewPeerSource
  <2>3. QED BY <2>1, <2>2 DEF SourceTypes
<1>7. ASSUME NEW s \in Sources, Timeout(s) PROVE SourceTypes'
  <2>1. CASE source' = [source EXCEPT ![s].thread = "ended"]
    BY <2>1 DEF SourceTypes, SourceClients, Threads
  <2>2. CASE source' = [source EXCEPT ![s].thread = "starting",
                                      ![s].retries = @ + 1]
    BY <2>2 DEF SourceTypes, SourceClients, Threads
  <2>3. QED BY <1>7, <2>1, <2>2 DEF Timeout
<1>8. ASSUME NEW s \in Sources, NEW k \in Sinks, Link(s, k) PROVE SourceTypes'
  BY <1>8 DEF Link, SourceTypes, SourceClients
<1>9. ASSUME NEW k \in Sinks, OnMessageReceived(k) PROVE SourceTypes'
  <2>1. CASE Reconnect(k)
    <3>1. source' = [s \in Sources |-> IF source[s].link = k
                                         THEN [source[s] EXCEPT !.link = Nobody]
                                         ELSE source[s]]
      BY <2>1 DEF Reconnect
    <3>2. QED BY <3>1 DEF SourceTypes, SourceClients
  <2>2. QED BY <1>1, <1>9, <2>1 DEF OnMessageReceived
<1>10. ASSUME NEW k \in Sinks, RunOperation(k) PROVE SourceTypes'
  BY <1>1, <1>10
     DEF RunOperation, SetRemoteDescription, CreateAnswer, SetLocalDescription,
         AddIceCandidate, Operation
<1>11. QED
  BY <1>2, <1>3, <1>4, <1>5, <1>6, <1>7, <1>8, <1>9, <1>10 DEF NegotiationNext

\* An operation of the chain leaves the ones behind it.
LEMMA ChainTaken ==
  ASSUME ViewerTypes, NEW k \in Sinks, NEW name, Operation(k, name)
  PROVE  /\ Head(viewer[k].chain) \in Operations
         /\ Head(viewer[k].chain).operation = name
         /\ viewer[k].peer # 0
         /\ Done(k) \in PeerConnections
         /\ Done(k).chain = Tail(viewer[k].chain)
         /\ Done(k).peer = viewer[k].peer
         /\ Done(k).remote = viewer[k].remote
         /\ Done(k).offered = viewer[k].offered
<1>1. viewer[k] \in PeerConnections
  BY DEF ViewerTypes
<1>2. viewer[k].chain \in Seq(Operations) /\ viewer[k].chain # <<>>
  BY <1>1 DEF Operation, PeerConnections
<1>3. /\ Head(viewer[k].chain) \in Operations
      /\ Tail(viewer[k].chain) \in Seq(Operations)
  BY <1>2, TakenFirst
<1>4. Head(viewer[k].chain).operation = name /\ viewer[k].peer # 0
  BY <1>2 DEF Operation, ViewerTypes
<1>5. QED BY <1>1, <1>3, <1>4 DEF Done, PeerConnections

\* A viewer whose one peer connection changes, to one with the right types.
LEMMA ViewerChanged ==
  ASSUME ViewerTypes, NEW k \in Sinks, NEW peer \in PeerConnections,
         viewer' = [viewer EXCEPT ![k] = peer],
         peer.offered => peer.remote # Nobody,
         peer.peer = 0 => peer.chain = <<>>
  PROVE  ViewerTypes'
  BY DEF ViewerTypes

\* The awaited continuation of an operation is put behind the others.
LEMMA ChainAwaits ==
  ASSUME ViewerTypes, NEW k \in Sinks, NEW name, Operation(k, name),
         NEW operation, NEW of,
         [operation |-> operation, of |-> of] \in Operations
  PROVE  /\ Awaits(k, operation, of) \in PeerConnections
         /\ Awaits(k, operation, of).chain =
              Append(Tail(viewer[k].chain), [operation |-> operation, of |-> of])
         /\ Awaits(k, operation, of).peer = viewer[k].peer
         /\ Awaits(k, operation, of).remote = viewer[k].remote
         /\ Awaits(k, operation, of).offered = viewer[k].offered
<1>1. /\ Done(k) \in PeerConnections
      /\ Done(k).chain = Tail(viewer[k].chain)
      /\ Done(k).peer = viewer[k].peer
      /\ Done(k).remote = viewer[k].remote
      /\ Done(k).offered = viewer[k].offered
  BY ChainTaken
<1>2. Done(k).chain \in Seq(Operations)
  BY <1>1 DEF PeerConnections
<1>3. Append(Done(k).chain, [operation |-> operation, of |-> of]) \in
        Seq(Operations)
  BY <1>2, AppendProperties
<1>4. QED BY <1>1, <1>3 DEF Awaits, PeerConnections

\* The viewers' peer connections keep their types in every step.
LEMMA ViewerTypesNext ==
  ASSUME Types, NegotiationNext
  PROVE  ViewerTypes'
<1> USE DEF Types
<1>1. ASSUME UNCHANGED viewer PROVE ViewerTypes'
  BY <1>1 DEF ViewerTypes
<1>2. \A n \in Nat : /\ NewPeerConnection(n) \in PeerConnections
                     /\ ~ NewPeerConnection(n).offered
                     /\ NewPeerConnection(n).chain = <<>>
  BY EmptySeq DEF NewPeerConnection, PeerConnections
<1>3. ASSUME NEW c \in Connections, Open(c) PROVE ViewerTypes'
  <2>1. CASE c \in Sinks
    <3>1. viewer' = [viewer EXCEPT ![c] = NewPeerConnection(0)]
      BY <1>3, <2>1 DEF Open
    <3>2. QED BY <1>2, <2>1, <3>1, ViewerChanged
  <2>2. QED BY <1>1, <1>3, <2>1 DEF Open
<1>4. ASSUME NEW c \in Connections, Close(c) \/ Relay(c) PROVE ViewerTypes'
  BY <1>1, <1>4 DEF Close, Relay
<1>5. ASSUME NEW c \in Connections, NEW id \in SessionIds, AddConnection(c, id)
      PROVE  ViewerTypes'
  BY <1>1, <1>5 DEF AddConnection
<1>6. ASSUME SendNotice PROVE ViewerTypes'
  BY <1>1, <1>6 DEF SendNotice
<1>7. ASSUME NEW s \in Sources,
             \/ OnSignalingMessageReceived(s) \/ NewPeer(s) \/ Timeout(s)
             \/ \E k \in Sinks : Link(s, k)
      PROVE  ViewerTypes'
  BY <1>1, <1>7 DEF OnSignalingMessageReceived, NewPeer, Timeout, Link
<1>8. ASSUME NEW k \in Sinks, OnMessageReceived(k) PROVE ViewerTypes'
  <2> DEFINE m == Head(down[k])
  <2>1. m \in ToSink
    BY <1>8, TakenFirst DEF OnMessageReceived, QueueTypes
  <2>2. viewer[k] \in PeerConnections
    BY DEF ViewerTypes
  <2>3. CASE Reconnect(k)
    <3>1. viewer' = [viewer EXCEPT ![k] = NewPeerConnection(viewer[k].peer + 1)]
      BY <2>3 DEF Reconnect
    <3>2. viewer[k].peer + 1 \in Nat
      BY <2>2 DEF PeerConnections
    <3>3. QED BY <1>2, <3>1, <3>2, ViewerChanged
  <2>4. ASSUME NEW operation, NEW of,
               [operation |-> operation, of |-> of] \in Operations,
               viewer[k].peer # 0, viewer' = Enqueued(k, operation, of)
        PROVE  ViewerTypes'
    <3> DEFINE peer == [viewer[k] EXCEPT !.chain =
                          Append(@, [operation |-> operation, of |-> of])]
    <3>1. Append(viewer[k].chain, [operation |-> operation, of |-> of]) \in
            Seq(Operations)
      BY <2>2, <2>4, AppendProperties DEF PeerConnections
    <3>2. /\ peer \in PeerConnections
          /\ peer.offered => peer.remote # Nobody
          /\ peer.peer # 0
      BY <2>2, <2>4, <3>1 DEF PeerConnections, ViewerTypes
    <3>3. viewer' = [viewer EXCEPT ![k] = peer]
      BY <2>4 DEF Enqueued
    <3>4. QED BY <3>2, <3>3, ViewerChanged
  <2>5. CASE /\ m.type = "offer" /\ viewer[k].peer # 0
             /\ viewer' = Enqueued(k, "setRemoteDescription", m)
    BY <2>1, <2>4, <2>5, MessageKinds DEF Operations
  <2>6. CASE /\ m.type = "candidate" /\ viewer[k].peer # 0
             /\ viewer' = Enqueued(k, "addIceCandidate", m.of)
    BY <2>1, <2>4, <2>6, MessageKinds DEF Operations
  <2>7. QED BY <1>1, <1>8, <2>3, <2>5, <2>6 DEF OnMessageReceived
<1>9. ASSUME NEW k \in Sinks, SetRemoteDescription(k) PROVE ViewerTypes'
  <2> DEFINE offer == Head(viewer[k].chain).of
             await == Awaits(k, "createAnswer", Nobody)
             peer == [await EXCEPT !.remote = offer, !.offered = TRUE,
                                   !.heard = FALSE]
  <2>1. Operation(k, "setRemoteDescription")
    BY <1>9 DEF SetRemoteDescription
  <2>2. offer \in Offers /\ offer # Nobody /\ viewer[k].peer # 0
    BY <2>1, ChainTaken, NobodyAssumption DEF Operations
  <2>3. await \in PeerConnections /\ await.peer = viewer[k].peer
    <3>1. [operation |-> "createAnswer", of |-> Nobody] \in Operations
      BY DEF Operations
    <3>2. QED BY <2>1, <3>1, ChainAwaits
  <2>4. viewer' = [viewer EXCEPT ![k] = peer]
    BY <1>9 DEF SetRemoteDescription
  <2> HIDE DEF offer, await
  <2>5. peer \in PeerConnections /\ peer.remote # Nobody /\ peer.peer # 0
    BY <2>2, <2>3 DEF PeerConnections
  <2>6. QED BY <2>4, <2>5, ViewerChanged
<1>10. ASSUME NEW k \in Sinks, NEW name, Operation(k, name),
              viewer' = [viewer EXCEPT ![k] = Done(k)]
       PROVE  ViewerTypes'
  <2>1. /\ Done(k) \in PeerConnections /\ Done(k).peer # 0
        /\ Done(k).offered => Done(k).remote # Nobody
    BY <1>10, ChainTaken DEF ViewerTypes
  <2>2. QED BY <1>10, <2>1, ViewerChanged
<1>11. ASSUME NEW k \in Sinks, CreateAnswer(k) PROVE ViewerTypes'
  <2> DEFINE answer == Answer(k, viewer[k].peer, viewer[k].remote)
             await == Awaits(k, "setLocalDescription", answer)
             peer == [await EXCEPT !.created = answer]
  <2>1. Operation(k, "createAnswer")
    BY <1>11 DEF CreateAnswer
  <2>2. CASE viewer[k].offered
    <3>1. viewer[k].peer \in Nat /\ viewer[k].remote \in Offers
      BY <2>2 DEF ViewerTypes, PeerConnections
    <3>2. answer \in Answers
      BY <3>1, SentMessages
    <3>3. viewer' = [viewer EXCEPT ![k] = peer]
      BY <1>11, <2>2 DEF CreateAnswer
    <3> HIDE DEF answer
    <3>4. [operation |-> "setLocalDescription", of |-> answer] \in Operations
      BY <3>2 DEF Operations
    <3>5. /\ await \in PeerConnections /\ await.peer = viewer[k].peer
          /\ await.remote = viewer[k].remote
      BY <2>1, <3>4, ChainAwaits
    <3>6. viewer[k].peer # 0 /\ viewer[k].remote # Nobody
      BY <2>1, <2>2, ChainTaken DEF ViewerTypes
    <3> HIDE DEF await
    <3>7. peer \in PeerConnections /\ peer.remote # Nobody /\ peer.peer # 0
      BY <3>2, <3>5, <3>6 DEF PeerConnections
    <3>8. QED BY <3>3, <3>7, ViewerChanged
  <2>3. CASE ~ viewer[k].offered
    <3>1. viewer' = [viewer EXCEPT ![k] = Done(k)]
      BY <1>11, <2>3 DEF CreateAnswer
    <3>2. QED BY <1>10, <2>1, <3>1
  <2>4. QED BY <2>2, <2>3
<1>12. ASSUME NEW k \in Sinks, SetLocalDescription(k) PROVE ViewerTypes'
  <2> DEFINE answer == Head(viewer[k].chain).of
             done == Done(k)
             peer == [done EXCEPT !.local = answer, !.offered = FALSE,
                                  !.created = Nobody]
  <2>1. Operation(k, "setLocalDescription")
    BY <1>12 DEF SetLocalDescription
  <2>2. answer \in Answers /\ done \in PeerConnections /\ done.peer # 0
    BY <2>1, ChainTaken DEF Operations
  <2>3. CASE viewer' = [viewer EXCEPT ![k] = Done(k)]
    BY <1>10, <2>1, <2>3
  <2>4. CASE viewer' = [viewer EXCEPT ![k] = peer]
    <3> HIDE DEF answer, done
    <3>1. peer \in PeerConnections /\ ~ peer.offered /\ peer.peer # 0
      BY <2>2 DEF PeerConnections
    <3>2. QED BY <2>4, <3>1, ViewerChanged
  <2>5. QED BY <1>12, <2>3, <2>4 DEF SetLocalDescription
<1>13. ASSUME NEW k \in Sinks, AddIceCandidate(k) PROVE ViewerTypes'
  <2> DEFINE done == Done(k)
             heard == done.heard \/ viewer[k].remote = Head(viewer[k].chain).of
             peer == [done EXCEPT !.heard = heard]
  <2>1. Operation(k, "addIceCandidate")
    BY <1>13 DEF AddIceCandidate
  <2>2. /\ done \in PeerConnections /\ done.peer # 0
        /\ done.offered => done.remote # Nobody
    BY <2>1, ChainTaken DEF ViewerTypes
  <2>3. viewer' = [viewer EXCEPT ![k] = peer]
    BY <1>13 DEF AddIceCandidate
  <2>4. heard \in BOOLEAN
    BY <2>2, Zenon DEF PeerConnections
  <2> HIDE DEF done, heard
  <2>5. /\ peer \in PeerConnections /\ peer.peer # 0
        /\ peer.offered => peer.remote # Nobody
    BY <2>2, <2>4 DEF PeerConnections
  <2>6. QED BY <2>3, <2>5, ViewerChanged
<1>14. QED
  BY <1>3, <1>4, <1>5, <1>6, <1>7, <1>8, <1>9, <1>11, <1>12, <1>13
     DEF NegotiationNext, RunOperation

-----------------------------------------------------------------------------
(***************************************************************************)
(* Pairings.                                                               *)
(***************************************************************************)
\* The sources that are paired by an addition, each with one viewer, and the
\* pairs there are afterwards (Matchmaker.cs:166-184).
LEMMA NewPairs ==
  ASSUME SourceInv', NEW c \in Connections, NEW id, AddConnection(c, id)
  PROVE  \E some \in SUBSET Sources : \E made \in [some -> Sinks] :
           /\ paired' = [s \in Sources |->
                          IF s \in some THEN Append(paired[s], made[s])
                                        ELSE paired[s]]
           /\ \A p \in pairs' : IF p.source \in some
                                  THEN p.sink = made[p.source]
                                  ELSE p \in pairs
           /\ \A p \in pairs' \ pairs : p.source \in some
<1> DEFINE new == pairs' \ pairs
           viewerOf(s) == (CHOOSE p \in new : p.source = s).sink
           some == {s \in Sources : \E p \in new : p.source = s}
           made == [s \in some |-> viewerOf(s)]
<1>1. new \subseteq Pair
  BY DEF SourceInv, TypeOK
<1>2. \A p \in new : /\ p.source \in some
                     /\ viewerOf(p.source) = p.sink
  BY <1>1 DEF SourceInv, SourceHeldOnce, Pair
<1>3. made \in [some -> Sinks]
  BY <1>1, <1>2 DEF Pair
<1>4. \A p \in pairs' : p.source \in some => p \in new
  BY DEF SourceInv, SourceHeldOnce
<1>5. paired' = [s \in Sources |->
                  IF s \in some THEN Append(paired[s], made[s]) ELSE paired[s]]
  <2>1. paired' = [s \in Sources |->
                    IF \E p \in new : p.source = s
                      THEN Append(paired[s], viewerOf(s)) ELSE paired[s]]
    BY DEF AddConnection
  <2>2. QED BY <2>1
<1>6. \A p \in pairs' : IF p.source \in some THEN p.sink = made[p.source]
                                             ELSE p \in pairs
  BY <1>2, <1>4
<1>7. some \in SUBSET Sources /\ \A p \in pairs' \ pairs : p.source \in some
  BY <1>2
<1> HIDE DEF made, some, new
<1>8. QED
  <2> USE <1>3, <1>7
  <2>1. WITNESS some \in SUBSET Sources
  <2>2. WITNESS made \in [some -> Sinks]
  <2>3. QED BY <1>5, <1>6 DEF new

\* The new pairs are finitely many, for each has a source of its own.
LEMMA NewPairsFinite ==
  ASSUME SourceInv'
  PROVE  Cardinality(pairs' \ pairs) \in Nat
<1> DEFINE new == pairs' \ pairs
           sourceOf == [p \in new |-> p.source]
<1>1. sourceOf \in Injection(new, Sources)
  <2>1. sourceOf \in [new -> Sources]
    BY DEF SourceInv, TypeOK, Pair
  <2>2. \A p, q \in new : sourceOf[p] = sourceOf[q] => p = q
    BY DEF SourceInv, SourceHeldOnce
  <2>3. QED BY <2>1, <2>2 DEF Injection, IsInjective
<1>2. IsFiniteSet(Sources)
  BY ClientsAssumption, FS_Subset DEF Connections
<1>3. QED BY <1>1, <1>2, FS_Injection, FS_CardinalityType

\* What a pair tells its source is the number of the source's last pairing
\* (Matchmaker.cs:22-33).
LEMMA NewNotices ==
  ASSUME SourceInv', Types, NEW c \in Connections, NEW id, AddConnection(c, id)
  PROVE  /\ notices' \in Seq([to : Connections, number : Nat])
         /\ NoticesLast'
<1> DEFINE new == pairs' \ pairs
           Right == {n \in [to : Connections, number : Nat] :
                       n.to \in Sources => n.number = Len(paired'[n.to])}
<1>1. PICK made \in SetToSeqs(new) : notices' = Notices(made)
  BY DEF AddConnection
<1>2. /\ made \in [1 .. Cardinality(new) -> new] /\ Cardinality(new) \in Nat
      /\ Len(made) = Cardinality(new)
  <2>1. Cardinality(new) \in Nat
    BY NewPairsFinite
  <2>2. made \in [1 .. Cardinality(new) -> new]
    BY DEF SetToSeqs
  <2> HIDE DEF new
  <2>3. QED BY <2>1, <2>2
<1>3. \A p \in new : /\ p.source \in Sources /\ p.sink \in Sinks
                     /\ Len(paired'[p.source]) = Len(paired[p.source]) + 1
                     /\ Len(paired[p.source]) \in Nat
  <2>1. TAKE p \in new
  <2>2. PICK some \in SUBSET Sources : \E made2 \in [some -> Sinks] :
          /\ paired' = [s \in Sources |->
                         IF s \in some THEN Append(paired[s], made2[s])
                                       ELSE paired[s]]
          /\ \A q \in pairs' \ pairs : q.source \in some
    BY NewPairs
  <2>3. p \in Pair
    BY DEF SourceInv, TypeOK
  <2>4. p.source \in Sources /\ p.source \in some /\ p.sink \in Sinks
    BY <2>2, <2>3 DEF Pair
  <2>5. paired[p.source] \in Seq(Sinks)
    BY <2>4 DEF Types, HistoryTypes
  <2>6. QED BY <2>2, <2>4, <2>5, AppendProperties
<1>4. \A i \in 1 .. 2 * Len(made) : (i + 1) \div 2 \in 1 .. Cardinality(new)
  BY <1>2
<1>5. \A i \in 1 .. 2 * Len(made) : notices'[i] \in Right
  <2>1. TAKE i \in 1 .. 2 * Len(made)
  <2> DEFINE p == made[(i + 1) \div 2]
  <2>2. p \in new
    BY <1>2, <1>4
  <2>3. notices'[i] = [to |-> IF i % 2 = 1 THEN p.source ELSE p.sink,
                       number |-> Len(paired[p.source]) + 1]
    BY <1>1 DEF Notices
  <2> HIDE DEF p
  <2>4. QED
    BY <1>3, <2>2, <2>3, RolesAssumption DEF Connections
<1>6. notices' \in [1 .. 2 * Len(made) -> Right] /\ 2 * Len(made) \in Nat
  <2>1. notices' = [i \in 1 .. 2 * Len(made) |-> notices'[i]]
    BY <1>1 DEF Notices
  <2>2. 2 * Len(made) \in Nat
    BY <1>2
  <2> HIDE DEF Right
  <2>3. QED BY <1>5, <2>1, <2>2
<1> HIDE DEF Right
<1>7. notices' \in Seq(Right)
  BY <1>6
<1>8. Right \subseteq [to : Connections, number : Nat]
  BY DEF Right
<1>9. notices' \in Seq([to : Connections, number : Nat])
  BY <1>7, <1>8, SeqMonotonic
<1>10. QED BY <1>7, <1>9 DEF Right, NoticesLast

\* The connection a source waits for or has is its last pair's.
LEMMA NewPairsLast ==
  ASSUME SourceInv', Types, PairsLast,
         NEW c \in Connections, NEW id, AddConnection(c, id)
  PROVE  paired' \in [Sources -> Seq(Sinks)] /\ PairsLast'
<1>1. PICK some \in SUBSET Sources : \E made \in [some -> Sinks] :
        /\ paired' = [s \in Sources |-> IF s \in some
                                          THEN Append(paired[s], made[s])
                                          ELSE paired[s]]
        /\ \A p \in pairs' : IF p.source \in some THEN p.sink = made[p.source]
                                                  ELSE p \in pairs
  BY NewPairs
<1>2. PICK made \in [some -> Sinks] :
        /\ paired' = [s \in Sources |-> IF s \in some
                                          THEN Append(paired[s], made[s])
                                          ELSE paired[s]]
        /\ \A p \in pairs' : IF p.source \in some THEN p.sink = made[p.source]
                                                  ELSE p \in pairs
  BY <1>1
<1>3. \A s \in Sources : paired[s] \in Seq(Sinks)
  BY DEF Types, HistoryTypes
<1>4. \A s \in some :
        /\ paired'[s] = Append(paired[s], made[s])
        /\ paired'[s] \in Seq(Sinks) /\ paired'[s] # <<>>
        /\ paired'[s][Len(paired'[s])] = made[s]
  <2>1. TAKE s \in some
  <2>2. paired[s] \in Seq(Sinks) /\ made[s] \in Sinks
    BY <1>2, <1>3
  <2>3. paired'[s] = Append(paired[s], made[s])
    BY <1>2
  <2>4. QED BY <2>2, <2>3, AppendProperties
<1>5. \A s \in Sources \ some : paired'[s] = paired[s]
  BY <1>2
<1>6. paired' \in [Sources -> Seq(Sinks)]
  BY <1>2, <1>3, <1>4, <1>5
<1>7. PairsLast'
  <2> SUFFICES ASSUME NEW p \in pairs'
               PROVE  /\ paired'[p.source] # <<>>
                      /\ paired'[p.source][Len(paired'[p.source])] = p.sink
    BY DEF PairsLast
  <2>1. p.source \in Sources
    BY DEF SourceInv, TypeOK, Pair
  <2>2. CASE p.source \in some
    BY <1>2, <1>4, <2>2
  <2>3. CASE p.source \notin some
    <3>1. p \in pairs /\ paired'[p.source] = paired[p.source]
      BY <1>2, <1>5, <2>1, <2>3
    <3>2. QED BY <3>1 DEF PairsLast
  <2>4. QED BY <2>2, <2>3
<1>8. QED BY <1>6, <1>7

\* The pairings and what is told of them, in every step.
LEMMA HistoryNext ==
  ASSUME SourceInv, SourceInv', Types, PairsLast, NoticesLast, NegotiationNext
  PROVE  HistoryTypes' /\ PairsLast' /\ NoticesLast'
<1> USE DEF Types
<1>1. ASSUME UNCHANGED <<notices, paired, bounds, early>>,
             pairs' \subseteq pairs
      PROVE  HistoryTypes' /\ PairsLast' /\ NoticesLast'
  BY <1>1 DEF HistoryTypes, PairsLast, NoticesLast
<1>2. ASSUME NEW c \in Connections, Open(c)
      PROVE  HistoryTypes' /\ PairsLast' /\ NoticesLast'
  <2>1. /\ bounds' = [bounds EXCEPT !.visits[c] = @ - 1]
        /\ bounds.visits[c] > 0
        /\ UNCHANGED <<notices, paired, early, pairs>>
    BY <1>2 DEF Open, Connect
  <2>2. bounds' \in [visits : [Connections -> Nat], retries : Nat, early : Nat]
    <3>1. bounds.visits \in [Connections -> Nat]
      BY DEF HistoryTypes
    <3>2. [bounds.visits EXCEPT ![c] = @ - 1] \in [Connections -> Nat]
      BY <3>1, <2>1
    <3>3. bounds' = [bounds EXCEPT
                       !.visits = [bounds.visits EXCEPT ![c] = @ - 1]]
      BY <2>1
    <3>4. QED BY <3>2, <3>3 DEF HistoryTypes
  <2>3. QED BY <2>1, <2>2 DEF HistoryTypes, PairsLast, NoticesLast
<1>3. ASSUME NEW c \in Connections, Close(c)
      PROVE  HistoryTypes' /\ PairsLast' /\ NoticesLast'
  <2>1. pairs' \subseteq pairs
    BY <1>3 DEF Close, Abandon, OnSourceRemoved, OnSinkRemoved
  <2>2. QED BY <1>1, <1>3, <2>1 DEF Close
<1>4. ASSUME NEW c \in Connections, Relay(c)
      PROVE  HistoryTypes' /\ PairsLast' /\ NoticesLast'
  BY <1>1, <1>4 DEF Relay, gatewayVars
<1>5. ASSUME NEW c \in Connections, NEW id \in SessionIds, AddConnection(c, id)
      PROVE  HistoryTypes' /\ PairsLast' /\ NoticesLast'
  <2>1. notices' \in Seq([to : Connections, number : Nat]) /\ NoticesLast'
    BY <1>5, NewNotices
  <2>2. paired' \in [Sources -> Seq(Sinks)] /\ PairsLast'
    BY <1>5, NewPairsLast
  <2>3. UNCHANGED <<bounds, early>>
    BY <1>5 DEF AddConnection
  <2>4. QED BY <2>1, <2>2, <2>3 DEF HistoryTypes
<1>6. ASSUME SendNotice PROVE HistoryTypes' /\ PairsLast' /\ NoticesLast'
  <2>1. /\ notices # <<>> /\ notices' = Tail(notices)
        /\ UNCHANGED <<paired, bounds, early, pairs>>
    BY <1>6 DEF SendNotice, gatewayVars
  <2>2. notices' \in Seq([to : Connections, number : Nat])
    BY <2>1, TakenFirst DEF HistoryTypes
  <2>3. NoticesLast'
    BY <2>1, TakenFirst DEF NoticesLast
  <2>4. QED BY <2>1, <2>2, <2>3 DEF HistoryTypes, PairsLast
<1>7. ASSUME NEW s \in Sources, Timeout(s)
      PROVE  HistoryTypes' /\ PairsLast' /\ NoticesLast'
  <2>1. early' \in Nat
    BY <1>7 DEF Timeout, HistoryTypes
  <2>2. UNCHANGED <<notices, paired, bounds, pairs>>
    BY <1>7 DEF Timeout, gatewayVars
  <2>3. QED BY <2>1, <2>2 DEF HistoryTypes, PairsLast, NoticesLast
<1>8. ASSUME NEW s \in Sources,
             \/ OnSignalingMessageReceived(s) \/ NewPeer(s)
             \/ \E k \in Sinks : Link(s, k)
      PROVE  HistoryTypes' /\ PairsLast' /\ NoticesLast'
  BY <1>1, <1>8
     DEF OnSignalingMessageReceived, NewPeer, Link, gatewayVars, socketVars
<1>9. ASSUME NEW k \in Sinks, OnMessageReceived(k) \/ RunOperation(k)
      PROVE  HistoryTypes' /\ PairsLast' /\ NoticesLast'
  BY <1>1, <1>9
     DEF OnMessageReceived, RunOperation, SetRemoteDescription, CreateAnswer,
         SetLocalDescription, AddIceCandidate, Operation, gatewayVars
<1>10. QED
  BY <1>2, <1>3, <1>4, <1>5, <1>6, <1>7, <1>8, <1>9 DEF NegotiationNext

\* Numbers that rise keep rising: in what is left of a queue, from the number
\* that was taken on, ...
LEMMA RiseTaken ==
  ASSUME NEW q \in Seq(ToSource), q # <<>>, NEW from \in Nat, NEW to \in Nat,
         NumbersRise(q, from, to)
  PROVE  /\ NumbersRise(Tail(q), from, to)
         /\ Head(q).type = "pairing" =>
              /\ from <= Head(q).number /\ Head(q).number <= to
              /\ NumbersRise(Tail(q), Head(q).number, to)
<1>1. /\ Head(q) = q[1] /\ Len(q) \in Nat /\ Len(q) >= 1
      /\ Len(Tail(q)) = Len(q) - 1
      /\ \A i \in 1 .. Len(q) - 1 : Tail(q)[i] = q[i + 1]
  BY TakenFirst, LenProperties
<1>2. NumbersRise(Tail(q), from, to)
  BY <1>1 DEF NumbersRise
<1>3. ASSUME Head(q).type = "pairing"
      PROVE  /\ from <= Head(q).number /\ Head(q).number <= to
             /\ NumbersRise(Tail(q), Head(q).number, to)
  <2>1. /\ from <= q[1].number /\ q[1].number <= to
        /\ \A j \in 1 .. Len(q) : q[j].type = "pairing" =>
             q[1].number <= q[j].number
    BY <1>1, <1>3 DEF NumbersRise
  <2>2. ASSUME NEW i \in 1 .. Len(Tail(q)), Tail(q)[i].type = "pairing"
        PROVE  /\ Head(q).number <= Tail(q)[i].number
               /\ Tail(q)[i].number <= to
               /\ \A j \in i .. Len(Tail(q)) : Tail(q)[j].type = "pairing" =>
                    Tail(q)[i].number <= Tail(q)[j].number
    BY <1>1, <1>2, <2>1, <2>2 DEF NumbersRise
  <2>3. QED BY <1>1, <2>1, <2>2 DEF NumbersRise
<1>4. QED BY <1>2, <1>3

\* ... when more pairings are made, ...
LEMMA RiseFurther ==
  ASSUME NEW q \in Seq(ToSource), NEW from \in Nat, NEW to \in Nat,
         NEW further \in Nat, to <= further, NumbersRise(q, from, to)
  PROVE  NumbersRise(q, from, further)
<1>1. \A i \in 1 .. Len(q) : q[i].type = "pairing" => q[i].number \in Nat
  BY ElementOfSeq, MessageKinds DEF Pairings
<1>2. QED BY <1>1 DEF NumbersRise

\* ... and when a message is added that is no notice, or the last pairing's.
LEMMA RiseAdded ==
  ASSUME NEW q \in Seq(ToSource), NEW m \in ToSource,
         NEW from \in Nat, NEW to \in Nat, from <= to,
         NumbersRise(q, from, to), m.type = "pairing" => m.number = to
  PROVE  NumbersRise(Append(q, m), from, to)
<1> DEFINE more == Append(q, m)
<1>1. /\ Len(q) \in Nat /\ Len(more) = Len(q) + 1 /\ more[Len(q) + 1] = m
      /\ \A i \in 1 .. Len(q) : more[i] = q[i]
  BY AppendProperties, LenProperties
<1> HIDE DEF more
<1>2. ASSUME NEW i \in 1 .. Len(more), more[i].type = "pairing"
      PROVE  /\ from <= more[i].number /\ more[i].number <= to
             /\ \A j \in i .. Len(more) : more[j].type = "pairing" =>
                  more[i].number <= more[j].number
  <2>1. CASE i = Len(q) + 1
    BY <1>1, <1>2, <2>1
  <2>2. CASE i \in 1 .. Len(q)
    <3>1. /\ from <= q[i].number /\ q[i].number <= to
          /\ \A j \in i .. Len(q) : q[j].type = "pairing" =>
               q[i].number <= q[j].number
      BY <1>1, <1>2, <2>2 DEF NumbersRise
    <3>2. \A j \in i .. Len(more) : j = Len(q) + 1 \/ j \in i .. Len(q)
      BY <1>1, <2>2
    <3>3. QED BY <1>1, <2>2, <3>1, <3>2
  <2>3. QED BY <1>1, <2>1, <2>2
<1>3. QED BY <1>2 DEF NumbersRise, more

\* The pairings a source has had stay what they are.
PairedGrows ==
  \A s \in Sources : /\ Len(paired[s]) <= Len(paired'[s])
                     /\ \A n \in 1 .. Len(paired[s]) :
                          paired'[s][n] = paired[s][n]

LEMMA PairedGrowsNext ==
  ASSUME SourceInv', Types, NegotiationNext
  PROVE  PairedGrows
<1>1. ASSUME UNCHANGED paired PROVE PairedGrows
  <2>1. \A s \in Sources : Len(paired[s]) \in Nat
    BY LenProperties DEF Types, HistoryTypes
  <2>2. QED BY <1>1, <2>1 DEF PairedGrows
<1>2. ASSUME NEW c \in Connections, NEW id \in SessionIds, AddConnection(c, id)
      PROVE  PairedGrows
  <2>1. PICK some \in SUBSET Sources : \E made \in [some -> Sinks] :
          paired' = [s \in Sources |-> IF s \in some
                                         THEN Append(paired[s], made[s])
                                         ELSE paired[s]]
    BY <1>2, NewPairs
  <2>2. PICK made \in [some -> Sinks] :
          paired' = [s \in Sources |-> IF s \in some
                                         THEN Append(paired[s], made[s])
                                         ELSE paired[s]]
    BY <2>1
  <2>3. SUFFICES ASSUME NEW s \in Sources
                 PROVE  /\ Len(paired[s]) <= Len(paired'[s])
                        /\ \A n \in 1 .. Len(paired[s]) :
                             paired'[s][n] = paired[s][n]
    BY DEF PairedGrows
  <2>4. paired[s] \in Seq(Sinks) /\ Len(paired[s]) \in Nat
    BY LenProperties DEF Types, HistoryTypes
  <2>5. CASE s \in some
    <3>1. paired'[s] = Append(paired[s], made[s]) /\ made[s] \in Sinks
      BY <2>2, <2>5
    <3>2. QED BY <2>4, <3>1, AppendProperties
  <2>6. CASE s \notin some
    BY <2>2, <2>4, <2>6
  <2>7. QED BY <2>5, <2>6
<1>3. QED
  BY <1>1, <1>2
     DEF NegotiationNext, Open, Close, Relay, SendNotice, NewPeer, Timeout, Link,
         OnSignalingMessageReceived, OnMessageReceived, RunOperation,
         SetRemoteDescription, CreateAnswer, SetLocalDescription,
         AddIceCandidate, Operation, socketVars

\* What a pair relays reaches its other side behind all that is there.
LEMMA RelayedTo ==
  ASSUME SourceInv, Types, NEW c \in Connections, Relay(c), NEW d \in Connections
  PROVE  \/ down'[d] = down[d]
         \/ /\ down'[d] = Append(down[d], Head(up[c]))
            /\ \/ /\ c \in Sources /\ d \in Sinks
                  /\ [source |-> c, sink |-> d] \in pairs
                  /\ Head(up[c]) \in FromSource
               \/ /\ c \in Sinks /\ d \in Sources
                  /\ Head(up[c]) \in FromSink
<1>1. down'[d] = IF d \in Partners(c) /\ connection[d] # "closed"
                   THEN Append(down[d], Head(up[c])) ELSE down[d]
  BY DEF Relay
<1>2. /\ up[c] # <<>>
      /\ c \in Sources => Head(up[c]) \in FromSource
      /\ c \in Sinks => Head(up[c]) \in FromSink
  BY TakenFirst DEF Relay, Types, QueueTypes
<1>3. ASSUME d \in Partners(c)
      PROVE  \/ /\ c \in Sources /\ d \in Sinks
                /\ [source |-> c, sink |-> d] \in pairs
             \/ c \in Sinks /\ d \in Sources
  <2>1. CASE \E p \in pairs : p.source = c /\ p.sink = d
    <3>1. PICK p \in pairs : p.source = c /\ p.sink = d
      BY <2>1
    <3>2. p \in Pair
      BY DEF SourceInv, TypeOK
    <3>3. p = [source |-> c, sink |-> d] /\ c \in Sources /\ d \in Sinks
      BY <3>1, <3>2 DEF Pair
    <3>4. QED BY <3>1, <3>3
  <2>2. CASE \E p \in pairs : p.sink = c /\ p.source = d
    BY <2>2 DEF SourceInv, TypeOK, Pair
  <2>3. QED BY <1>3, <2>1, <2>2 DEF Partners
<1>4. QED BY <1>1, <1>2, <1>3

\* Pairings are heard of, and attempts made for them, in their order.
LEMMA PairingsInOrderNext ==
  ASSUME SourceInv, SourceInv', Types, NoticesLast, PairingsInOrder,
         NegotiationNext
  PROVE  PairingsInOrder'
<1> DEFINE Ordered(s) == /\ source[s].since <= source[s].pairing
                         /\ source[s].pairing <= Len(paired[s])
                         /\ NumbersRise(down[s], source[s].pairing,
                                        Len(paired[s]))
<1>1. \A s \in Sources :
        /\ s \in Connections
        /\ down[s] \in Seq(ToSource) /\ Len(paired[s]) \in Nat
        /\ source[s].since \in Nat /\ source[s].pairing \in Nat
        /\ Ordered(s)
  BY LenProperties
     DEF Types, QueueTypes, SourceTypes, SourceClients, HistoryTypes,
         PairingsInOrder, Connections
<1>2. ASSUME \A s \in Sources : /\ source'[s].since = source[s].since
                                /\ source'[s].pairing = source[s].pairing
                                /\ paired'[s] = paired[s],
             \A s \in Sources : \/ down'[s] = down[s] \/ down'[s] = <<>>
                                \/ \E m \in ToSource :
                                     /\ down'[s] = Append(down[s], m)
                                     /\ m.type = "pairing" =>
                                          m.number = Len(paired[s])
      PROVE  PairingsInOrder'
  <2> SUFFICES ASSUME NEW s \in Sources PROVE Ordered(s)'
    BY DEF PairingsInOrder
  <2>1. CASE down'[s] = down[s]
    BY <1>1, <1>2, <2>1
  <2>2. CASE down'[s] = <<>>
    <3>1. NumbersRise(<<>>, source[s].pairing, Len(paired[s]))
      BY DEF NumbersRise
    <3>2. QED BY <1>1, <1>2, <2>2, <3>1
  <2>3. ASSUME NEW m \in ToSource, down'[s] = Append(down[s], m),
               m.type = "pairing" => m.number = Len(paired[s])
        PROVE  Ordered(s)'
    <3>1. NumbersRise(Append(down[s], m), source[s].pairing, Len(paired[s]))
      BY <1>1, <2>3, RiseAdded
    <3>2. QED BY <1>1, <1>2, <2>3, <3>1
  <2>4. QED BY <1>2, <2>1, <2>2, <2>3
<1>3. ASSUME UNCHANGED <<source, paired, down>> PROVE PairingsInOrder'
  BY <1>2, <1>3
<1>4. ASSUME NEW c \in Connections, Open(c) PROVE PairingsInOrder'
  BY <1>3, <1>4 DEF Open
<1>5. ASSUME NEW c \in Connections, Close(c) PROVE PairingsInOrder'
  <2>1. /\ down' = [down EXCEPT ![c] = <<>>]
        /\ UNCHANGED <<source, paired>>
    BY <1>5 DEF Close
  <2>2. \A s \in Sources : down'[s] = down[s] \/ down'[s] = <<>>
    BY <2>1 DEF Types, QueueTypes, Connections
  <2>3. QED BY <1>2, <2>1, <2>2
<1>6. ASSUME NEW c \in Connections, Relay(c) PROVE PairingsInOrder'
  <2>1. UNCHANGED <<source, paired>>
    BY <1>6 DEF Relay
  <2>2. ASSUME NEW s \in Sources
        PROVE  \/ down'[s] = down[s]
               \/ \E m \in ToSource : /\ down'[s] = Append(down[s], m)
                                      /\ m.type # "pairing"
    <3>1. \/ down'[s] = down[s]
          \/ /\ down'[s] = Append(down[s], Head(up[c]))
             /\ Head(up[c]) \in FromSink
      BY <1>1, <1>6, RelayedTo, RolesAssumption
    <3>2. \A m \in FromSink : m \in ToSource /\ m.type # "pairing"
      BY DEF ToSource, FromSink, Answers, Candidates
    <3>3. QED BY <3>1, <3>2
  <2>3. QED BY <1>2, <2>1, <2>2
<1>7. ASSUME NEW c \in Connections, NEW id \in SessionIds, AddConnection(c, id)
      PROVE  PairingsInOrder'
  <2> SUFFICES ASSUME NEW s \in Sources PROVE Ordered(s)'
    BY DEF PairingsInOrder
  <2>1. UNCHANGED <<source, down>>
    BY <1>7 DEF AddConnection
  <2>2. Len(paired[s]) <= Len(paired'[s])
    BY PairedGrowsNext DEF PairedGrows
  <2>3. Len(paired'[s]) \in Nat
    BY <1>7, NewPairsLast, LenProperties
  <2>4. NumbersRise(down[s], source[s].pairing, Len(paired'[s]))
    BY <1>1, <2>2, <2>3, RiseFurther
  <2>5. QED BY <1>1, <2>1, <2>2, <2>3, <2>4
<1>8. ASSUME SendNotice PROVE PairingsInOrder'
  <2> DEFINE n == Head(notices)
  <2>1. /\ n \in [to : Connections, number : Nat]
        /\ n.to \in Sources => n.number = Len(paired[n.to])
    BY <1>8, TakenFirst DEF SendNotice, NoticesLast
  <2>2. /\ down' = Sent(down, n.to, <<PairingComplete(n.number)>>)
        /\ UNCHANGED <<source, paired>>
    BY <1>8 DEF SendNotice
  <2>3. PairingComplete(n.number) \in ToSource
    BY <2>1, SentMessages DEF ToSource
  <2> HIDE DEF n
  <2>4. ASSUME NEW s \in Sources
        PROVE  \/ down'[s] = down[s]
               \/ \E m \in ToSource : /\ down'[s] = Append(down[s], m)
                                      /\ m.number = Len(paired[s])
    <3>1. CASE s = n.to
      <4>1. \/ down'[s] = down[s]
            \/ down'[s] = down[s] \o <<PairingComplete(n.number)>>
        BY <1>1, <2>2, <3>1 DEF Sent, Types, QueueTypes
      <4>2. down[s] \o <<PairingComplete(n.number)>> =
              Append(down[s], PairingComplete(n.number))
        BY <1>1, <2>3, AppendIsConcat
      <4>3. PairingComplete(n.number).number = Len(paired[s])
        BY <2>1, <3>1 DEF PairingComplete
      <4>4. QED BY <2>3, <4>1, <4>2, <4>3
    <3>2. CASE s # n.to
      BY <1>1, <2>2, <3>2 DEF Sent, Types, QueueTypes
    <3>3. QED BY <3>1, <3>2
  <2>5. QED BY <1>2, <2>2, <2>4
<1>9. ASSUME NEW s \in Sources, OnSignalingMessageReceived(s)
      PROVE  PairingsInOrder'
  <2> DEFINE m == Head(down[s])
  <2>1. /\ down[s] # <<>> /\ down' = [down EXCEPT ![s] = Tail(@)]
        /\ UNCHANGED paired
    BY <1>9 DEF OnSignalingMessageReceived
  <2>2. m \in ToSource
    BY <1>1, <2>1, TakenFirst
  <2>3. /\ NumbersRise(Tail(down[s]), source[s].pairing, Len(paired[s]))
        /\ m.type = "pairing" =>
             /\ source[s].pairing <= m.number /\ m.number <= Len(paired[s])
             /\ NumbersRise(Tail(down[s]), m.number, Len(paired[s]))
    BY <1>1, <2>1, RiseTaken
  <2>4. \A t \in Sources : down'[t] = IF t = s THEN Tail(down[s]) ELSE down[t]
    BY <1>1, <2>1 DEF Types, QueueTypes
  <2>5. CASE m.type = "pairing" /\ OnPairingComplete(s, m.number)
    <3>1. m.number \in Nat
      BY <2>2, <2>5, MessageKinds DEF Pairings
    <3>2. PICK thread :
            source' = [source EXCEPT ![s].thread = thread, ![s].retries = 0,
                                     ![s].pairing = m.number]
      BY <2>5 DEF OnPairingComplete
    <3> HIDE DEF m
    <3>3. \A t \in Sources :
            /\ source'[t].since = source[t].since
            /\ source'[t].pairing = IF t = s THEN m.number ELSE source[t].pairing
      BY <3>2 DEF Types, SourceTypes, SourceClients
    <3>4. QED
      <4> SUFFICES ASSUME NEW t \in Sources PROVE Ordered(t)'
        BY DEF PairingsInOrder
      <4>1. CASE t = s
        BY <1>1, <2>1, <2>3, <2>4, <2>5, <3>1, <3>3, <4>1
      <4>2. CASE t # s
        BY <1>1, <2>1, <2>4, <3>3, <4>2
      <4>3. QED BY <4>1, <4>2
  <2>6. ASSUME \A t \in Sources : /\ source'[t].since = source[t].since
                                  /\ source'[t].pairing = source[t].pairing
        PROVE  PairingsInOrder'
    <3> SUFFICES ASSUME NEW t \in Sources PROVE Ordered(t)'
      BY DEF PairingsInOrder
    <3>1. QED BY <1>1, <2>1, <2>3, <2>4, <2>6
  <2>7. CASE OnDescription(s, m)
    BY <2>6, <2>7 DEF OnDescription, Types, SourceTypes, SourceClients
  <2>8. CASE OnCandidate(s, m.of)
    BY <2>6, <2>8 DEF OnCandidate, Types, SourceTypes, SourceClients
  <2>9. QED BY <1>9, <2>5, <2>7, <2>8 DEF OnSignalingMessageReceived
<1>10. ASSUME NEW s \in Sources, NewPeer(s) PROVE PairingsInOrder'
  <2> SUFFICES ASSUME NEW t \in Sources PROVE Ordered(t)'
    BY DEF PairingsInOrder
  <2>1. UNCHANGED <<paired, down>>
    BY <1>10 DEF NewPeer
  <2>2. CASE t = s
    <3>1. source'[s] = Begun(source[s])
      BY <1>10, NewPeerSource DEF Types
    <3>2. QED BY <1>1, <2>1, <2>2, <3>1 DEF Begun
  <2>3. CASE t # s
    <3>1. source'[t] = source[t]
      BY <1>10, <2>3 DEF NewPeer, Types, SourceTypes
    <3>2. QED BY <1>1, <2>1, <3>1
  <2>4. QED BY <2>2, <2>3
<1>11. ASSUME NEW s \in Sources, Timeout(s) \/ \E k \in Sinks : Link(s, k)
       PROVE  PairingsInOrder'
  <2>1. UNCHANGED <<paired, down>>
    BY <1>11 DEF Timeout, Link, socketVars
  <2>2. \A t \in Sources : /\ source'[t].since = source[t].since
                           /\ source'[t].pairing = source[t].pairing
    BY <1>11 DEF Timeout, Link, Types, SourceTypes, SourceClients
  <2>3. QED BY <1>2, <2>1, <2>2
<1>12. ASSUME NEW k \in Sinks, OnMessageReceived(k) PROVE PairingsInOrder'
  <2>1. down' = [down EXCEPT ![k] = Tail(@)] /\ UNCHANGED paired
    BY <1>12 DEF OnMessageReceived
  <2>2. \A s \in Sources : down'[s] = down[s]
    BY <2>1, RolesAssumption DEF Types, QueueTypes, Connections
  <2>3. \A s \in Sources : /\ source'[s].since = source[s].since
                           /\ source'[s].pairing = source[s].pairing
    BY <1>12 DEF OnMessageReceived, Reconnect, Types, SourceTypes, SourceClients
  <2>4. QED BY <1>2, <2>1, <2>2, <2>3
<1>13. ASSUME NEW k \in Sinks, RunOperation(k) PROVE PairingsInOrder'
  BY <1>3, <1>13
     DEF RunOperation, SetRemoteDescription, CreateAnswer, SetLocalDescription,
         AddIceCandidate, Operation
<1>14. QED
  BY <1>4, <1>5, <1>6, <1>7, <1>8, <1>9, <1>10, <1>11, <1>12, <1>13
     DEF NegotiationNext

-----------------------------------------------------------------------------
(***************************************************************************)
(* Offers.                                                                 *)
(***************************************************************************)
\* A source goes on with its attempt or begins the next.
Attempts ==
  \A s \in Sources : \/ /\ source'[s].attempt = source[s].attempt
                        /\ source'[s].since = source[s].since
                     \/ source'[s].attempt = source[s].attempt + 1

LEMMA AttemptsNext ==
  ASSUME Types, NegotiationNext
  PROVE  Attempts
<1> USE DEF Types
<1>1. ASSUME UNCHANGED source PROVE Attempts
  BY <1>1 DEF Attempts
<1>2. ASSUME NEW s \in Sources, OnSignalingMessageReceived(s) PROVE Attempts
  <2> DEFINE m == Head(down[s])
  <2>1. CASE OnPairingComplete(s, m.number)
    <3> DEFINE n == m.number
    <3>1. PICK thread :
            source' = [source EXCEPT ![s].thread = thread, ![s].retries = 0,
                                     ![s].pairing = n]
      BY <2>1 DEF OnPairingComplete
    <3> HIDE DEF n
    <3>2. QED BY <3>1 DEF Attempts, SourceTypes, SourceClients
  <2>2. CASE OnDescription(s, m) \/ OnCandidate(s, m.of)
    BY <2>2 DEF OnDescription, OnCandidate, Attempts, SourceTypes, SourceClients
  <2>3. QED BY <1>2, <2>1, <2>2 DEF OnSignalingMessageReceived
<1>3. ASSUME NEW s \in Sources, NewPeer(s) PROVE Attempts
  <2>1. source' = [source EXCEPT ![s] = source'[s]]
    BY <1>3, NewPeerSource
  <2>2. source'[s] = Begun(source[s])
    BY <1>3, NewPeerSource
  <2>3. source'[s].attempt = source[s].attempt + 1
    BY <2>2 DEF Begun
  <2>4. \A t \in Sources \ {s} : source'[t] = source[t]
    BY <2>1 DEF SourceTypes
  <2>5. QED BY <2>3, <2>4 DEF Attempts
<1>4. ASSUME NEW s \in Sources, Timeout(s) \/ \E k \in Sinks : Link(s, k)
      PROVE  Attempts
  BY <1>4 DEF Timeout, Link, Attempts, SourceTypes, SourceClients
<1>5. ASSUME NEW k \in Sinks, OnMessageReceived(k) PROVE Attempts
  BY <1>5 DEF OnMessageReceived, Reconnect, Attempts, SourceTypes, SourceClients
<1>6. QED
  BY <1>1, <1>2, <1>3, <1>4, <1>5
     DEF NegotiationNext, Open, Close, Relay, AddConnection, SendNotice,
         RunOperation, SetRemoteDescription, CreateAnswer, SetLocalDescription,
         AddIceCandidate, Operation

\* Whatever is due stays due: the viewers that were paired since the attempt
\* began stay so, and the next attempt makes the offers of this one old.
LEMMA DueStays ==
  ASSUME Types, PairedGrows, Attempts, HistoryTypes',
         NEW offer \in Offers, NEW k \in Sinks, Due(offer, k)
  PROVE  Due(offer, k)'
<1> DEFINE s == offer.source
<1>1. /\ s \in Sources /\ offer.attempt \in Nat
      /\ source[s].attempt \in Nat /\ source[s].since \in Nat
      /\ Len(paired[s]) \in Nat /\ Len(paired'[s]) \in Nat
  BY LenProperties
     DEF Offers, Types, SourceTypes, SourceClients, HistoryTypes
<1>2. \/ source'[s].attempt = source[s].attempt + 1
      \/ /\ source'[s].attempt = source[s].attempt
         /\ source'[s].since = source[s].since
  BY <1>1 DEF Attempts
<1>3. /\ Len(paired[s]) <= Len(paired'[s])
      /\ \A n \in 1 .. Len(paired[s]) : paired'[s][n] = paired[s][n]
  BY <1>1 DEF PairedGrows
<1>4. /\ offer.attempt <= source[s].attempt
      /\ offer.attempt = source[s].attempt =>
           \E n \in source[s].since .. Len(paired[s]) :
             n # 0 /\ paired[s][n] = k
  BY DEF Due, PairedSince
<1> HIDE DEF s
<1>5. /\ offer.attempt <= source'[s].attempt
      /\ offer.attempt = source'[s].attempt =>
           \E n \in source'[s].since .. Len(paired'[s]) :
             n # 0 /\ paired'[s][n] = k
  <2>1. CASE source'[s].attempt = source[s].attempt + 1
    BY <1>1, <1>4, <2>1
  <2>2. CASE /\ source'[s].attempt = source[s].attempt
             /\ source'[s].since = source[s].since
             /\ offer.attempt = source[s].attempt
    <3>1. PICK n \in source[s].since .. Len(paired[s]) :
            n # 0 /\ paired[s][n] = k
      BY <1>4, <2>2
    <3>2. n \in source[s].since .. Len(paired'[s]) /\ paired'[s][n] = k
      BY <1>1, <1>3, <3>1
    <3>3. QED BY <1>1, <2>2, <3>1, <3>2
  <2>3. QED BY <1>1, <1>2, <1>4, <2>1, <2>2
<1>6. QED BY <1>5 DEF Due, PairedSince, s

LEMMA QueuesStayDue ==
  ASSUME Types, PairedGrows, Attempts, HistoryTypes'
  PROVE  /\ \A s \in Sources : Seq(Sendable(s)) \subseteq Seq(Sendable(s)')
         /\ \A k \in Sinks : /\ Seq(Relayed(k)) \subseteq Seq(Relayed(k)')
                             /\ Seq(Awaited(k)) \subseteq Seq(Awaited(k)')
<1>1. ASSUME NEW s \in Sources
      PROVE  Seq(Sendable(s)) \subseteq Seq(Sendable(s)')
  <2>1. source[s].attempt \in Nat
    BY DEF Types, SourceTypes, SourceClients
  <2>2. \A m \in FromSource : m.type = "offer" => m \in Offers
    BY DEF FromSource, Candidates
  <2>3. Sendable(s) \subseteq Sendable(s)'
    BY <2>1, <2>2 DEF Sendable, Attempts, Offers
  <2>4. QED BY <2>3, SeqMonotonic
<1>2. ASSUME NEW k \in Sinks
      PROVE  Seq(Relayed(k)) \subseteq Seq(Relayed(k)')
  <2>1. Relayed(k) \subseteq Relayed(k)'
    BY DueStays, MessageKinds DEF Relayed
  <2>2. QED BY <2>1, SeqMonotonic
<1>3. ASSUME NEW k \in Sinks
      PROVE  Seq(Awaited(k)) \subseteq Seq(Awaited(k)')
  <2>1. \A x \in Operations : x.operation = "setRemoteDescription" =>
                                x.of \in Offers
    BY DEF Operations
  <2>2. Awaited(k) \subseteq Awaited(k)'
    BY <2>1, DueStays DEF Awaited
  <2>3. QED BY <2>2, SeqMonotonic
<1>4. QED BY <1>1, <1>2, <1>3

\* A source has only its own offers on their way.
LEMMA SentDueNext ==
  ASSUME SourceInv, SourceInv', Types, HistoryTypes', SentDue, NegotiationNext
  PROVE  SentDue'
<1>1. ASSUME \A s \in Sources : up'[s] \in Seq(Sendable(s)) PROVE SentDue'
  BY <1>1, PairedGrowsNext, AttemptsNext, QueuesStayDue DEF SentDue
<1>2. CASE UNCHANGED up
  BY <1>1, <1>2 DEF SentDue
<1>3. up \in [Connections -> Seq(FromSource \cup FromSink)]
  BY DEF Types, QueueTypes
<1>4. ASSUME NEW c \in Connections, Close(c) PROVE SentDue'
  <2>1. up' = [up EXCEPT ![c] = <<>>]
    BY <1>4 DEF Close
  <2>2. QED BY <1>1, <1>3, <2>1, EmptySeq DEF SentDue, Connections
<1>5. ASSUME NEW c \in Connections, Relay(c) PROVE SentDue'
  <2>1. up[c] # <<>> /\ up' = [up EXCEPT ![c] = Tail(@)]
    BY <1>5 DEF Relay
  <2>2. c \in Sources => Tail(up[c]) \in Seq(Sendable(c))
    BY <2>1, TakenFirst DEF SentDue
  <2>3. QED BY <1>1, <1>3, <2>1, <2>2 DEF SentDue, Connections
<1>6. ASSUME NEW s \in Sources, NewPeer(s) PROVE SentDue'
  <2> DEFINE offer == Offer(s, source[s].attempt + 1)
  <2>1. up' = Sent(up, s, <<offer, Candidate(offer)>>)
    BY <1>6 DEF NewPeer
  <2>2. source[s].attempt + 1 \in Nat
    BY DEF Types, SourceTypes, SourceClients
  <2>3. source'[s].attempt = source[s].attempt + 1
    <3>1. source'[s] = Begun(source[s])
      BY <1>6, NewPeerSource DEF Types
    <3>2. QED BY <3>1 DEF Begun
  <2>4. offer \in FromSource /\ Candidate(offer) \in FromSource
    BY <2>2, SentMessages DEF FromSource
  <2>5. offer \in Sendable(s)' /\ Candidate(offer) \in Sendable(s)'
    BY <2>2, <2>3, <2>4 DEF Sendable, Offer, Candidate
  <2> HIDE DEF offer
  <2>6. <<offer, Candidate(offer)>> \in Seq(Sendable(s)')
    BY <2>5, ShortSeqs
  <2>7. \A t \in Sources : up[t] \in Seq(Sendable(t)')
    BY PairedGrowsNext, AttemptsNext, QueuesStayDue DEF SentDue
  <2>8. up[s] \o <<offer, Candidate(offer)>> \in Seq(Sendable(s)')
    BY <2>6, <2>7, ConcatProperties
  <2>9. up' = up \/ up' = [up EXCEPT ![s] = @ \o <<offer, Candidate(offer)>>]
    BY <2>1 DEF Sent
  <2>10. QED BY <1>3, <2>7, <2>8, <2>9 DEF SentDue, Connections
<1>7. ASSUME NEW k \in Sinks, RunOperation(k) PROVE SentDue'
  <2>1. \A s \in Sources : up'[s] = up[s]
    BY <1>3, <1>7, RolesAssumption
       DEF RunOperation, SetRemoteDescription, CreateAnswer,
           SetLocalDescription, AddIceCandidate, Sent, Connections
  <2>2. QED BY <1>1, <2>1 DEF SentDue
<1>8. QED
  BY <1>2, <1>4, <1>5, <1>6, <1>7
     DEF NegotiationNext, Open, AddConnection, SendNotice, Timeout, Link,
         OnSignalingMessageReceived, OnMessageReceived, socketVars

\* What reaches a viewer is due there: a pair relays the offers of the attempts
\* its source has made since it was paired, or older ones (Matchmaker.cs:46).
LEMMA RelayedDueNext ==
  ASSUME SourceInv, SourceInv', Types, HistoryTypes', PairsLast,
         PairingsInOrder, SentDue, RelayedDue, NegotiationNext
  PROVE  RelayedDue'
<1>1. ASSUME \A k \in Sinks : down'[k] \in Seq(Relayed(k)) PROVE RelayedDue'
  BY <1>1, PairedGrowsNext, AttemptsNext, QueuesStayDue DEF RelayedDue
<1>2. CASE UNCHANGED down
  BY <1>1, <1>2 DEF RelayedDue
<1>3. down \in [Connections -> Seq(ToSource \cup ToSink)]
  BY DEF Types, QueueTypes
<1>4. ASSUME NEW c \in Connections, Close(c) PROVE RelayedDue'
  <2>1. down' = [down EXCEPT ![c] = <<>>]
    BY <1>4 DEF Close
  <2>2. QED BY <1>1, <1>3, <2>1, EmptySeq DEF RelayedDue, Connections
<1>5. ASSUME NEW c \in Connections, Relay(c) PROVE RelayedDue'
  <2> SUFFICES ASSUME NEW k \in Sinks PROVE down'[k] \in Seq(Relayed(k))
    BY <1>1
  <2> DEFINE m == Head(up[c])
  <2>1. \/ down'[k] = down[k]
        \/ /\ down'[k] = Append(down[k], m)
           /\ c \in Sources /\ [source |-> c, sink |-> k] \in pairs
    BY <1>5, RelayedTo, RolesAssumption DEF Connections
  <2>2. ASSUME c \in Sources, [source |-> c, sink |-> k] \in pairs
        PROVE  m \in Relayed(k)
    <3>1. m \in Sendable(c)
      BY <1>5, <2>2, TakenFirst DEF Relay, SentDue
    <3>2. /\ paired[c] # <<>> /\ paired[c][Len(paired[c])] = k
      BY <2>2 DEF PairsLast
    <3>3. /\ paired[c] \in Seq(Sinks)
          /\ source[c].since \in Nat /\ source[c].pairing \in Nat
          /\ source[c].since <= source[c].pairing
          /\ source[c].pairing <= Len(paired[c])
      BY <2>2 DEF Types, HistoryTypes, SourceTypes, SourceClients,
                  PairingsInOrder
    <3>4. Len(paired[c]) \in source[c].since .. Len(paired[c]) \ {0}
      BY <3>2, <3>3, EmptySeq
    <3>5. PairedSince(c, k)
      BY <3>2, <3>4 DEF PairedSince
    <3> HIDE DEF m
    <3>6. m.type = "offer" => Due(m, k)
      BY <3>1, <3>5 DEF Sendable, Due
    <3>7. QED BY <3>1, <3>6 DEF Sendable, Relayed, ToSink
  <2> HIDE DEF m
  <2>3. QED BY <2>1, <2>2, AppendProperties DEF RelayedDue
<1>6. ASSUME SendNotice PROVE RelayedDue'
  <2> DEFINE n == Head(notices)
             notice == PairingComplete(n.number)
  <2>1. n \in [to : Connections, number : Nat]
    BY <1>6, TakenFirst DEF SendNotice, Types, HistoryTypes
  <2>2. down' = Sent(down, n.to, <<notice>>)
    BY <1>6 DEF SendNotice
  <2>3. notice \in Pairings
    BY <2>1, SentMessages
  <2> HIDE DEF n, notice
  <2>4. \A k \in Sinks : notice \in Relayed(k)
    BY <2>3 DEF Pairings, Relayed, ToSink
  <2>5. \A k \in Sinks : down[k] \o <<notice>> \in Seq(Relayed(k))
    <3>1. TAKE k \in Sinks
    <3>2. <<notice>> \in Seq(Relayed(k)) /\ down[k] \in Seq(Relayed(k))
      BY <2>4, ShortSeqs DEF RelayedDue
    <3>3. QED BY <3>2, ConcatProperties
  <2>6. \A k \in Sinks : down'[k] = down[k] \/ down'[k] = down[k] \o <<notice>>
    BY <1>3, <2>2 DEF Sent, Connections
  <2>7. QED BY <1>1, <2>5, <2>6 DEF RelayedDue
<1>7. ASSUME NEW s \in Sources, OnSignalingMessageReceived(s)
      PROVE  RelayedDue'
  <2>1. \A k \in Sinks : down'[k] = down[k]
    BY <1>3, <1>7, RolesAssumption DEF OnSignalingMessageReceived, Connections
  <2>2. QED BY <1>1, <2>1 DEF RelayedDue
<1>8. ASSUME NEW k \in Sinks, OnMessageReceived(k) PROVE RelayedDue'
  <2>1. down[k] # <<>> /\ down' = [down EXCEPT ![k] = Tail(@)]
    BY <1>8 DEF OnMessageReceived
  <2>2. Tail(down[k]) \in Seq(Relayed(k))
    BY <2>1, TakenFirst DEF RelayedDue
  <2>3. QED BY <1>1, <1>3, <2>1, <2>2 DEF RelayedDue, Connections
<1>9. QED
  BY <1>2, <1>4, <1>5, <1>6, <1>7, <1>8
     DEF NegotiationNext, Open, AddConnection, NewPeer, Timeout, Link,
         RunOperation, SetRemoteDescription, CreateAnswer, SetLocalDescription,
         AddIceCandidate, Operation, socketVars

-----------------------------------------------------------------------------
(***************************************************************************)
(* The viewers' chains.                                                    *)
(***************************************************************************)
Op(operation, of) == [operation |-> operation, of |-> of]

Starts(k) == viewer'[k].chain = <<>> /\ viewer'[k].remote = Nobody

Handles(k) ==
  /\ down[k] # <<>>
  /\ \E x \in Operations :
       /\ viewer'[k].chain = Append(viewer[k].chain, x)
       /\ \/ /\ Head(down[k]).type = "offer"
             /\ x = Op("setRemoteDescription", Head(down[k]))
          \/ x.operation = "addIceCandidate"
  /\ viewer'[k].remote = viewer[k].remote

TakesOffer(k) ==
  /\ viewer[k].chain # <<>>
  /\ Head(viewer[k].chain).operation = "setRemoteDescription"
  /\ viewer'[k].chain =
       Append(Tail(viewer[k].chain), Op("createAnswer", Nobody))
  /\ viewer'[k].remote = Head(viewer[k].chain).of

AnswersOffer(k) ==
  /\ viewer[k].chain # <<>>
  /\ Head(viewer[k].chain).operation = "createAnswer"
  /\ viewer[k].remote # Nobody
  /\ \E n \in Nat : viewer'[k].chain =
       Append(Tail(viewer[k].chain),
              Op("setLocalDescription", Answer(k, n, viewer[k].remote)))
  /\ viewer'[k].remote = viewer[k].remote

Finishes(k) ==
  /\ viewer[k].chain # <<>>
  /\ viewer'[k].chain = Tail(viewer[k].chain)
  /\ viewer'[k].remote = viewer[k].remote

Stays(k) == /\ viewer'[k].chain = viewer[k].chain
            /\ viewer'[k].remote = viewer[k].remote

\* What a step can do to a viewer's chain and to its remote description
\* (streaming.service.ts:133-166).
LEMMA ChainNext ==
  ASSUME Types, NegotiationNext, NEW k \in Sinks
  PROVE  \/ Starts(k) \/ Handles(k) \/ TakesOffer(k) \/ AnswersOffer(k)
         \/ Finishes(k) \/ Stays(k)
<1>1. /\ ViewerTypes
      /\ \A l \in Sinks : viewer[l] \in PeerConnections
      /\ \A l \in Sinks : \A peer :
           viewer' = [viewer EXCEPT ![l] = peer] =>
             viewer'[k] = IF l = k THEN peer ELSE viewer[k]
  BY DEF Types, ViewerTypes
<1>2. CASE UNCHANGED viewer
  BY <1>2 DEF Stays
<1>3. ASSUME NEW c \in Connections, Open(c)
      PROVE  Starts(k) \/ Stays(k)
  <2>1. CASE c \in Sinks
    <3>1. viewer' = [viewer EXCEPT ![c] = NewPeerConnection(0)]
      BY <1>3, <2>1 DEF Open
    <3>2. viewer'[k] = IF c = k THEN NewPeerConnection(0) ELSE viewer[k]
      BY <1>1, <2>1, <3>1
    <3>3. QED BY <3>2 DEF NewPeerConnection, Starts, Stays
  <2>2. QED BY <1>2, <1>3, <2>1 DEF Open, Stays
<1>4. ASSUME NEW l \in Sinks, OnMessageReceived(l)
      PROVE  Starts(k) \/ Handles(k) \/ Stays(k)
  <2> DEFINE m == Head(down[l])
  <2>1. m \in ToSink /\ down[l] # <<>>
    BY <1>4, TakenFirst DEF OnMessageReceived, Types, QueueTypes
  <2>2. CASE Reconnect(l)
    <3> DEFINE peer == NewPeerConnection(viewer[l].peer + 1)
    <3>1. viewer' = [viewer EXCEPT ![l] = peer]
      BY <2>2 DEF Reconnect
    <3>2. viewer'[k] = IF l = k THEN peer ELSE viewer[k]
      BY <1>1, <3>1
    <3>3. QED BY <3>2 DEF NewPeerConnection, Starts, Stays
  <2>3. ASSUME NEW operation, NEW of, Op(operation, of) \in Operations,
               \/ /\ m.type = "offer" /\ of = m
                  /\ operation = "setRemoteDescription"
               \/ operation = "addIceCandidate",
               viewer' = Enqueued(l, operation, of)
        PROVE  Handles(k) \/ Stays(k)
    <3> DEFINE peer == [viewer[l] EXCEPT !.chain =
                          Append(@, Op(operation, of))]
    <3>1. viewer' = [viewer EXCEPT ![l] = peer]
      BY <2>3 DEF Enqueued, Op
    <3>2. viewer'[k] = IF l = k THEN peer ELSE viewer[k]
      BY <1>1, <3>1
    <3>3. /\ peer.chain = Append(viewer[l].chain, Op(operation, of))
          /\ peer.remote = viewer[l].remote
      BY <1>1 DEF PeerConnections
    <3> HIDE DEF peer
    <3>4. CASE l = k
      <4>1. viewer'[k].chain = Append(viewer[k].chain, Op(operation, of))
        BY <3>2, <3>3, <3>4
      <4>2. \/ Head(down[k]).type = "offer" /\
                 Op(operation, of) = Op("setRemoteDescription", Head(down[k]))
            \/ Op(operation, of).operation = "addIceCandidate"
        BY <2>3, <3>4 DEF Op
      <4>3. QED BY <2>1, <2>3, <3>2, <3>3, <3>4, <4>1, <4>2 DEF Handles
    <3>5. CASE l # k
      BY <3>2, <3>5 DEF Stays
    <3>6. QED BY <3>4, <3>5
  <2>4. CASE m.type = "offer" /\ viewer' = Enqueued(l, "setRemoteDescription", m)
    <3>1. Op("setRemoteDescription", m) \in Operations
      BY <2>1, <2>4, MessageKinds DEF Op, Operations
    <3>2. QED BY <2>3, <2>4, <3>1
  <2>5. CASE m.type = "candidate" /\ viewer' = Enqueued(l, "addIceCandidate", m.of)
    <3>1. Op("addIceCandidate", m.of) \in Operations
      BY <2>1, <2>5, MessageKinds DEF Op, Operations
    <3>2. QED BY <2>3, <2>5, <3>1
  <2>6. QED BY <1>2, <1>4, <2>2, <2>4, <2>5 DEF OnMessageReceived, Stays
<1>5. ASSUME NEW l \in Sinks, NEW name, Operation(l, name), NEW peer,
             viewer' = [viewer EXCEPT ![l] = peer],
             peer.chain = Tail(viewer[l].chain), peer.remote = viewer[l].remote
      PROVE  Finishes(k) \/ Stays(k)
  <2>1. viewer'[k] = IF l = k THEN peer ELSE viewer[k]
    BY <1>1, <1>5
  <2>2. viewer[l].chain # <<>>
    BY <1>5 DEF Operation
  <2>3. QED BY <1>5, <2>1, <2>2 DEF Finishes, Stays
<1>6. ASSUME NEW l \in Sinks, SetRemoteDescription(l)
      PROVE  TakesOffer(k) \/ Stays(k)
  <2> DEFINE await == Awaits(l, "createAnswer", Nobody)
             offer == Head(viewer[l].chain).of
             peer == [await EXCEPT !.remote = offer, !.offered = TRUE,
                                   !.heard = FALSE]
  <2>1. Operation(l, "setRemoteDescription")
    BY <1>6 DEF SetRemoteDescription
  <2>2. /\ viewer[l].chain # <<>>
        /\ Head(viewer[l].chain).operation = "setRemoteDescription"
    BY <2>1 DEF Operation
  <2>3. /\ await \in PeerConnections
        /\ await.chain = Append(Tail(viewer[l].chain), Op("createAnswer", Nobody))
    <3>1. [operation |-> "createAnswer", of |-> Nobody] \in Operations
      BY DEF Operations
    <3>2. QED BY <1>1, <2>1, <3>1, ChainAwaits DEF Op
  <2>4. viewer' = [viewer EXCEPT ![l] = peer]
    BY <1>6 DEF SetRemoteDescription
  <2> HIDE DEF await, offer
  <2>5. peer.chain = await.chain /\ peer.remote = offer
    BY <2>3 DEF PeerConnections
  <2> HIDE DEF peer
  <2>6. viewer'[k] = IF l = k THEN peer ELSE viewer[k]
    BY <1>1, <2>4
  <2>7. QED BY <2>2, <2>3, <2>5, <2>6 DEF TakesOffer, Stays, offer
<1>7. ASSUME NEW l \in Sinks, NEW name, Operation(l, name),
             viewer' = [viewer EXCEPT ![l] = Done(l)]
      PROVE  Finishes(k) \/ Stays(k)
  BY <1>1, <1>5, <1>7, ChainTaken
<1>8. ASSUME NEW l \in Sinks, CreateAnswer(l)
      PROVE  AnswersOffer(k) \/ Finishes(k) \/ Stays(k)
  <2> DEFINE answer == Answer(l, viewer[l].peer, viewer[l].remote)
             await == Awaits(l, "setLocalDescription", answer)
             peer == [await EXCEPT !.created = answer]
  <2>1. /\ Operation(l, "createAnswer") /\ viewer[l].chain # <<>>
        /\ Head(viewer[l].chain).operation = "createAnswer"
    BY <1>8 DEF CreateAnswer, Operation
  <2>2. CASE viewer[l].offered
    <3>1. /\ viewer[l].peer \in Nat /\ viewer[l].remote \in Offers
          /\ viewer[l].remote # Nobody
      BY <1>1, <2>2 DEF ViewerTypes, PeerConnections
    <3>2. [operation |-> "setLocalDescription", of |-> answer] \in Operations
      <4>1. answer \in Answers
        BY <3>1, SentMessages
      <4> HIDE DEF answer
      <4>2. QED BY <4>1 DEF Operations
    <3>3. viewer' = [viewer EXCEPT ![l] = peer]
      BY <1>8, <2>2 DEF CreateAnswer
    <3> HIDE DEF answer
    <3>4. /\ await \in PeerConnections
          /\ await.chain = Append(Tail(viewer[l].chain),
                                  Op("setLocalDescription", answer))
          /\ await.remote = viewer[l].remote
      BY <1>1, <2>1, <3>2, ChainAwaits DEF Op
    <3> HIDE DEF await
    <3>5. peer.chain = await.chain /\ peer.remote = await.remote
      BY <3>4 DEF PeerConnections
    <3> HIDE DEF peer
    <3>6. viewer'[k] = IF l = k THEN peer ELSE viewer[k]
      BY <1>1, <3>3
    <3>7. QED BY <2>1, <3>1, <3>4, <3>5, <3>6 DEF AnswersOffer, Stays, answer
  <2>3. CASE ~ viewer[l].offered
    <3>1. viewer' = [viewer EXCEPT ![l] = Done(l)]
      BY <1>8, <2>3 DEF CreateAnswer
    <3>2. QED BY <1>7, <2>1, <3>1
  <2>4. QED BY <2>2, <2>3
<1>9. ASSUME NEW l \in Sinks, SetLocalDescription(l)
      PROVE  Finishes(k) \/ Stays(k)
  <2> DEFINE answer == Head(viewer[l].chain).of
             done == Done(l)
             peer == [done EXCEPT !.local = answer, !.offered = FALSE,
                                  !.created = Nobody]
  <2>1. Operation(l, "setLocalDescription")
    BY <1>9 DEF SetLocalDescription
  <2>2. CASE viewer' = [viewer EXCEPT ![l] = Done(l)]
    BY <1>7, <2>1, <2>2
  <2>3. CASE viewer' = [viewer EXCEPT ![l] = peer]
    <3>1. /\ done \in PeerConnections /\ done.chain = Tail(viewer[l].chain)
          /\ done.remote = viewer[l].remote
      BY <1>1, <2>1, ChainTaken
    <3> HIDE DEF done, answer
    <3>2. peer.chain = done.chain /\ peer.remote = done.remote
      BY <3>1 DEF PeerConnections
    <3> HIDE DEF peer
    <3>3. QED BY <1>5, <2>1, <2>3, <3>1, <3>2
  <2>4. QED BY <1>9, <2>2, <2>3 DEF SetLocalDescription
<1>10. ASSUME NEW l \in Sinks, AddIceCandidate(l)
       PROVE  Finishes(k) \/ Stays(k)
  <2> DEFINE done == Done(l)
             heard == done.heard \/ viewer[l].remote = Head(viewer[l].chain).of
             peer == [done EXCEPT !.heard = heard]
  <2>1. Operation(l, "addIceCandidate")
    BY <1>10 DEF AddIceCandidate
  <2>2. viewer' = [viewer EXCEPT ![l] = peer]
    BY <1>10 DEF AddIceCandidate
  <2>3. /\ done \in PeerConnections /\ done.chain = Tail(viewer[l].chain)
        /\ done.remote = viewer[l].remote
    BY <1>1, <2>1, ChainTaken
  <2> HIDE DEF done, heard
  <2>4. peer.chain = done.chain /\ peer.remote = done.remote
    BY <2>3 DEF PeerConnections
  <2> HIDE DEF peer
  <2>5. QED BY <1>5, <2>1, <2>2, <2>3, <2>4
<1>11. QED
  BY <1>2, <1>3, <1>4, <1>6, <1>8, <1>9, <1>10
     DEF NegotiationNext, Close, Relay, AddConnection, SendNotice, NewPeer,
         Timeout, Link, OnSignalingMessageReceived, RunOperation

\* The offers a viewer has yet to take, and the one it has, were relayed to it.
LEMMA AwaitedDueNext ==
  ASSUME SourceInv, SourceInv', Types, HistoryTypes', RelayedDue, AwaitedDue,
         NegotiationNext
  PROVE  AwaitedDue'
<1> SUFFICES ASSUME NEW k \in Sinks
             PROVE  /\ viewer'[k].chain \in Seq(Awaited(k)')
                    /\ viewer'[k].remote # Nobody => Due(viewer[k].remote, k)'
  BY DEF AwaitedDue
<1> DEFINE chain == viewer[k].chain
           remote == viewer[k].remote
<1>1. /\ chain \in Seq(Awaited(k)) /\ remote \in Offers \cup {Nobody}
      /\ remote # Nobody => Due(remote, k)
      /\ down[k] \in Seq(Relayed(k)) /\ down[k] \in Seq(ToSink)
  BY DEF Types, QueueTypes, ViewerTypes, PeerConnections, AwaitedDue, RelayedDue
<1>2. /\ Seq(Awaited(k)) \subseteq Seq(Awaited(k)')
      /\ \A offer \in Offers : Due(offer, k) => Due(offer, k)'
  BY PairedGrowsNext, AttemptsNext, QueuesStayDue, DueStays
<1>3. SUFFICES /\ viewer'[k].chain \in Seq(Awaited(k))
               /\ \/ viewer'[k].remote \in {remote, Nobody}
                  \/ /\ viewer'[k].remote \in Offers
                     /\ Due(viewer'[k].remote, k)
  BY <1>1, <1>2 DEF Due, PairedSince
<1> HIDE DEF chain, remote
<1>4. CASE Starts(k)
  BY <1>4, EmptySeq DEF Starts
<1>5. CASE Stays(k)
  BY <1>1, <1>5 DEF Stays, chain, remote
<1>6. CASE Finishes(k)
  BY <1>1, <1>6, TakenFirst DEF Finishes, chain, remote
<1>7. CASE Handles(k)
  <2>1. PICK x \in Operations :
          /\ viewer'[k].chain = Append(chain, x)
          /\ \/ /\ Head(down[k]).type = "offer"
                /\ x = Op("setRemoteDescription", Head(down[k]))
             \/ x.operation = "addIceCandidate"
    BY <1>7 DEF Handles, chain
  <2>2. Head(down[k]) \in Relayed(k)
    BY <1>1, <1>7, TakenFirst DEF Handles
  <2>3. x \in Awaited(k)
    BY <2>1, <2>2 DEF Awaited, Relayed, Op
  <2>4. viewer'[k].remote = remote
    BY <1>7 DEF Handles, remote
  <2>5. QED BY <1>1, <2>1, <2>3, <2>4, AppendProperties
<1>8. CASE TakesOffer(k)
  <2>1. chain # <<>> /\ Head(chain).operation = "setRemoteDescription"
    BY <1>8 DEF TakesOffer, chain
  <2>2. Head(chain) \in Awaited(k) /\ Tail(chain) \in Seq(Awaited(k))
    BY <1>1, <2>1, TakenFirst
  <2>3. Head(chain).of \in Offers /\ Due(Head(chain).of, k)
    BY <2>1, <2>2 DEF Awaited, Operations
  <2>4. Op("createAnswer", Nobody) \in Awaited(k)
    BY DEF Awaited, Operations, Op
  <2>5. /\ viewer'[k].chain = Append(Tail(chain), Op("createAnswer", Nobody))
        /\ viewer'[k].remote = Head(chain).of
    BY <1>8 DEF TakesOffer, chain
  <2>6. QED BY <2>2, <2>3, <2>4, <2>5, AppendProperties
<1>9. CASE AnswersOffer(k)
  <2>1. chain # <<>> /\ remote \in Offers /\ viewer'[k].remote = remote
    BY <1>1, <1>9 DEF AnswersOffer, chain, remote
  <2>2. PICK n \in Nat : viewer'[k].chain =
          Append(Tail(chain), Op("setLocalDescription", Answer(k, n, remote)))
    BY <1>9 DEF AnswersOffer, chain, remote
  <2> DEFINE answer == Answer(k, n, remote)
  <2>3. answer \in Answers
    BY <2>1, SentMessages
  <2> HIDE DEF answer
  <2>4. Op("setLocalDescription", answer) \in Awaited(k)
    BY <2>3 DEF Awaited, Operations, Op
  <2>5. Tail(chain) \in Seq(Awaited(k))
    BY <1>1, <2>1, TakenFirst
  <2>6. QED BY <2>1, <2>2, <2>4, <2>5, AppendProperties DEF answer
<1>10. QED BY <1>4, <1>5, <1>6, <1>7, <1>8, <1>9, ChainNext

-----------------------------------------------------------------------------
(***************************************************************************)
(* The invariant, and what follows from it.                                *)
(***************************************************************************)
\* At first there is nothing on its way and nobody is paired.
LEMMA LinksInvInit == NegotiationInit => LinksInv
<1> SUFFICES ASSUME NegotiationInit PROVE LinksInv
  OBVIOUS
<1> USE DEF NegotiationInit
<1>1. SourceInv /\ pairs = {}
  BY SourceInvInit DEF Init
<1>2. QueueTypes
  BY EmptySeq DEF QueueTypes, Connections
<1>3. SourceTypes
  BY DEF SourceTypes, SourceClients, NewSource, Threads
<1>4. ViewerTypes
  BY EmptySeq DEF ViewerTypes, PeerConnections, NewPeerConnection
<1>5. HistoryTypes
  BY EmptySeq, BoundsAssumption DEF HistoryTypes
<1>6. PairsLast /\ NoticesLast
  BY <1>1, EmptySeq DEF PairsLast, NoticesLast
<1>7. PairingsInOrder
  BY EmptySeq DEF PairingsInOrder, NumbersRise, NewSource, Connections
<1>8. SentDue /\ RelayedDue
  BY EmptySeq DEF SentDue, RelayedDue, Connections
<1>9. AwaitedDue
  BY EmptySeq DEF AwaitedDue, NewPeerConnection
<1>10. QED
  BY <1>1, <1>2, <1>3, <1>4, <1>5, <1>6, <1>7, <1>8, <1>9
     DEF LinksInv, Types, OffersDue

LEMMA LinksInvNext == LinksInv /\ [NegotiationNext]_allVars => LinksInv'
<1> SUFFICES ASSUME LinksInv, [NegotiationNext]_allVars PROVE LinksInv'
  OBVIOUS
<1> USE DEF LinksInv
<1>1. CASE NegotiationNext
  <2>1. SourceInv'
    BY <1>1, GatewayStep, SourceInvNext
  <2>2. HistoryTypes' /\ PairsLast' /\ NoticesLast'
    BY <1>1, <2>1, HistoryNext
  <2>3. Types'
    BY <1>1, <2>2, QueueTypesNext, SourceTypesNext, ViewerTypesNext DEF Types
  <2>4. PairingsInOrder'
    BY <1>1, <2>1, PairingsInOrderNext
  <2>5. OffersDue'
    BY <1>1, <2>1, <2>2, SentDueNext, RelayedDueNext, AwaitedDueNext
       DEF OffersDue
  <2>6. QED BY <2>1, <2>2, <2>3, <2>4, <2>5
<1>2. CASE UNCHANGED allVars
  <2>1. SourceInv'
    BY <1>2, SourceInvNext DEF allVars, gatewayVars, vars
  <2>2. Types'
    BY <1>2 DEF allVars, gatewayVars, socketVars, Types, QueueTypes,
                SourceTypes, ViewerTypes, HistoryTypes
  <2>3. PairsLast' /\ NoticesLast' /\ PairingsInOrder'
    BY <1>2 DEF allVars, gatewayVars, socketVars, PairsLast, NoticesLast,
                PairingsInOrder, NumbersRise
  <2>4. OffersDue'
    <3>1. \A offer, k : Due(offer, k)' = Due(offer, k)
      BY <1>2 DEF allVars, socketVars, Due, PairedSince
    <3>2. /\ \A s : Sendable(s)' = Sendable(s)
          /\ \A k : Relayed(k)' = Relayed(k) /\ Awaited(k)' = Awaited(k)
      BY <1>2, <3>1 DEF allVars, Sendable, Relayed, Awaited
    <3>3. QED
      BY <1>2, <3>1, <3>2
         DEF allVars, socketVars, OffersDue, SentDue, RelayedDue, AwaitedDue
  <2>5. QED BY <2>1, <2>2, <2>3, <2>4
<1>3. QED BY <1>1, <1>2

\* In every state reached, the queues hold what is right there.
THEOREM LinksInvariant == NegotiationSpec => []LinksInv
  BY LinksInvInit, LinksInvNext, PTL DEF NegotiationSpec

\* The variables of the negotiation keep their types, and a closed socket
\* keeps nothing on its way.
THEOREM NegotiationTypes == NegotiationSpec => []NegotiationTypeOK
<1>1. LinksInv => NegotiationTypeOK
  <2> SUFFICES ASSUME LinksInv PROVE NegotiationTypeOK
    OBVIOUS
  <2>1. TypeOK
    BY DEF LinksInv, SourceInv
  <2>2. \A s \in Sources :
          /\ source[s].thread \in Threads
          /\ source[s].remote \in Answers \cup {Nobody}
          /\ source[s].heard => source[s].remote # Nobody
    BY DEF LinksInv, Types, SourceTypes, SourceClients
  <2>3. \A k \in Sinks :
          /\ viewer[k].remote \in Offers \cup {Nobody}
          /\ viewer[k].local \in Answers \cup {Nobody}
          /\ viewer[k].offered => viewer[k].remote # Nobody
          /\ viewer[k].peer = 0 => viewer[k].chain = <<>>
    BY DEF LinksInv, Types, ViewerTypes, PeerConnections
  <2>4. \A c \in Connections : connection[c] = "closed" =>
          up[c] = <<>> /\ down[c] = <<>>
    BY DEF LinksInv, Types, QueueTypes
  <2>5. QED BY <2>1, <2>2, <2>3, <2>4 DEF NegotiationTypeOK, Threads
<1>2. QED BY <1>1, LinksInvariant, PTL

(***************************************************************************)
(* The refinement: what a step of the negotiation is to the pairings, the  *)
(* attempts and the connections.                                           *)
(***************************************************************************)
\* A connection is only made with a viewer the source was paired with since it
\* began the attempt (WebRtcClient.cpp:106).
LEMMA LinkIsDue ==
  ASSUME LinksInv, NEW s \in Sources, NEW k \in Sinks, CanLink(s, k)
  PROVE  PairedSince(s, k)
<1>1. viewer[k].remote = Offer(s, source[s].attempt)
  BY DEF CanLink, Agreed
<1>2. source[s].attempt \in Nat
  BY DEF LinksInv, Types, SourceTypes, SourceClients
<1>3. Offer(s, source[s].attempt) \in Offers
  BY <1>2, SentMessages
<1>4. Due(Offer(s, source[s].attempt), k)
  BY <1>1, <1>3, NobodyAssumption DEF LinksInv, OffersDue, AwaitedDue
<1>5. QED BY <1>4 DEF Due, Offer

LEMMA LinksStep ==
  ASSUME LinksInv, LinksInv', NegotiationNext
  PROVE  Links!Next \/ UNCHANGED Links!vars
<1> DEFINE since == [s \in Sources |-> source[s].since]
           link == [s \in Sources |-> source[s].link]
<1>1. /\ SourceInv /\ SourceInv' /\ Types
      /\ \A s \in Sources : source[s] \in SourceClients
      /\ source \in [Sources -> SourceClients]
      /\ \A s \in Sources : /\ Len(paired[s]) \in Nat
                            /\ source[s].since \in Nat
                            /\ source[s].pairing \in Nat
                            /\ source[s].since <= source[s].pairing
                            /\ source[s].pairing <= Len(paired[s])
  BY LenProperties
     DEF LinksInv, Types, SourceTypes, SourceClients, HistoryTypes,
         PairingsInOrder
<1>2. ASSUME UNCHANGED paired,
             \A s \in Sources : /\ source'[s].since = source[s].since
                                /\ source'[s].link = source[s].link
      PROVE  UNCHANGED Links!vars
  BY <1>2 DEF Links!vars
<1>3. ASSUME UNCHANGED <<paired, source>> PROVE UNCHANGED Links!vars
  BY <1>2, <1>3
<1>4. ASSUME NEW c \in Connections, Open(c) \/ Close(c) \/ Relay(c)
      PROVE  UNCHANGED Links!vars
  BY <1>3, <1>4 DEF Open, Close, Relay
<1>5. ASSUME NEW c \in Connections, NEW id \in SessionIds, AddConnection(c, id)
      PROVE  Links!Next
  <2>1. PICK some \in SUBSET Sources : \E made \in [some -> Sinks] :
          paired' = [s \in Sources |-> IF s \in some
                                         THEN Append(paired[s], made[s])
                                         ELSE paired[s]]
    BY <1>1, <1>5, NewPairs
  <2>2. PICK made \in [some -> Sinks] :
          paired' = [s \in Sources |-> IF s \in some
                                         THEN Append(paired[s], made[s])
                                         ELSE paired[s]]
    BY <2>1
  <2>3. UNCHANGED source
    BY <1>5 DEF AddConnection
  <2>4. Links!Pair(made)
    BY <2>2, <2>3 DEF Links!Pair
  <2>5. QED BY <2>4 DEF Links!Next
<1>6. ASSUME SendNotice PROVE UNCHANGED Links!vars
  BY <1>3, <1>6 DEF SendNotice
<1>7. ASSUME NEW s \in Sources, OnSignalingMessageReceived(s)
      PROVE  UNCHANGED Links!vars
  <2> DEFINE m == Head(down[s])
  <2>1. UNCHANGED paired
    BY <1>7 DEF OnSignalingMessageReceived
  <2>2. CASE OnPairingComplete(s, m.number)
    <3> DEFINE n == m.number
    <3>1. PICK thread :
            source' = [source EXCEPT ![s].thread = thread, ![s].retries = 0,
                                     ![s].pairing = n]
      BY <2>2 DEF OnPairingComplete
    <3> HIDE DEF n
    <3>2. \A t \in Sources : /\ source'[t].since = source[t].since
                             /\ source'[t].link = source[t].link
      BY <1>1, <3>1 DEF SourceClients
    <3>3. QED BY <1>2, <2>1, <3>2
  <2>3. CASE OnDescription(s, m) \/ OnCandidate(s, m.of)
    <3>1. \/ source' = source
          \/ source' = [source EXCEPT ![s].remote = m]
          \/ source' = [source EXCEPT ![s].heard = TRUE]
      BY <2>3 DEF OnDescription, OnCandidate
    <3> HIDE DEF m
    <3>2. CASE source' = source
      BY <1>2, <2>1, <3>2
    <3>3. CASE source' = [source EXCEPT ![s].remote = m]
      <4>1. \A t \in Sources : /\ source'[t].since = source[t].since
                               /\ source'[t].link = source[t].link
        BY <1>1, <3>3 DEF SourceClients
      <4>2. QED BY <1>2, <2>1, <4>1
    <3>4. CASE source' = [source EXCEPT ![s].heard = TRUE]
      <4>1. \A t \in Sources : /\ source'[t].since = source[t].since
                               /\ source'[t].link = source[t].link
        BY <1>1, <3>4 DEF SourceClients
      <4>2. QED BY <1>2, <2>1, <4>1
    <3>5. QED BY <3>1, <3>2, <3>3, <3>4
  <2>4. QED BY <1>7, <2>2, <2>3 DEF OnSignalingMessageReceived
<1>8. ASSUME NEW s \in Sources, NewPeer(s) PROVE Links!Next
  <2> PICK n \in Nat : n = source[s].pairing
    BY <1>1
  <2>1. source' = [source EXCEPT ![s] = source'[s]]
    BY <1>1, <1>8, NewPeerSource DEF Types
  <2>2. source'[s] = Begun(source[s])
    BY <1>1, <1>8, NewPeerSource DEF Types
  <2>3. source'[s].since = n /\ source'[s].link = Nobody
    BY <2>2 DEF Begun
  <2>4. UNCHANGED paired
    BY <1>8 DEF NewPeer
  <2>5. n \in 0 .. Len(paired[s]) /\ n \in since[s] .. Len(paired[s])
    BY <1>1
  <2>6. /\ [t \in Sources |-> source[t].since]' = [since EXCEPT ![s] = n]
        /\ [t \in Sources |-> source[t].link]' = [link EXCEPT ![s] = Nobody]
    BY <1>1, <2>1, <2>3
  <2>7. Links!Attempt(s, n)
    BY <2>4, <2>5, <2>6 DEF Links!Attempt
  <2>8. QED BY <2>5, <2>7 DEF Links!Next
<1>9. ASSUME NEW s \in Sources, Timeout(s) PROVE UNCHANGED Links!vars
  <2>1. \A t \in Sources : /\ source'[t].since = source[t].since
                           /\ source'[t].link = source[t].link
    <3>1. CASE source' = [source EXCEPT ![s].thread = "ended"]
      BY <1>1, <3>1 DEF SourceClients
    <3>2. CASE source' = [source EXCEPT ![s].thread = "starting",
                                        ![s].retries = @ + 1]
      BY <1>1, <3>2 DEF SourceClients
    <3>3. QED BY <1>9, <3>1, <3>2 DEF Timeout
  <2>2. QED BY <1>2, <1>9, <2>1 DEF Timeout
<1>10. ASSUME NEW s \in Sources, NEW k \in Sinks, Link(s, k) PROVE Links!Next
  <2>1. PICK n \in source[s].since .. Len(paired[s]) :
          n # 0 /\ paired[s][n] = k
    BY <1>10, LinkIsDue DEF Link, PairedSince
  <2>2. /\ source[s].link = Nobody /\ UNCHANGED paired
        /\ source' = [source EXCEPT ![s].link = k]
    BY <1>10 DEF Link, CanLink, socketVars
  <2>3. /\ [t \in Sources |-> source[t].since]' = since
        /\ [t \in Sources |-> source[t].link]' = [link EXCEPT ![s] = k]
    BY <1>1, <2>2 DEF SourceClients
  <2>4. n \in 0 .. Len(paired[s]) /\ n \in since[s] .. Len(paired[s]) \ {0}
    BY <1>1, <2>1
  <2>5. Links!Connect(s, n)
    BY <2>1, <2>2, <2>3, <2>4 DEF Links!Connect
  <2>6. QED BY <2>4, <2>5 DEF Links!Next
<1>11. ASSUME NEW k \in Sinks, OnMessageReceived(k)
       PROVE  Links!Next \/ UNCHANGED Links!vars
  <2>1. UNCHANGED paired
    BY <1>11 DEF OnMessageReceived
  <2>2. CASE Reconnect(k)
    <3> PICK lost \in SUBSET Sources :
          lost = {s \in Sources : source[s].link = k}
      OBVIOUS
    <3>1. source' = [s \in Sources |-> IF source[s].link = k
                                         THEN [source[s] EXCEPT !.link = Nobody]
                                         ELSE source[s]]
      BY <2>2 DEF Reconnect
    <3>2. /\ [t \in Sources |-> source[t].since]' = since
          /\ [t \in Sources |-> source[t].link]' =
               [t \in Sources |-> IF t \in lost THEN Nobody ELSE link[t]]
      BY <1>1, <3>1 DEF SourceClients
    <3>3. Links!Disconnect(lost)
      BY <2>1, <3>2 DEF Links!Disconnect
    <3>4. QED BY <3>3 DEF Links!Next
  <2>3. CASE UNCHANGED source
    BY <1>3, <2>1, <2>3
  <2>4. QED BY <1>11, <2>2, <2>3 DEF OnMessageReceived
<1>12. ASSUME NEW k \in Sinks, RunOperation(k) PROVE UNCHANGED Links!vars
  BY <1>3, <1>12
     DEF RunOperation, SetRemoteDescription, CreateAnswer, SetLocalDescription,
         AddIceCandidate, Operation
<1>13. QED
  BY <1>4, <1>5, <1>6, <1>7, <1>8, <1>9, <1>10, <1>11, <1>12
     DEF NegotiationNext

\* Whatever is late, lost with a socket or relayed to the next viewer, a source
\* is connected with nobody but the viewer of the pairing its attempt was made
\* for or of a later one.
THEOREM NegotiationLinks == NegotiationSpec => LinksPartners
<1>1. NegotiationInit => Links!Init
  BY DEF NegotiationInit, Links!Init, NewSource
<1>2. LinksInv /\ LinksInv' /\ [NegotiationNext]_allVars
        => [Links!Next]_Links!vars
  <2>1. ASSUME UNCHANGED allVars PROVE UNCHANGED Links!vars
    BY <2>1 DEF allVars, socketVars, Links!vars
  <2>2. QED BY <2>1, LinksStep
<1>3. QED BY <1>1, <1>2, LinksInvariant, PTL
          DEF NegotiationSpec, LinksPartners, Links!Spec
==============================================================================
