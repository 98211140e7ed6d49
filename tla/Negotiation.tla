----------------------------- MODULE Negotiation -----------------------------
(***************************************************************************)
(* How a stream source and a viewer come to a peer-to-peer connection: the *)
(* matchmaker's pairs and what they relay (Matchmaker.cs:17-64), the       *)
(* source's connection attempts (WebRtcClient.cpp:92-232) over its web     *)
(* socket, which it opens again when it closes (WebSocketClient.cpp), and  *)
(* the viewer's peer connections (streaming.service.ts:41-57, 133-166).    *)
(*                                                                         *)
(* Messages from and to a client arrive in the order they were sent, or    *)
(* not at all once its socket is closed.  The pair relays from the moment  *)
(* it is made, which is before it has told either side (22-33).            *)
(*                                                                         *)
(* The answers and candidates of the viewer's browser, and the connection  *)
(* that comes about when both sides hold each other's descriptions and     *)
(* candidates, are the environment.  One candidate is found with each      *)
(* description and sent after it.                                          *)
(***************************************************************************)
EXTENDS Matchmaker, Sequences, SequencesExt

CONSTANTS Bounds,          \* what a behaviour may be bounded by
          Nobody           \* no viewer, no description

\* How often each client's socket may open, how many attempts may follow one
\* after a timeout, and how many timeouts may come before a negotiation ends.
ASSUME BoundsAssumption ==
  Bounds \subseteq [visits : [Connections -> Nat], retries : Nat, early : Nat]
ASSUME ClientsAssumption == IsFiniteSet(Connections)

\* The descriptions sources offer, and those viewers answer with.
Offers == [type : {"offer"}, source : Sources, attempt : Nat]
Answers == [type : {"answer"}, sink : Sinks, peer : Nat, to : Offers]

ASSUME NobodyAssumption == Nobody \notin Connections \cup Offers \cup Answers

VARIABLES up, down,        \* messages on their way to and from the gateway
          notices,         \* PairingCompletes the constructor has yet to send
          source,          \* each source: its WebRtcClient
          viewer,          \* each sink: its StreamingService
          paired,          \* history: the sinks each source was paired with
          bounds,          \* its bounds, `visits` as what is left of them
          early            \* how many timeouts were over before a negotiation

gatewayVars == <<connection, session, freeSources, freeSinks, pairs>>
socketVars == <<up, down, notices, paired, bounds, early>>

allVars == <<gatewayVars, socketVars, source, viewer>>

Offer(s, n) == [type |-> "offer", source |-> s, attempt |-> n]
Answer(k, peer, offer) ==
  [type |-> "answer", sink |-> k, peer |-> peer, to |-> offer]
Candidate(description) == [type |-> "candidate", of |-> description]
PairingComplete(n) == [type |-> "pairing", number |-> n]

\* `pairing`, the number of the pairing handled last, and `since`, that of the
\* pairing the attempt was made for, are history.
NewSource ==
  [thread |-> "none", retries |-> 0, pairing |-> 0, since |-> 0,
   attempt |-> 0, remote |-> Nobody, heard |-> FALSE, link |-> Nobody]

\* A peer connection numbered `peer`, 0 for none, its signaling state
\* (offered: have-remote-offer), and its chain of pending operations.
NewPeerConnection(peer) ==
  [peer |-> peer, remote |-> Nobody, offered |-> FALSE, created |-> Nobody,
   local |-> Nobody, heard |-> FALSE, chain |-> <<>>]

NegotiationInit ==
  /\ Init
  /\ up = [c \in Connections |-> <<>>]
  /\ down = [c \in Connections |-> <<>>]
  /\ notices = <<>>
  /\ paired = [s \in Sources |-> <<>>]
  /\ source = [s \in Sources |-> NewSource]
  /\ viewer = [k \in Sinks |-> NewPeerConnection(0)]
  /\ bounds \in Bounds
  /\ early = 0

\* The queue of c with the messages added; a closed socket takes none.
Sent(queue, c, messages) ==
  IF connection[c] = "closed" THEN queue ELSE [queue EXCEPT ![c] = @ \o messages]

-----------------------------------------------------------------------------
(***************************************************************************)
(* The gateway.                                                            *)
(***************************************************************************)
\* The browser opens its socket once per page; the source's onClosed opens
\* its socket again, and onOpen sends the ConnectionRequest.
Open(c) ==
  /\ Connect(c)
  /\ bounds.visits[c] > 0
  /\ bounds' = [bounds EXCEPT !.visits[c] = @ - 1]
  /\ viewer' = IF c \in Sinks THEN [viewer EXCEPT ![c] = NewPeerConnection(0)]
                              ELSE viewer
  /\ UNCHANGED <<up, down, notices, paired, early, source>>

\* The pairs in the order they are made: each tells its source, then its sink.
Notices(made) ==
  [i \in 1 .. 2 * Len(made) |->
     LET pair == made[(i + 1) \div 2]
     IN  [to     |-> IF i % 2 = 1 THEN pair.source ELSE pair.sink,
          number |-> Len(paired[pair.source]) + 1]]

\* The matchmaker's handlers hold its lock until each new pair has told both.
AddConnection(c, id) ==
  /\ notices = <<>>
  /\ IF c \in Sources THEN OnSourceAdded(c, id) ELSE OnSinkAdded(c, id)
  /\ LET new == pairs' \ pairs
         viewerOf(s) == (CHOOSE p \in new : p.source = s).sink
     IN  /\ \E made \in SetToSeqs(new) : notices' = Notices(made)
         /\ paired' = [s \in Sources |->
                        IF \E p \in new : p.source = s
                          THEN Append(paired[s], viewerOf(s)) ELSE paired[s]]
  /\ UNCHANGED <<up, down, bounds, early, source, viewer>>

SendNotice ==
  /\ notices # <<>>
  /\ notices' = Tail(notices)
  /\ LET n == Head(notices)
     IN  down' = Sent(down, n.to, <<PairingComplete(n.number)>>)
  /\ UNCHANGED <<gatewayVars, up, paired, bounds, early, source, viewer>>

\* A socket closes: what is on its way is lost, and the pair is disposed of.
Close(c) ==
  /\ \/ Abandon(c)
     \/ /\ notices = <<>>
        /\ IF c \in Sources THEN OnSourceRemoved(c) ELSE OnSinkRemoved(c)
  /\ up' = [up EXCEPT ![c] = <<>>]
  /\ down' = [down EXCEPT ![c] = <<>>]
  /\ UNCHANGED <<notices, paired, bounds, early, source, viewer>>

Partners(c) ==
  {p.sink : p \in {q \in pairs : q.source = c}}
    \cup {p.source : p \in {q \in pairs : q.sink = c}}

\* OnSourceMessageReceived and OnSinkMessageReceived.
Relay(c) ==
  /\ connection[c] = "connected"
  /\ up[c] # <<>>
  /\ up' = [up EXCEPT ![c] = Tail(@)]
  /\ down' = [d \in Connections |->
               IF d \in Partners(c) /\ connection[d] # "closed"
                 THEN Append(down[d], Head(up[c])) ELSE down[d]]
  /\ UNCHANGED <<gatewayVars, notices, paired, bounds, early, source, viewer>>

-----------------------------------------------------------------------------
(***************************************************************************)
(* The source.                                                             *)
(***************************************************************************)
\* OnPairingComplete ends the connection thread, which finishes its sleep,
\* and starts another.  A thread that is about to take the mutex is waited
\* for in vain, unless it has not checked for the exit yet.
OnPairingComplete(s, n) ==
  \E thread \in {"starting"} \cup (IF source[s].thread = "starting"
                                     THEN {"stuck"} ELSE {}) :
    source' = [source EXCEPT ![s].thread = thread, ![s].retries = 0,
                             ![s].pairing = n]

\* A peer connection takes the one description it waits for ...
OnDescription(s, answer) ==
  source' = IF source[s].attempt # 0 /\ source[s].remote = Nobody
              THEN [source EXCEPT ![s].remote = answer] ELSE source

\* Mutant: the candidates are not those of the description.
OnCandidate_Any(s, of) == source' = [source EXCEPT ![s].heard = TRUE]

\* ... and candidates once it has one.
OnCandidate(s, of) ==
  source' = IF source[s].remote # Nobody /\ source[s].remote = of
              THEN [source EXCEPT ![s].heard = TRUE] ELSE source

OnSignalingMessageReceived(s) ==
  /\ source[s].thread # "stuck"
  /\ down[s] # <<>>
  /\ down' = [down EXCEPT ![s] = Tail(@)]
  /\ LET m == Head(down[s])
     IN  \/ m.type = "pairing" /\ OnPairingComplete(s, m.number)
         \/ m.type = "answer" /\ OnDescription(s, m)
         \/ m.type = "candidate" /\ OnCandidate(s, m.of)
  /\ UNCHANGED <<gatewayVars, up, notices, paired, bounds, early, viewer>>

\* Mutant: the connection that is there is kept.
NewPeer_KeepsLink(s) ==
  /\ source[s].thread = "starting"
  /\ LET n == source[s].attempt + 1
     IN  /\ source' = [source EXCEPT ![s] =
                        [@ EXCEPT !.thread = "sleeping", !.attempt = n,
                                  !.since = source[s].pairing]]
         /\ up' = Sent(up, s, <<Offer(s, n), Candidate(Offer(s, n))>>)
  /\ UNCHANGED <<gatewayVars, down, notices, paired, bounds, early, viewer>>

\* One round of Connect: a new peer connection, which sends its offer.
NewPeer(s) ==
  /\ source[s].thread = "starting"
  /\ LET n == source[s].attempt + 1
     IN  /\ source' = [source EXCEPT ![s] =
                        [@ EXCEPT !.thread = "sleeping", !.attempt = n,
                                  !.since = source[s].pairing, !.remote = Nobody,
                                  !.heard = FALSE, !.link = Nobody]]
         /\ up' = Sent(up, s, <<Offer(s, n), Candidate(Offer(s, n))>>)
  /\ UNCHANGED <<gatewayVars, down, notices, paired, bounds, early, viewer>>

\* The descriptions the source and the viewer hold are each other's.
Agreed(s, k) ==
  /\ source[s].attempt # 0 /\ viewer[k].local # Nobody
  /\ source[s].remote = viewer[k].local
  /\ viewer[k].remote = Offer(s, source[s].attempt)

CanLink(s, k) ==
  source[s].link = Nobody /\ Agreed(s, k) /\ source[s].heard /\ viewer[k].heard

Quiet == /\ notices = <<>>
         /\ \A c \in Connections : up[c] = <<>> /\ down[c] = <<>>
         /\ \A k \in Sinks : viewer[k].chain = <<>>
         /\ \A s \in Sources, k \in Sinks : ~ CanLink(s, k)

\* Mutant: a timeout ends the attempts.
Timeout_GivesUp(s) ==
  /\ source[s].thread = "sleeping"
  /\ early' = IF Quiet THEN early ELSE early + 1
  /\ early' <= bounds.early
  /\ source' = [source EXCEPT ![s].thread = "ended"]
  /\ UNCHANGED <<gatewayVars, up, down, notices, paired, bounds, viewer>>

\* The connection timeout is over, as a rule when there is nothing on its way.
Timeout(s) ==
  /\ source[s].thread = "sleeping"
  /\ early' = IF Quiet THEN early ELSE early + 1
  /\ early' <= bounds.early
  /\ \/ /\ source[s].link # Nobody
        /\ source' = [source EXCEPT ![s].thread = "ended"]
     \/ /\ source[s].link = Nobody
        /\ source[s].retries < bounds.retries
        /\ source' = [source EXCEPT ![s].thread = "starting",
                                    ![s].retries = @ + 1]
  /\ UNCHANGED <<gatewayVars, up, down, notices, paired, bounds, viewer>>

Link(s, k) ==
  /\ CanLink(s, k)
  /\ source' = [source EXCEPT ![s].link = k]
  /\ UNCHANGED <<gatewayVars, socketVars, viewer>>

-----------------------------------------------------------------------------
(***************************************************************************)
(* The viewer.                                                             *)
(***************************************************************************)
Enqueued(k, operation, of) ==
  [viewer EXCEPT ![k].chain = Append(@, [operation |-> operation, of |-> of])]

\* Reconnect: the old peer connection is closed, and the handlers that await
\* one of its operations never continue.
Reconnect(k) ==
  /\ viewer' = [viewer EXCEPT ![k] = NewPeerConnection(@.peer + 1)]
  /\ source' = [s \in Sources |-> IF source[s].link = k
                                    THEN [source[s] EXCEPT !.link = Nobody]
                                    ELSE source[s]]

OnMessageReceived(k) ==
  /\ down[k] # <<>>
  /\ down' = [down EXCEPT ![k] = Tail(@)]
  /\ LET m == Head(down[k])
     IN  \/ m.type = "pairing" /\ Reconnect(k)
         \/ /\ m.type # "pairing" /\ viewer[k].peer = 0
            /\ UNCHANGED <<viewer, source>>
         \/ /\ m.type = "offer" /\ viewer[k].peer # 0
            /\ viewer' = Enqueued(k, "setRemoteDescription", m)
            /\ UNCHANGED source
         \/ /\ m.type = "candidate" /\ viewer[k].peer # 0
            /\ viewer' = Enqueued(k, "addIceCandidate", m.of)
            /\ UNCHANGED source
  /\ UNCHANGED <<gatewayVars, up, notices, paired, bounds, early>>

\* The browser runs the first operation of the chain, and the handler that
\* awaits it goes on to the next, unless the operation is not possible in
\* the present signaling state.
Operation(k, name) ==
  /\ viewer[k].chain # <<>>
  /\ Head(viewer[k].chain).operation = name
  /\ UNCHANGED <<gatewayVars, down, notices, paired, bounds, early, source>>

Done(k) == [viewer[k] EXCEPT !.chain = Tail(@)]

Awaits(k, operation, of) ==
  [Done(k) EXCEPT !.chain = Append(@, [operation |-> operation, of |-> of])]

\* Mutant: a peer connection takes one offer only.
SetRemoteDescription_Once(k) ==
  LET offer == Head(viewer[k].chain).of
  IN  /\ Operation(k, "setRemoteDescription")
      /\ viewer' = [viewer EXCEPT ![k] =
                     IF viewer[k].remote # Nobody THEN Done(k)
                     ELSE [Awaits(k, "createAnswer", Nobody) EXCEPT
                             !.remote = offer, !.offered = TRUE]]
      /\ UNCHANGED up

SetRemoteDescription(k) ==
  LET offer == Head(viewer[k].chain).of
  IN  /\ Operation(k, "setRemoteDescription")
      /\ viewer' = [viewer EXCEPT ![k] =
                     [Awaits(k, "createAnswer", Nobody) EXCEPT
                        !.remote = offer, !.offered = TRUE, !.heard = FALSE]]
      /\ UNCHANGED up

CreateAnswer(k) ==
  LET answer == Answer(k, viewer[k].peer, viewer[k].remote)
  IN  /\ Operation(k, "createAnswer")
      /\ viewer' = [viewer EXCEPT ![k] =
                     IF viewer[k].offered
                       THEN [Awaits(k, "setLocalDescription", answer) EXCEPT
                               !.created = answer]
                       ELSE Done(k)]
      /\ UNCHANGED up

SetLocalDescription(k) ==
  LET answer == Head(viewer[k].chain).of
  IN  /\ Operation(k, "setLocalDescription")
      /\ IF viewer[k].offered /\ viewer[k].created = answer
           THEN /\ viewer' = [viewer EXCEPT ![k] =
                               [Done(k) EXCEPT !.local = answer,
                                  !.offered = FALSE, !.created = Nobody]]
                /\ up' = Sent(up, k, <<answer, Candidate(answer)>>)
           ELSE viewer' = [viewer EXCEPT ![k] = Done(k)] /\ UNCHANGED up

AddIceCandidate(k) ==
  /\ Operation(k, "addIceCandidate")
  /\ viewer' = [viewer EXCEPT ![k] =
                 [Done(k) EXCEPT !.heard = @ \/ viewer[k].remote
                                             = Head(viewer[k].chain).of]]
  /\ UNCHANGED up

RunOperation(k) == \/ SetRemoteDescription(k) \/ CreateAnswer(k)
                   \/ SetLocalDescription(k) \/ AddIceCandidate(k)

-----------------------------------------------------------------------------
NegotiationNext ==
  \/ \E c \in Connections : Open(c) \/ Close(c) \/ Relay(c)
  \/ \E c \in Connections, id \in SessionIds : AddConnection(c, id)
  \/ SendNotice
  \/ \E s \in Sources : \/ OnSignalingMessageReceived(s) \/ NewPeer(s)
                        \/ Timeout(s)
                        \/ \E k \in Sinks : Link(s, k)
  \/ \E k \in Sinks : OnMessageReceived(k) \/ RunOperation(k)

NegotiationSpec == NegotiationInit /\ [][NegotiationNext]_allVars

(***************************************************************************)
(* Threads and event loops run, sockets deliver what they took, a request  *)
(* that was sent is handled, sleeps end, and two sides that agree connect. *)
(* No socket has to open or to close.                                      *)
(***************************************************************************)
Fairness ==
  /\ WF_allVars(SendNotice)
  /\ \A c \in Connections :
       /\ WF_allVars(Relay(c))
       /\ WF_allVars(\E id \in SessionIds : AddConnection(c, id))
  /\ \A s \in Sources :
       /\ WF_allVars(OnSignalingMessageReceived(s))
       /\ WF_allVars(NewPeer(s)) /\ WF_allVars(Timeout(s))
       /\ \A k \in Sinks : WF_allVars(Link(s, k))
  /\ \A k \in Sinks : /\ WF_allVars(OnMessageReceived(k))
                      /\ WF_allVars(RunOperation(k))

FairSpec == NegotiationSpec /\ Fairness

-----------------------------------------------------------------------------
NegotiationTypeOK ==
  /\ TypeOK
  /\ \A s \in Sources :
       /\ source[s].thread \in {"none", "starting", "sleeping", "ended", "stuck"}
       /\ source[s].remote \in Answers \cup {Nobody}
       /\ source[s].heard => source[s].remote # Nobody
  /\ \A k \in Sinks :
       /\ viewer[k].remote \in Offers \cup {Nobody}
       /\ viewer[k].local \in Answers \cup {Nobody}
       /\ viewer[k].offered => viewer[k].remote # Nobody
       /\ viewer[k].peer = 0 => viewer[k].chain = <<>>
  /\ \A c \in Connections : connection[c] = "closed" =>
       up[c] = <<>> /\ down[c] = <<>>

\* Whatever is late, lost with a socket, or relayed to the next viewer, a
\* source is connected with the viewer of the pairing its attempt was made for
\* or of a later pairing, whose notice may still be on its way, and never with
\* the viewer of an earlier one.
Links == INSTANCE PeerLinks WITH
  since <- [s \in Sources |-> source[s].since],
  link <- [s \in Sources |-> source[s].link]

LinksPartners == Links!Spec

\* With timeouts longer than a negotiation, a pair that lasts gets connected,
\* although its first offer may come before the viewer knows of the pairing
\* (Matchmaker.cs:31) or be an earlier pairing's.  A timeout that finds a
\* connection the viewer is just about to close ends the attempts for good
\* (WebRtcClient.cpp:228), and so does a thread that is waited for in vain.
Stuck(s) == source[s].thread = "stuck"

Connected(p) == source[p.source].link = p.sink

Negotiates ==
  [](early = 0) =>
    <>[](\A p \in pairs : Connected(p) \/ Stuck(p.source))

\* When a timeout is over before the answer has come, the next attempt takes
\* the late answer for its own (WebRtcClient.cpp:106) and cannot connect.  The
\* attempts that follow make up for it, so a pair that lasts gets connected
\* after all, unless a timeout has ended the attempts or they are stuck.
Ended(s) == source[s].thread = "ended"

OutlivesLateAnswers ==
  <>[](\A p \in pairs : \/ Connected(p)
                         \/ Stuck(p.source) \/ Ended(p.source))
=============================================================================
