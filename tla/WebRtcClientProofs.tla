-------------------------- MODULE WebRtcClientProofs --------------------------
(***************************************************************************)
(* The mutex of the WebRTC client does what it is for, for any number of   *)
(* threads that send and whatever messages come.                           *)
(*                                                                         *)
(* SendersUndisturbed follows from mutual exclusion: each thread holds the *)
(* mutex where it uses or changes the peer connection.  The places at      *)
(* which the threads look at it without the mutex, ReadPeer, ReadState and *)
(* TestConnected, change nothing of it.                                    *)
(***************************************************************************)
EXTENDS WebRtcClient, TLAPS

MutualExclusion ==
  /\ \A t \in Senders : sender[t] \in {"checking", "sending"} => mutex = t
  /\ signaling \in {"handling", "joining"} => mutex = "signaling"
  /\ connect \in {"resetting", "creating"} => mutex = "connect"

SendersConnected == \A t \in Senders : sender[t] = "sending" => peer # "none"

ClientInv == TypeOK /\ MutualExclusion /\ SendersConnected

-----------------------------------------------------------------------------
\* No thread runs at first, and nobody holds the mutex.
LEMMA ClientInvInit == Init => ClientInv
  BY DEF Init, ClientInv, TypeOK, MutualExclusion, SendersConnected, Message,
         Offer, PeerState

\* The signaling thread takes the mutex for each message, keeps it over the
\* wait for the connection thread, and sets descriptions on the peer
\* connection there is (WebRtcClient.cpp:92-140).
LEMMA SignalingKeeps ==
  ASSUME ClientInv, Signaling \/ \E m \in Message : Receive(m)
  PROVE  ClientInv'
<1> USE OwnersAssumption DEF ClientInv
<1>1. ASSUME NEW m \in Message, Receive(m) PROVE ClientInv'
  BY <1>1 DEF Receive, TypeOK, MutualExclusion, SendersConnected, peerVars
<1>2. CASE SignalingLocks
  BY <1>2 DEF SignalingLocks, TypeOK, MutualExclusion, SendersConnected,
              peerVars, mailVars
<1>3. CASE HandleDescription
  BY <1>3 DEF HandleDescription, TypeOK, MutualExclusion, SendersConnected,
              mailVars
<1>4. CASE RequestExit
  BY <1>4 DEF RequestExit, TypeOK, MutualExclusion, SendersConnected,
              peerVars, mailVars
<1>5. CASE StartThread
  BY <1>5 DEF StartThread, TypeOK, MutualExclusion, SendersConnected,
              peerVars, mailVars
<1>6. QED BY <1>1, <1>2, <1>3, <1>4, <1>5 DEF Signaling

\* The connection thread holds the mutex from before it destroys the peer
\* connection until it has made another (WebRtcClient.cpp:142-231).
LEMMA ConnectingKeeps ==
  ASSUME ClientInv, Connecting
  PROVE  ClientInv'
<1> USE OwnersAssumption DEF ClientInv
<1>1. CASE CheckExiting
  BY <1>1 DEF CheckExiting, TypeOK, MutualExclusion, SendersConnected,
              signalVars, peerVars, mailVars
<1>2. CASE ConnectLocks
  BY <1>2 DEF ConnectLocks, TypeOK, MutualExclusion, SendersConnected,
              signalVars, peerVars, mailVars
<1>3. CASE ResetPeer
  <2>1. \A t \in Senders : sender[t] \notin {"checking", "sending"}
    BY <1>3 DEF ResetPeer, MutualExclusion
  <2>2. \A t \in Senders :
          sender'[t] = IF sender[t] = "reading" THEN "dangling" ELSE sender[t]
    BY <1>3 DEF ResetPeer
  <2>3. TypeOK'
    BY <1>3 DEF ResetPeer, TypeOK, signalVars, mailVars
  <2>4. MutualExclusion' /\ SendersConnected'
    BY <1>3, <2>1, <2>2 DEF ResetPeer, MutualExclusion, SendersConnected,
                            signalVars
  <2>5. QED BY <2>3, <2>4
<1>4. CASE CreatePeer
  <2>1. TypeOK'
    BY <1>4 DEF CreatePeer, TypeOK, Aged, Offer, Message, PeerState
  <2>2. MutualExclusion' /\ SendersConnected'
    BY <1>4 DEF CreatePeer, MutualExclusion, SendersConnected
  <2>3. QED BY <2>1, <2>2
<1>5. CASE Wake
  BY <1>5 DEF Wake, TypeOK, MutualExclusion, SendersConnected,
              signalVars, peerVars, mailVars
<1>6. CASE TestConnected
  BY <1>6 DEF TestConnected, TypeOK, MutualExclusion, SendersConnected,
              signalVars, peerVars, mailVars
<1>7. QED BY <1>1, <1>2, <1>3, <1>4, <1>5, <1>6 DEF Connecting

\* A sender holds the mutex from its test of the connection to the end of its
\* message (WebRtcClient.cpp:50-90).
LEMMA SendingKeeps ==
  ASSUME ClientInv, NEW t \in Senders, ReadPeer(t) \/ CallSend(t) \/ Sending(t)
  PROVE  ClientInv'
<1> USE OwnersAssumption DEF ClientInv
<1>1. ASSUME NEW to \in {"idle", "reading", "locking"}, Moves(t, to),
             UNCHANGED <<mutex, signalVars, connect, exiting, peerVars, mailVars>>
      PROVE  ClientInv'
  BY <1>1 DEF Moves, TypeOK, MutualExclusion, SendersConnected,
              signalVars, peerVars, mailVars
<1>2. CASE ReadPeer(t) \/ CallSend(t) \/ ReadState(t)
  BY <1>1, <1>2 DEF ReadPeer, CallSend, ReadState
<1>3. CASE SenderLocks(t)
  BY <1>3 DEF SenderLocks, Moves, TypeOK, MutualExclusion, SendersConnected,
              signalVars, peerVars, mailVars
<1>4. CASE CheckSend(t)
  <2>1. CASE Connected /\ Moves(t, "sending") /\ UNCHANGED mutex
    BY <1>4, <2>1 DEF CheckSend, Connected, Moves, TypeOK, MutualExclusion,
              SendersConnected, signalVars, peerVars, mailVars
  <2>2. CASE Moves(t, "idle") /\ mutex' = Nobody
    BY <1>4, <2>2 DEF CheckSend, Moves, TypeOK, MutualExclusion,
              SendersConnected, signalVars, peerVars, mailVars
  <2>3. QED BY <1>4, <2>1, <2>2 DEF CheckSend
<1>5. CASE SendDone(t)
  BY <1>5 DEF SendDone, Moves, TypeOK, MutualExclusion, SendersConnected,
              signalVars, peerVars, mailVars
<1>6. QED BY <1>2, <1>3, <1>4, <1>5 DEF Sending

\* What happens outside: answers, and changes of the connection's state, which
\* never take the peer connection away.
LEMMA EnvironmentKeeps ==
  ASSUME ClientInv, PeerChanges \/ \E o \in Offer : Answer(o)
  PROVE  ClientInv'
<1> USE DEF ClientInv
<1>1. ASSUME NEW o \in Offer, Answer(o) PROVE ClientInv'
  BY <1>1 DEF Answer, TypeOK, MutualExclusion, SendersConnected,
              signalVars, peerVars
<1>2. CASE PeerChanges
  <2>1. peer # "none" /\ peer' \in PeerState
    BY <1>2 DEF PeerChanges, PeerState
  <2>2. peer' # "none"
    BY <2>1 DEF PeerState
  <2>3. QED BY <1>2, <2>1, <2>2 DEF PeerChanges, TypeOK, MutualExclusion,
              SendersConnected, signalVars, mailVars
<1>3. QED BY <1>1, <1>2

-----------------------------------------------------------------------------
\* Every step of every thread keeps the invariant.
LEMMA ClientInvNext == ClientInv /\ [Next]_vars => ClientInv'
<1> SUFFICES ASSUME ClientInv, [Next]_vars PROVE ClientInv'
  OBVIOUS
<1>1. CASE UNCHANGED vars
  BY <1>1 DEF vars, ClientInv, TypeOK, MutualExclusion, SendersConnected
<1>2. QED BY <1>1, SignalingKeeps, ConnectingKeeps, SendingKeeps,
             EnvironmentKeeps DEF Next

\* The threads hold the mutex where they use the peer connection.
THEOREM ClientInvariant == Spec => []ClientInv
  BY ClientInvInit, ClientInvNext, PTL DEF Spec

\* The threads, the mutex, the connection and the messages keep their types.
THEOREM ClientTypes == Spec => []TypeOK
<1>1. ClientInv => TypeOK
  BY DEF ClientInv
<1>2. QED BY <1>1, ClientInvariant, PTL

\* While a sender hands fragments to a channel, nobody destroys the channel or
\* the peer connection, and no two senders interleave their fragments
\* (WebRtcClient.cpp:55-90, 149-155).
THEOREM NoSenderDisturbed == Spec => []SendersUndisturbed
<1>1. ClientInv => SendersUndisturbed
  BY OwnersAssumption
     DEF ClientInv, MutualExclusion, SendersConnected, SendersUndisturbed
<1>2. QED BY <1>1, ClientInvariant, PTL
=============================================================================
