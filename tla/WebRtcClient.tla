---------------------------- MODULE WebRtcClient ----------------------------
(***************************************************************************)
(* The stream source's WebRTC client, warp-drive/Messaging/                *)
(* WebRtcClient.cpp: the threads that meet in it and its mutex.            *)
(*                                                                         *)
(*  - the signaling thread raises the gateway's messages one by one;       *)
(*    PairingComplete stops the connection thread, waits for its end and   *)
(*    starts a new one, all under the mutex;                               *)
(*  - the connection thread makes a peer connection, sleeps for the        *)
(*    connection timeout, and makes another unless the first is connected; *)
(*  - senders (the frame thread, and the threads that send control and aux *)
(*    messages) use the channels under the mutex; the frame thread asks    *)
(*    IsConnected first, without it.                                       *)
(*                                                                         *)
(* libdatachannel's peer connection and the viewer are the environment.    *)
(* A description is named after the offer it answers: "current" when that  *)
(* offer is the present peer connection's, "stale" when an earlier one's.  *)
(***************************************************************************)
EXTENDS FiniteSets

CONSTANTS Senders,          \* the threads that send
          FrameThread,      \* the one of them that sends video frames
          Nobody            \* owner of a free mutex

ASSUME SendersAssumption == FrameThread \in Senders
ASSUME OwnersAssumption == /\ Nobody \notin Senders \cup {"signaling", "connect"}
                           /\ {"signaling", "connect"} \cap Senders = {}

VARIABLES mutex,            \* _mutex: the thread that holds it
          signaling,        \* where the signaling thread is
          message,          \* the message it handles
          connect,          \* where the connection thread is
          exiting,          \* _connectionThread.is_exiting()
          peer,             \* _peerConnection and its channels, or "none"
          remote,           \* the description set on it
          sender,           \* where each sender is
          offers, answers   \* descriptions on their way

vars == <<mutex, signaling, message, connect, exiting, peer, remote,
          sender, offers, answers>>

signalVars == <<signaling, message>>
peerVars == <<peer, remote>>
mailVars == <<offers, answers>>

Offer == {"current", "stale"}

Message == {"PairingComplete", "Candidate"} \cup Offer

PeerState == {"New", "Connected", "Disconnected", "Failed"}

Connected == peer = "Connected"

ThreadEnded == connect \in {"none", "ended"}

-----------------------------------------------------------------------------
Init ==
  /\ mutex = Nobody
  /\ signaling = "idle" /\ message = "PairingComplete"
  /\ connect = "none" /\ exiting = FALSE
  /\ peer = "none" /\ remote = "none"
  /\ sender = [t \in Senders |-> "idle"]
  /\ offers = {} /\ answers = {}

-----------------------------------------------------------------------------
(***************************************************************************)
(* The signaling thread: OnSignalingMessageReceived and OnPairingComplete. *)
(***************************************************************************)
Receive(m) ==
  /\ signaling = "idle"
  /\ m \in Offer => m \in answers
  /\ signaling' = "locking"
  /\ message' = m
  /\ answers' = answers \ {m}
  /\ UNCHANGED <<mutex, connect, exiting, peerVars, sender, offers>>

SignalingLocks ==
  /\ signaling = "locking"
  /\ mutex = Nobody
  /\ mutex' = "signaling"
  /\ signaling' = "handling"
  /\ UNCHANGED <<message, connect, exiting, peerVars, sender, mailVars>>

\* Mutant: the return for a missing peer connection leaves the mutex locked.
HandleDescription_ReturnsLocked ==
  /\ signaling = "handling"
  /\ message # "PairingComplete"
  /\ remote' = IF peer # "none" /\ message \in Offer THEN message ELSE remote
  /\ mutex' = IF peer # "none" THEN Nobody ELSE mutex
  /\ signaling' = "idle"
  /\ UNCHANGED <<message, connect, exiting, peer, sender, mailVars>>

\* A description or candidate goes to the peer connection there is now.
HandleDescription ==
  /\ signaling = "handling"
  /\ message # "PairingComplete"
  /\ remote' = IF peer # "none" /\ message \in Offer THEN message ELSE remote
  /\ mutex' = Nobody
  /\ signaling' = "idle"
  /\ UNCHANGED <<message, connect, exiting, peer, sender, mailVars>>

\* _connectionThread.reset(): request the exit, then wait for the thread.
RequestExit ==
  /\ signaling = "handling"
  /\ message = "PairingComplete"
  /\ exiting' = TRUE
  /\ signaling' = "joining"
  /\ UNCHANGED <<mutex, message, connect, peerVars, sender, mailVars>>

StartThread ==
  /\ signaling = "joining"
  /\ ThreadEnded
  /\ signaling' = "idle"
  /\ connect' = "checking"
  /\ exiting' = FALSE
  /\ mutex' = Nobody
  /\ UNCHANGED <<message, peerVars, sender, mailVars>>

-----------------------------------------------------------------------------
(***************************************************************************)
(* The connection thread: Connect.                                         *)
(***************************************************************************)
CheckExiting ==
  /\ connect = "checking"
  /\ connect' = IF exiting THEN "ended" ELSE "locking"
  /\ UNCHANGED <<mutex, signalVars, exiting, peerVars, sender,
                 mailVars>>

ConnectLocks ==
  /\ connect = "locking"
  /\ mutex = Nobody
  /\ mutex' = "connect"
  /\ connect' = "resetting"
  /\ UNCHANGED <<signalVars, exiting, peerVars, sender, mailVars>>

\* Mutant: the description outlives its peer connection.
ResetPeer_KeepsRemote ==
  /\ connect = "resetting"
  /\ connect' = "creating"
  /\ peer' = "none"
  /\ UNCHANGED <<mutex, signalVars, exiting, remote, sender, mailVars>>

\* The channels and the peer connection are destroyed.  A thread that has
\* read the pointer in IsConnected and not yet used it is left dangling.
ResetPeer ==
  /\ connect = "resetting"
  /\ connect' = "creating"
  /\ peer' = "none"
  /\ remote' = "none"
  /\ sender' = [t \in Senders |-> IF sender[t] = "reading" THEN "dangling"
                                                            ELSE sender[t]]
  /\ UNCHANGED <<mutex, signalVars, exiting, mailVars>>

Aged(descriptions) == IF descriptions = {} THEN {} ELSE {"stale"}

\* Mutant: the mutex stays locked over the sleep that follows.
CreatePeer_KeepsLock ==
  /\ connect = "creating"
  /\ connect' = "sleeping"
  /\ peer' = "New"
  /\ offers' = {"current"} \cup Aged(offers)
  /\ answers' = Aged(answers)
  /\ UNCHANGED <<mutex, signalVars, exiting, remote, sender>>

\* The new peer connection and its three channels; creating a channel makes
\* libdatachannel send the offer.  A message being handled ages as well.
CreatePeer ==
  /\ connect = "creating"
  /\ connect' = "sleeping"
  /\ peer' = "New"
  /\ offers' = {"current"} \cup Aged(offers)
  /\ answers' = Aged(answers)
  /\ message' = IF message \in Offer THEN "stale" ELSE message
  /\ mutex' = Nobody
  /\ UNCHANGED <<signaling, exiting, remote, sender>>

Wake ==
  /\ connect = "sleeping"
  /\ connect' = "testing"
  /\ UNCHANGED <<mutex, signalVars, exiting, peerVars, sender,
                 mailVars>>

TestConnected ==
  /\ connect = "testing"
  /\ connect' = IF Connected THEN "ended" ELSE "checking"
  /\ UNCHANGED <<mutex, signalVars, exiting, peerVars, sender, mailVars>>

-----------------------------------------------------------------------------
(***************************************************************************)
(* The senders: IsConnected, SendVideoFrame, SendControlMessage and        *)
(* SendAuxMessage.                                                         *)
(***************************************************************************)
Moves(t, to) == sender' = [sender EXCEPT ![t] = to]

\* The frame thread's IsConnected reads the pointer ...
ReadPeer(t) ==
  /\ t = FrameThread /\ sender[t] = "idle"
  /\ peer # "none"
  /\ Moves(t, "reading")
  /\ UNCHANGED <<mutex, signalVars, connect, exiting, peerVars,
                 mailVars>>

\* ... and then the state behind it.  Behind a pointer to a destroyed peer
\* connection it may find anything.
ReadState(t) ==
  /\ \/ sender[t] = "reading" /\ Connected /\ Moves(t, "locking")
     \/ sender[t] = "reading" /\ ~ Connected /\ Moves(t, "idle")
     \/ sender[t] = "dangling" /\ \E to \in {"locking", "idle"} : Moves(t, to)
  /\ UNCHANGED <<mutex, signalVars, connect, exiting, peerVars,
                 mailVars>>

CallSend(t) ==
  /\ t # FrameThread /\ sender[t] = "idle"
  /\ Moves(t, "locking")
  /\ UNCHANGED <<mutex, signalVars, connect, exiting, peerVars,
                 mailVars>>

\* Mutant: no lock_guard in the send functions.
SenderLocks_NoLock(t) ==
  /\ sender[t] = "locking"
  /\ Moves(t, "checking")
  /\ UNCHANGED <<mutex, signalVars, connect, exiting, peerVars,
                 mailVars>>

SenderLocks(t) ==
  /\ sender[t] = "locking"
  /\ mutex = Nobody
  /\ mutex' = t
  /\ Moves(t, "checking")
  /\ UNCHANGED <<signalVars, connect, exiting, peerVars, mailVars>>

\* Mutant: the return for a missing connection leaves the mutex locked.
CheckSend_ReturnsLocked(t) ==
  /\ sender[t] = "checking"
  /\ Moves(t, IF Connected THEN "sending" ELSE "idle")
  /\ UNCHANGED <<mutex, signalVars, connect, exiting, peerVars,
                 mailVars>>

CheckSend(t) ==
  /\ sender[t] = "checking"
  /\ \/ Connected /\ Moves(t, "sending") /\ UNCHANGED mutex
     \/ ~ Connected /\ Moves(t, "idle") /\ mutex' = Nobody
  /\ UNCHANGED <<signalVars, connect, exiting, peerVars, mailVars>>

\* The last fragment has been handed to the channel.
SendDone(t) ==
  /\ sender[t] = "sending"
  /\ Moves(t, "idle")
  /\ mutex' = Nobody
  /\ UNCHANGED <<signalVars, connect, exiting, peerVars, mailVars>>

-----------------------------------------------------------------------------
(***************************************************************************)
(* The environment.                                                        *)
(***************************************************************************)
\* The viewer answers an offer, or never gets it or has no use for it.
Answer(o) ==
  /\ o \in offers
  /\ offers' = offers \ {o}
  /\ \/ answers' = answers \cup {o}
     \/ UNCHANGED answers
  /\ UNCHANGED <<mutex, signalVars, connect, exiting, peerVars, sender>>

\* The peer connection connects once it has a remote description, and its
\* connection may be lost, for a while or for good.
PeerChanges ==
  /\ \/ peer = "New" /\ remote # "none" /\ peer' = "Connected"
     \/ peer = "New" /\ peer' = "Failed"
     \/ peer = "Connected" /\ peer' = "Disconnected"
     \/ peer = "Disconnected" /\ peer' \in {"Connected", "Failed"}
  /\ UNCHANGED <<mutex, signalVars, connect, exiting, remote, sender,
                 mailVars>>

Signaling == \/ SignalingLocks \/ HandleDescription
             \/ RequestExit \/ StartThread
Connecting == \/ CheckExiting \/ ConnectLocks \/ ResetPeer \/ CreatePeer
              \/ Wake \/ TestConnected
Sending(t) == ReadState(t) \/ SenderLocks(t) \/ CheckSend(t) \/ SendDone(t)

Next ==
  \/ \E m \in Message : Receive(m)
  \/ Signaling
  \/ Connecting
  \/ \E t \in Senders : ReadPeer(t) \/ CallSend(t) \/ Sending(t)
  \/ \E o \in Offer : Answer(o)
  \/ PeerChanges

(***************************************************************************)
(* A thread that can run runs, a sleep ends, and a thread that waits for   *)
(* the mutex gets it if it is free again and again.  Nothing is assumed of *)
(* the messages and of the peer connection.                                *)
(***************************************************************************)
Fairness ==
  /\ WF_vars(HandleDescription) /\ WF_vars(RequestExit) /\ WF_vars(StartThread)
  /\ SF_vars(SignalingLocks)
  /\ WF_vars(CheckExiting) /\ WF_vars(ResetPeer) /\ WF_vars(CreatePeer)
  /\ WF_vars(Wake) /\ WF_vars(TestConnected)
  /\ SF_vars(ConnectLocks)
  /\ \A t \in Senders : /\ WF_vars(ReadState(t)) /\ WF_vars(CheckSend(t))
                        /\ WF_vars(SendDone(t))
                        /\ SF_vars(SenderLocks(t))

Spec == Init /\ [][Next]_vars

FairSpec == Spec /\ Fairness

-----------------------------------------------------------------------------
TypeOK ==
  /\ mutex \in Senders \cup {"signaling", "connect", Nobody}
  /\ signaling \in {"idle", "locking", "handling", "joining"}
  /\ message \in Message
  /\ connect \in {"none", "checking", "locking", "resetting", "creating",
                  "sleeping", "testing", "ended"}
  /\ exiting \in BOOLEAN
  /\ peer \in PeerState \cup {"none"}
  /\ remote \in IF peer = "none" THEN {"none"} ELSE Offer \cup {"none"}
  /\ sender \in [Senders -> {"idle", "reading", "dangling", "locking",
                             "checking", "sending"}]
  /\ offers \subseteq Offer /\ answers \subseteq Offer

\* While a sender hands fragments to a channel, nobody destroys the channel
\* or the peer connection under it (WebRtcClient.cpp:55-90, 149-155), and no
\* two senders interleave the fragments of their messages.
SendersUndisturbed ==
  \A t \in Senders : sender[t] = "sending" =>
    /\ peer # "none"
    /\ connect \notin {"resetting", "creating"}
    /\ \A u \in Senders : sender[u] = "sending" => u = t

\* A pairing waits for a connection thread that has passed its check for the
\* exit and waits for the mutex (WebRtcClient.cpp:138, 144-149).
Stuck == signaling = "joining" /\ connect = "locking"

\* But for that, no thread keeps the mutex for good: each send returns
\* (WebRtcClient.cpp:55-90) ...
SendsReturn ==
  \A t \in Senders : sender[t] = "locking" ~> sender[t] = "idle" \/ Stuck

\* ... each message gets handled, a pairing that meets a running attempt
\* included (WebRtcClient.cpp:92-140) ...
MessagesHandled == signaling = "locking" ~> signaling = "idle" \/ Stuck

\* ... and each attempt goes on to make a connection, or ends because a
\* pairing asked for it (WebRtcClient.cpp:142-231).
AttemptsGoOn == connect = "checking" ~> connect \in {"sleeping", "ended"} \/ Stuck

\* WebRtcClient.cpp:230 "Failed to connect, retrying...": an attempt that
\* went wrong is followed by another, or by the end a new pairing asked for.
RetryFollows == connect = "checking" ~> connect \in {"sleeping", "ended"}
=============================================================================
