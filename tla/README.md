# A TLA+ verification of WarpR

WarpR streams a window of a desktop to a browser. A *stream source* (C++, `warp-drive`) captures
frames, encodes them on the GPU and sends them over WebRTC; a *viewer* (TypeScript, `warpr-lib`)
decodes and shows them and sends input back; a *gateway* (C#, `warp-gateway`, hosted by `wormhole`)
pairs sources with viewers and relays their WebRTC negotiation.

This directory holds TLA+ models of the parts that keep state, configurations for TLC, and proofs
checked by TLAPS. Run TLC with `tlc -config X.cfg M` and the proofs with `tlapm M.tla` for a module `*Proofs`.
`PROJECT.json` names the runs, the lines behind each definition, and for each property a mutant
(an operator `Name_Bug` beside the definition it changes) that makes it fail.

## 1. Inventory

### Gateway

| Part | State | Operations |
|---|---|---|
| Matchmaker (`Session/Matchmaker.cs`) | free sources and free sinks by remote end point, set of pairs | handlers for a source or sink added or removed, pairing loop; a pair relays messages and tells both ends of the pairing |
| Repositories and controllers (`Messaging/WebSocketRepository.cs`, `WebSocketController.cs`, `Sources/`, `Sinks/`) | sockets and the connection of each | accept, first message (the connection request), disconnect |
| Web socket stream (`Extensions/WebSocketResult.cs`) | the task that the next send continues | receive loop, `SendMessageAsync` |
| Certificates (`Extensions/CertificateHelper.cs`, `wormhole/Program.cs`) | six files, the machine's store of trusted roots | read, validate, make, write, install |

*Interaction.* The receive loop of each socket raises events on its repository; the matchmaker handles
the events of all sockets under one lock and sends messages to both ends of a pair.
*Hard.* Sources and viewers come and go in any order; a connection is found by its end point, or
by looking through the pairs; the pairing loop changes what it works on; the server may stop between two
writes of files that are not written again. *Correct when* every connection is in exactly one place, the
matchmaker forgets what has left and nothing else, sessions are kept apart, pairs are stable, and
whatever certificates are found, the server starts with a fitting one.

### Stream source

| Part | State | Operations |
|---|---|---|
| Web socket client (`Messaging/WebSocketClient.cpp`) | socket, reconnect timer | receive, send, reconnect after a second |
| WebRTC client (`Messaging/WebRtcClient.cpp`) | mutex, peer connection, channels, connection thread | a pairing, a description, a candidate; connect with retries; send a frame, a control or an aux message |
| Splitter and assembler (`MessageSplitter.cpp`, `MessageAssembler.cpp`, `MessageFragmentHeader.cpp`) | index of the next message; the message being put together | split, push, reset |
| Session (`Core/WarpSession.cpp`) | `_isKeyFrameSent`, its mutex | a frame arrives; key frame request, codec preference, pairing, pointer input, surface |
| Preprocessor and encoder (`Encoder/`) | targets, texture, encoder session, registered resource, output buffer | draw and convert a frame, set up and encode |
| Capture, input, device, logger | handles of the system | pass on |

*Interaction.* The capture event drives the session, which calls preprocessor and encoder and sends through
the WebRTC client; signaling messages come from the web socket's thread, streaming messages
from libdatachannel's. *Hard.* Four kinds of threads meet in the WebRTC client; the peer connection is destroyed and made again under
senders; a connection may come up when it has just been given up; requests arrive in the middle of a
frame; GPU calls fail half way. *Correct when* nobody uses what another thread destroys, nobody waits for
ever, failed attempts and only these are retried, each request leads to a key frame, and what is
encoded is the present frame under its true properties.

### Viewer

| Part | State | Operations |
|---|---|---|
| Messaging service, web socket client | session id, socket | request to connect, events |
| Streaming service (`services/streaming.service.ts`) | peer connection, three channels, splitter, two assemblers | reconnect, describe and answer, channels, messages |
| Splitter and assembler (`message-splitter.ts`, `message-assembler.ts`) | next index; builders of several messages, oldest first | split, push and evict |
| Stream host (`components/stream-host`) | decoder, frames in its queue, decodable and working codecs | send the preference, receive a frame, frame decoded, decoder failed, render, input |

*Interaction.* All of it runs on one event loop; the WebCodecs decoder calls back. *Hard.* Frames are lost and
reordered; channels are announced in any order; decoders fail late, or claim what they cannot do; the event
loop goes on while a handler awaits. *Correct when* frames are put together from their own
fragments, each decoder starts with a key frame, its queue is counted right, and a viewer recovers as long as
the connection stays up.

`PROJECT.json` lists the components with their status, and under `hazards` each place where one of these
difficulties bites, with the properties about it.

## 2. Modules

| Module | Code | Composition |
|---|---|---|
| `Matchmaker` | Matchmaker.cs, repositories, controllers | alone; `MCMatchmaker` |
| `MatchmakerProofs` | theorems about `Matchmaker` | extends it |
| `Negotiation` | pairs and their relays, WebRtcClient.cpp and WebSocketClient.cpp, streaming.service.ts | extends `Matchmaker`; implements `PeerLinks`; `MCNegotiation` |
| `PeerLinks` | what the signaling is for, without messages | abstract |
| `NegotiationProofs` | theorems about `Negotiation`, its refinement of `PeerLinks` included | extends it and `MatchmakerProofs` |
| `SendQueue` | WebSocketResult.cs | alone; implements `MessageOrder` |
| `MessageOrder` | what a sender on a socket relies on | abstract |
| `SendQueueProofs` | theorems about `SendQueue` | extends it |
| `Certificates` | Program.cs, CertificateHelper.cs | alone; `MCCertificates` |
| `WebRtcClient` | WebRtcClient.cpp | alone; `MCWebRtcClient` |
| `Fragments` | what both splitters and assemblers compute | extended by the next two |
| `StreamFragments` | native splitter, channel, viewer's assembler | with `Fragments` |
| `AuxFragments` | viewer's splitter, channel, native assembler, new connections | with `Fragments`; `MCFragments` instantiates both |
| `FragmentsProofs` | theorems about both directions | extends `MCFragments` |
| `Codecs` | the choice of a codec | extended by three modules |
| `StreamChannels` | the peer connection's channels between session and viewer | extended by the next two |
| `WarpSession` | WarpSession.cpp | with `StreamChannels` |
| `StreamHost` | stream-host.component.ts | with `StreamChannels` |
| `Streaming` | source and viewer together, fairness, liveness | composes `WarpSession` and `StreamHost`; `MCStreaming` |
| `VideoEncoder` | VideoPreprocessor.cpp, VideoEncoder.cpp | alone; `MCVideoEncoder` |
| `CertificatesProofs`, `WebRtcClientProofs`, `StreamingProofs`, `VideoEncoderProofs` | theorems about these four | each extends one |

### Matchmaker

`connection` says how far a socket is (closed, accepted, its request received), `freeSources`, `freeSinks` and
`pairs` are the fields of the class. Each event of a socket is an action together with the handler it ends in; the
lock of the handlers makes them atomic. The dictionaries are functions from end points to a connection or `NoConnection`, so
that two connections at one end point overwrite each other as in the code. The pairing loop goes over a snapshot
of the sources in an order the dictionary does not fix; `PairSourcesAndSinks` chooses it, and is otherwise
a fold over the sources in that order with the snapshot of the sinks, which the code does not update.

### Negotiation

The matchmaker's handlers are those of `Matchmaker`; a new pair relays at once, and `notices` holds the `PairingComplete`s its
constructor has yet to send, to the source first. No other handler of the matchmaker runs before they are sent, since they are
sent under its lock. `up` and `down` are the messages on their way between each client and the gateway; closing a socket loses them.
`source` is the WebRTC client as far as signaling goes: its connection thread, the attempt, the description and candidates set on it,
and the viewer it is connected with. `viewer` is the streaming service: a peer connection, numbered by `Reconnect`, and the browser's chain
of pending operations on it. A handler that awaits an operation is its entry in the chain, and goes on as the next entry, which finds the peer connection
in whatever state other handlers have brought it. A handler whose peer connection is closed never continues, as WebRTC specifies.

### SendQueue

`task` is the state of each message's task: the first is the send, each later one a continuation that is completed when `SendAsync`
has been called. So from the third message on a send may be called while others are `pending`. That is outside of what the documentation of
`System.Net.WebSockets` promises; the model has the socket serve such sends in the order of the calls, which is what it does.

### Certificates

`at` is the statement of `Program.cs`, `files` the six files; `Stop` ends the process at any point,
and a file being written is then whole, untouched or cut short (`Torn`). Writes of the files in `failing`, chosen once from `Failures`, may fail, that of the root
included; a write that fails has the same outcomes, and the program goes on. Certificates are records of a key, the issuer's key, the time they end and the names.
Time is counted in units with a `Day` and a `Year` of a few; the comparison with local time is the constant `Zone`, and
the look-up of names as parts of a text is the relation `PartOf`.

### WebRtcClient

One program location per thread: the signaling thread, the connection thread, and the senders, of which the frame thread
looks at the connection first without the mutex. Each call between two accesses to shared state is a step. The peer connection is the
environment's: its state may change at any time, and answers to the offers of earlier attempts may still come in (`stale`).

### Fragments

A fragment is its header and the number of the message its bytes came from, so that a buffer shows which
messages are in it. `StreamFragments` has the native splitter, which numbers every message 1, and an assembler with up to `MaxBuilderCount` builders; the channel
is reliable and in order (the aux channel) or neither (`lossy`, the stream channel). `AuxFragments` is the
other direction, with new peer connections that reset the assembler and start a new splitter. They share nothing in the code; `MCFragments` has
the behaviours of either.

### Streaming

`WarpSession` cuts the frame callback into the steps between which another thread can change
`_isKeyFrameSent` or the preference: arrive (lock), encode and test, set the flag and send (unlock). `StreamHost` has one action per callback of
the viewer, rendering included, which sends the size of the canvas when it is not the one sent last; the decoder is its queue, its codec and the first frame it was given. A decoder may fail at any time, whatever it was given, before it has put out a frame too;
one of a broken codec never puts out a frame. `StreamChannels`
holds the video and control messages on their way: video frames are lost and overtake each other. Beyond `MaxVideo` the oldest frame is
lost, and a handler that asks for a key frame waits while `MaxControl` control messages are on their way.

### VideoEncoder

`targets` and `texture` are the preprocessor's, the others the encoder's fields; `driver` is what the GPU holds: the properties it was
initialised with and the textures registered. One action per method of `EncodeFrame`; a call in `failing`, chosen once from `Failures`, may throw,
which ends the frame and leaves the fields as assigned so far. `_inputResource` outlives a registration that failed, so the next frame unregisters it
once more, and the driver may refuse that. A new texture has an address that is not registered, since the driver holds a reference to those that are.

## 3. Runs

Passing runs, one per component or composition. Where a property holds only under a condition, the condition is part of the
property (`HasOwnEndPoint`, `HasOneSuitor`, `Stuck`, `lossy`, `ControlFirst`, `CodecLeft`, `EncoderWorks`, ...), and the run has the other case in it as well.

| Run | What it shows | Bounds, and why they are enough |
|---|---|---|
| `MatchmakerLists` | a source is in one place (`SourceHeldOnce`); nobody who has gone is kept and nobody who is there is lost, if its end point is its own (`SourcesAlive`, `NobodyLost`); a viewer with one suitor is in one place (`SinkHeldOnce`, `SinksAlive`); sessions are kept apart (`PairsFit`), pairs survive what happens to others (`PairsKept`), and an addition leaves nobody waiting beside a partner (`AddingSettles`) | 4 sources, two at one end point, and 3 viewers; sessions shared, owned and absent: the loop goes over up to three sources, a source may be overwritten, and a removal leaves other pairs and free connections of both kinds |
| `CertificatesStarts` | through stops at any point and failing writes: `ServedChains`, `FailsOnlyExpired`, `RootKept` | 3 certificates, a root of 3 units and certificates of 2: renewal, clipping to the root's end and its expiry all occur by time 5; `pfx` may fail together with `ca.pfx`, which starts read as well, or with `ca.cer`, which they only write; local time is one unit ahead |
| `WebRtcClientThreads` | `SendersUndisturbed` in every interleaving; `SendsReturn`, `MessagesHandled`, `AttemptsGoOn` but for the one deadlock `Stuck` | two senders, the frame thread and another; no other bound |
| `NegotiationPairs` | whatever comes late, is lost with a socket or relayed to the next viewer, a source is connected with the viewer of the pairing its attempt was made for or of a later pairing (`LinksPartners`); a pair that lasts gets connected when no timeout comes before a negotiation is over (`Negotiates`), and otherwise too, unless a timeout has ended the attempts (`OutlivesLateAnswers`) | one source and two viewers, and either the source's socket opens again, with three retries and one early timeout (`SourceReturns`), or one viewer follows the other, with one retry and none early (`ViewerFollows`): two pairings of one source are enough for anything of the first to meet the second; after an early timeout two attempts may be lost, one to the late answer and one to a pairing the viewer has not heard of, so the third retry is left |
| `SendQueueOrder` | messages go out in order and none stays behind while the socket is open (`InOrder`); every await ends (`AwaitsEnd`) | 6 messages: sends overlap from the third on, so up to four are pending at a time |
| `FragmentsBothWays` | reliable channels, either way and over several connections to the source: `WholeInOrder`, `AllArrive`; lossy channel: `SmallFramesIntact` | 3 messages of 1 to 3 fragments, sizes below, at and above the fragment size, and empty ones; a new connection at any point |
| `StreamingRecovery` | `FramesCounted`, `DecodersStartWithKey`, `WorkingKept`, and as long as a codec is left `Recovers` | 2 codecs, one broken; 2 frames and 1 request on their way, a decoder queue of 1: each is overrun |
| `VideoEncoderFrames` | with failing calls `EncodesThisFrame`, `FrameAsDescribed`, `NothingLeaks`; while the encoder's calls work `RegisteredAgain`, `FramesEncoded` | 2 values of each property; 3 textures (two alternate, a third for one still registered); no failures of the encoder, all but unregistering, all |

Runs that find a counterexample. Each is a behaviour of the code that contradicts what the repository says
(quoted under `findings` in `PROJECT.json`):

| Run | What happens |
|---|---|
| `MatchmakerGoneSink` | two waiting sources are given the same new viewer; when it leaves, one source stays paired with it |
| `WebRtcClientDeadlock` | a pairing that meets a connection thread between its check and its lock waits for its end with the mutex it needs |
| `FragmentsLargeFrames` | fragments of different frames, all with index 1, are put together |
| `StreamingNoPreference` | the preference is sent before the control channel is there, dropped, and not sent again |

The properties' conditions mark further limits of the code: pairing is only done on additions (`AddingSettles`), so a partner freed by a
removal waits beside one it fits until the next; two connections at one end point overwrite each
other; a source may be connected with the viewer of a later pairing than the attempt's, since its offer, on its way when the pairs change, is relayed
to that viewer; a timeout in the middle of a negotiation may find the connection with the viewer's old peer connection, which the viewer closes when it hears of the new
pairing, and then nothing is tried again (`Negotiates` excludes it by `early = 0`, `OutlivesLateAnswers` by `Ended`; it shows up without);
an answer that comes after its attempt's timeout is set on the next attempt's peer connection, which then cannot connect, and only a further retry makes up for it (`OutlivesLateAnswers`); the test at the end of an attempt is not repeated, so a connection that comes up just after it is
destroyed by the next attempt; a codec whose first decoder fails before it has put out a frame is dropped for as long as the page is there, although it may work, and when that happens to every
codec nothing is shown any more (`CodecLeft`); an empty message is cut into no fragment and never arrives (`AllArrive` exempts it); a certificate is accepted after its end for as long as local time
is ahead of UTC, and the root's end is not looked at; a texture whose registration failed counts as registered, and one that could not be unregistered is encoded again; a
root that could not be written is replaced at the next start while its certificates are still served; `.pem` and `.key` are not repaired after a stop.
`CHECK_DEADLOCK FALSE` is used where a model ends: all messages sent (`FragmentsBothWays`, `FragmentsLargeFrames`, `SendQueueOrder`), all clients
connected and idle (`NegotiationPairs`), or the deadlock of the two threads reached (`WebRtcClientThreads`, `WebRtcClientDeadlock`).

### Refinement

`Negotiation` implements `PeerLinks` (`LinksPartners`): the pairings of a source, the pairing its attempt was made for (`since`, a history variable) and
its link are what the abstract specification has; a link is made for the pairing of the attempt or a later one and never for an earlier
one, and a new attempt ends it. `NegotiationProofs` proves it for any number of sources, each of which may be in several pairs. `SendQueue` implements `MessageOrder` (`InOrder`), fairness included: `accepted` is the number of tasks, `carried` what went out.

## 4. Fairness

* `WebRtcClient!FairSpec`: each thread that can run does (weak fairness of its steps), and a thread that waits for the mutex gets
  it if it is free again and again (strong fairness of the locking steps; the mutex itself promises no order, the scheduler does not
  starve a thread for ever). Nothing is assumed of messages or of the peer connection's state, so retries may go on for ever.
* `Negotiation!FairSpec`: event loops and threads run, an open socket delivers what it took, requests are handled, sleeps end, the browser runs its
  operations, and sides that hold each other's descriptions and candidates connect (weak fairness of each). No socket has to open or to close, and
  `Negotiates` assumes that no timeout comes before a negotiation is over; that is what the configuration says, a second by default
  (`GatewayConfiguration.cs:38`), while the messages take a few round trips. `OutlivesLateAnswers` does not assume it: timeouts that come early may not do so for ever (`early`), and what they
  leave behind must not keep a later attempt from connecting. That needs retries, which the code does not bound; the model does, with as many as the bounds of the instance call for.
* `SendQueue!FairSpec`: the thread pool runs continuations that can run, the socket finishes its sends (weak fairness).
* `Streaming!FairSpec`: frames are captured and sent again and again; control messages arrive (a preference may wait for the session's mutex: strong
  fairness), channels open while the connection is up, the codecs' support becomes known, frames are rendered, and decoder callbacks
  come. Frames may be lost, but of infinitely many key frames on their way some arrive, and so of the delta frames
  (strong fairness of `ReceiveOf`); decoders that are given frames of a codec that works again and again do not fail on every one
  (strong fairness of `OnFrameDecoded`), and those of a broken codec fail when they are given one (`BrokenDecoding`). The premise
  `CodecLeft` says that a codec that works has not been dropped: a decoder that fails before it has put out a frame, because the browser cannot configure it or a key frame came
  mixed with fragments of another (`FragmentsLargeFrames`), costs its codec, and nothing brings that back. The premise
  `NotAlwaysOverwritten` says that not every request for a key frame is handled in the two instructions between which
  `OnFrameArrived` overwrites it; each time it is, the request is lost (the model has this step), and the viewer asks again for the next
  frame it cannot decode. `Recovers` is stated for connections that stay up, since nothing promises that they do.
* `VideoEncoder!FairSpec`: the thread that handles a frame goes on.

## 5. Proofs

### Matchmaker

For any sets of sources and viewers, any assignment of end points (shared ones included) and any sessions, `MatchmakerProofs` proves all that `MatchmakerLists`
checks: `SourceInvariant` (`Spec => []SourceInv`), and from it `TypeCorrect` and `SourcesHeldOnce`; `ListsInvariant` (`Spec => []ListsInv`), and from it
`NoGoneSources`, `NoGoneSinks`, `ConnectedAreHeld`, `SinksHeldOnce` and `SessionsKeptApart`; the action properties `PairsStay` (`PairsKept`) and `AdditionsSettle` (`AddingSettles`).

The assumptions are those of the module: sources and sinks are disjoint, `NoConnection` is neither, every connection has an end point and asks for sessions in `SessionIds`.

`SourceHeldOnce` is not inductive: `OnSourceAdded` puts a source among the free ones, and that breaks it
if the source is in a pair already. `NewNotHeld` says that a connection whose request has not been received is
in no list, and is itself kept because handlers only move connections that are held. The argument about a step has
two parts: the removal or insertion of one connection (`PutValues`, `RemoveKeyValues`, `WithoutValues`, lemmas about
the dictionaries), and the pairing loop (`PairingLoop`), which pairs each source of the snapshot at
most once and takes it out of the free ones.

The other invariants need each other. A source that leaves is taken out because it is where its end point or a pair says (`FreesFiled`: a
connection is filed under its own end point) and in one place only. A viewer with one suitor is in one place because whoever it is paired with is a
suitor of it (`PairedWithSuitors`), for sessions fit and are those asked for (`SessionsAsked`), and that source is in one pair. The
proof goes from dictionaries to the sets of their values (`PutFiled`, `RemoveKeyFiled`, `HasKeyFiled`), from the loop to the set of pairs it makes
(`LoopMakesPairs`, which forgets the order of the walk), and from the four handlers to additions (`AdditionKeeps`) and removals (`RemovalKeeps`).

### Negotiation

For any sources and viewers, sockets that close and open again in any order, and any number of retries: `NegotiationMatches` (`NegotiationSpec => Spec`: the matchmaker's theorems hold
among clients and messages too), `LinksInvariant` (`NegotiationSpec => []LinksInv`), and from it `NegotiationTypes` and the refinement `NegotiationLinks` (`LinksPartners`).
Assumed are the matchmaker's assumptions, that there are finitely many connections, and that `Nobody` is none.

`LinksPartners` is about one moment, the making of a link, but what makes it true is spread over everything on its way. A source is told of its pairings in their order (`PairingsInOrder`: the numbers on the
messages rise, and none is higher than what the gateway has given out), so an attempt is never for a later pairing than the last. An offer that reaches a viewer is of an earlier attempt,
or the source has been paired with this viewer since the attempt began (`Due`); this must hold of the offers a source has sent, those relayed, those in the viewer's chain of operations and
the one it answers (`OffersDue`), and it is the gateway relaying by the *present* pair, the last in `paired` (`PairsLast`), that makes it so. Messages are treated by sets: each queue is a sequence over what
may be in it, a step keeps that because the set only grows and what is appended is in it.

### Certificates

For any lives of certificates, difference of local time from UTC, names and files that cannot be written: `CertificatesInvariant` (`Spec => []CertificatesInv`), and from it
`CertificateTypes`, `ChainServed` (`ServedChains`), `OnlyExpiredFails` (`FailsOnlyExpired`), and the action property `RootNeverReplaced` (`RootKept`).
Assumed is that lives are positive and that an absent or torn file is no certificate.

`ServedChains` speaks of servers that run, but a start may take up what several others left when they were stopped. What connects them is in the files: from the second
statement on the root in use is the one in its file (`RootRead`), a root is made only where there is none to read, and so the certificate in its file goes back to the root in its file (`Chained`), at any
point of a start and between starts. Certificates are told apart by keys that are numbered through (`KeysApart`).

### SendQueue

`SendQueueProofs` proves, for any number of messages, `SendsInOrder`: `Spec => Order!Spec`, that is, the safety part of `InOrder`. What has to be found is why
overlapping sends keep their order: while the socket is open, the messages whose send has been called are a prefix (`CalledInOrder`), because a
continuation waits for the task before, and those pending or sent are numbered through (`Numbered`). `QueueInv` is inductive, and under it
`SendMessageAsync`, `FinishSend` and `Close` are steps of `MessageOrder`, a continuation none.

### WebRtcClient

For any number of threads that send: `ClientInvariant` (`Spec => []ClientInv`), and from it `ClientTypes` and `NoSenderDisturbed` (`SendersUndisturbed`).
`ClientInv` is type correctness, mutual exclusion, place by place, and that a sender that sends has a connection. The peer connection goes only while the
connection thread holds the mutex, and the places where a thread looks at it without the mutex change nothing. The assumptions name
the owners of the mutex apart.

### Fragments

For any sizes of messages and fragments, and any number of messages: `FragmentsInvariant` (`Spec => []FragmentsInv`), and from it `AssemblersBounded` (`AssemblersOK`), `MessagesInOrder` (`WholeInOrder`),
`NothingStaysBehind` (`AllArrive`) and, over the channel that loses fragments and changes their order, `SmallFramesWhole` (`SmallFramesIntact`). Assumed is that sizes are natural numbers and that of fragments is
positive, that the assemblers have room for a message, and `MaxMessages \in Nat`.

On a reliable channel are all fragments from some place on (`InSequence`). So the first one on its way says which message and fragment are due (`DueMessage`, `DueFragment`), and
what an assembler holds follows: the first `DueFragment` fragments of message `DueMessage`, and nothing else (`BuilderDue`, `AssemblerDue`; `Partial` is the buffer). What it has returned are the messages before, but for the empty ones (`ArrivedInOrder`): an empty message is cut into no fragment, so
messages come in order with gaps, which are empty messages and nothing else. The arithmetic is
that of a division rounded up (`CountBounds`): the last fragment starts inside of the message and ends where it ends. To the source, messages of one connection have different indexes
(`IndexOf`), and none that of a reset assembler, so that nothing of the last connection's meets this one's. To the viewer all have index 1, so that there is one builder at most; that is enough on a reliable channel, and for frames of one
fragment on any, but not for larger frames (`FragmentsLargeFrames`).

### Streaming

For any codecs, any of them broken, and any bounds: `DecoderInvariant` (`Spec => []DecoderInv`), and from it `QueueCounted` (`FramesCounted`),
`KeyFramesFirst` (`DecodersStartWithKey`) and `WorkingCodecsKept` (`WorkingKept`). Nothing is assumed of the frames that arrive nor of when decoders fail, so none of it rests on
what the source, the channel or the browser does. `WorkingKept` is not inductive: `OnFrameDecoded` adds the codec of the last frame received, `videoCodec`, to those that
work, and `OnDecoderError` drops the codec of its decoder. They are the same, and it is not dropped, as long as there is a decoder that can put something out (`DecoderCurrent`): frames of a dropped codec are skipped before a decoder is made for
them, and the decoder that failed puts nothing out any more.

`StreamingTypes` (`TypeOK`) joins the types of both sides with those of what is between them (`StreamInv`), since what either takes up the other has sent: a preference the session makes a codec of is a sequence of
codecs because `InOrder` lists a set as one. `InOrder` is a recursive function; that it is defined at all, and of that type, is proved by its least failing place (`LeastElement`, `ListsExist`, `ListedInOrder`).
Assumed is that the viewer's table lists codecs (`frames.ts`), and that the GPU supports one or more of them: without any, the encoder's constructor throws (`VideoEncoder.cpp:110-113`).

### VideoEncoder

For any sizes, scales, bitrates, codecs and textures, and whichever calls into drivers fail: `EncoderInvariant` (`Spec => []EncoderInv`), and from it
`ThisFrameEncoded` (`EncodesThisFrame`), `DescribedAsEncoded` (`FrameAsDescribed`), `NoTextureLeaks` (`NothingLeaks`), `FramesRegisteredAgain` (`RegisteredAgain`) and `EncoderTypes` (`TypeOK`). The fields are assigned
before the calls that may fail, so they run ahead of the driver: `_frameResource` may name a texture that is not registered, `_encoderProperties` a session
that was not opened. `ResourcesAgree` and `SessionAsDescribed` say what holds nevertheless: what is registered is `_inputResource`, and then
`_frameResource` too, and a session that is initialized is as `_encoderProperties` says. A frame for which they disagree ends where the driver refuses.
`RegisteredAgain` is about a run in which the encoder's calls work: then the fields do not run ahead, and what they name is registered and of the present session (`WorksAsNamed`).
The codec of a session is one the GPU supports, and the first such of those wanted (`CodecChosen`, from the least element of a set of places in the preference). Assumed is that sizes and scales are
numbers, that the GPU supports some codec, and that a null pointer is no object.

### Model-checked only

Every invariant and every action property of the passing runs is stated by a theorem. What is left to TLC is liveness (`Recovers`, `Negotiates`, `OutlivesLateAnswers`, `AwaitsEnd`, `SendsReturn`, `MessagesHandled`, `AttemptsGoOn`,
`FramesEncoded`, and the fairness in `InOrder`): fairness and `ENABLED` are outside what TLAPS supports here. The library's induction theorems cannot be used either, as they take an operator as a parameter; where an
induction was needed (`LeastElement`, `ListsExist`) it is over a set of places, through the well-foundedness of finite sets. The four runs that find a counterexample are TLC's too.

## 6. Not modelled

* *Pointer input, drawing, full screen*: passed on to the browser and the application. The canvas keeps its size; how many frames stay open
  after an exception in `RenderFrame` is not counted, and nothing in the code bounds it.
* *The frame rate limit* (`MinimumFrameInterval`): it drops captured frames, which in the model arrive at any time.
* *Two `SendCodecPreferenceAsync` at once*: one flag stands for both, since they send the same.
* *Failures of encoding, locking, unmapping and of creating textures*, and the cache of input views.
* *Negotiation of more than one source at a time* is in the model and in the theorems, but not in the instance TLC checks: sources share nothing but a viewer that is
  given to two of them (`MatchmakerGoneSink`), whose two negotiations would end each other's, so `Negotiates` is only about one.
* *Several candidates per description*: one stands for them; it comes after the description as they do.
* *`CloseAsync` of the gateway's streams and `WindowLocator`*, which nothing calls.
* *The end of the processes*: destructors that wait for threads, the source's reconnecting while it is destroyed.
* *Capture, device, logger, message parsing and serialization, the video frame renderer, entry points*: system calls or
  code without state of its own.

## 7. Plan

The modules of the inventory are written, and the invariants and action properties the runs check are proved. What is left:

1. Abstract specifications that are checked but not stated yet: what a viewer's decoder promises whoever feeds it (`StreamHost` alone, as `DecoderInv` shows that nothing is assumed of
   the frames), and a channel of whole messages that both directions of the fragments implement on a reliable channel.
2. Safety parts of the liveness arguments, as invariants with proofs: that the waits of `WebRtcClient` form no cycle but `Stuck`, and that a lost request for a key frame
   leaves the viewer in a state in which it asks again.
