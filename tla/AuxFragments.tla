----------------------------- MODULE AuxFragments -----------------------------
(***************************************************************************)
(* Messages from the viewer to the stream source over the aux channel: the *)
(* viewer's splitter (warpr-lib, infrastructure/message-splitter.ts), a    *)
(* reliable ordered channel, and the native assembler                      *)
(* (warp-drive/Messaging/MessageAssembler.cpp), which holds one message at *)
(* a time and is reset with the peer connection.                           *)
(***************************************************************************)
EXTENDS Fragments

VARIABLES nextIndex,       \* _messageIndex of the viewer's splitter
          assembler,       \* the native assembler's fields
          channel,         \* the fragments on their way
          sizes,           \* the sizes of the messages sent so far
          delivered,       \* the messages the assembler has returned
          dropped          \* messages sent before the present connection

vars == <<nextIndex, assembler, channel, sizes, delivered, dropped>>

\* _messageIndex starts as ~0u, an index no message has.
NoMessage == -1

ResetAssembler ==
  [messageIndex |-> NoMessage, fragmentCount |-> 0, fragmentsReceived |-> 0,
   buffer |-> <<>>]

Init ==
  /\ nextIndex = 0
  /\ assembler = ResetAssembler
  /\ channel = <<>>
  /\ sizes = <<>>
  /\ delivered = <<>>
  /\ dropped = 0

SplitMessage(size) ==
  /\ Len(sizes) < MaxMessages
  /\ sizes' = Append(sizes, size)
  /\ nextIndex' = nextIndex + 1
  /\ channel' = channel \o Split(nextIndex, size, Len(sizes) + 1)
  /\ UNCHANGED <<assembler, delivered, dropped>>

\* Mutant: a new message keeps the count of the one before.
Begun_KeepsCount(f) ==
  IF f.index = assembler.messageIndex THEN assembler
  ELSE [messageIndex |-> f.index, fragmentCount |-> FragmentCount(f.size),
        fragmentsReceived |-> assembler.fragmentsReceived,
        buffer |-> Zeros(f.size)]

\* The assembler's fields when the fragment is the first of a new message.
Begun(f) ==
  IF f.index = assembler.messageIndex THEN assembler
  ELSE [messageIndex |-> f.index, fragmentCount |-> FragmentCount(f.size),
        fragmentsReceived |-> 0, buffer |-> Zeros(f.size)]

\* The fragment copied and counted, where it fits into the message.
Filled(a, f) ==
  IF FitsInto(a.buffer, f)
    THEN [a EXCEPT !.fragmentsReceived = @ + 1, !.buffer = Copied(@, f)]
    ELSE a

\* PushMessage: `text` is the content type; the buffer of a binary message is
\* moved out, that of a text is copied.
PushMessage(f, text) ==
  LET a == Filled(Begun(f), f)
  IN  IF a.fragmentsReceived = a.fragmentCount
        THEN /\ delivered' = Append(delivered, a.buffer)
             /\ assembler' = IF text THEN a ELSE [a EXCEPT !.buffer = <<>>]
        ELSE assembler' = a /\ UNCHANGED delivered

Receive ==
  /\ channel # <<>>
  /\ channel' = Tail(channel)
  /\ \E text \in BOOLEAN : PushMessage(Head(channel), text)
  /\ UNCHANGED <<nextIndex, sizes, dropped>>

\* Mutant: Connect does not reset the assembler.
NewPeer_NoReset(paired) ==
  /\ channel' = <<>>
  /\ nextIndex' = IF paired THEN 0 ELSE nextIndex
  /\ dropped' = Len(sizes)
  /\ UNCHANGED <<assembler, sizes, delivered>>

\* WebRtcClient::Connect destroys the channel and resets the assembler.  When
\* it runs because of a pairing, StreamingService.Reconnect has made a new
\* splitter for the viewer; when it retries, the viewer keeps its splitter.
NewPeer(paired) ==
  /\ channel' = <<>>
  /\ nextIndex' = IF paired THEN 0 ELSE nextIndex
  /\ assembler' = ResetAssembler
  /\ dropped' = Len(sizes)
  /\ UNCHANGED <<sizes, delivered>>

Next ==
  \/ \E size \in Sizes : SplitMessage(size)
  \/ Receive
  \/ \E paired \in BOOLEAN : NewPeer(paired)

Spec == Init /\ [][Next]_vars

-----------------------------------------------------------------------------
TypeOK ==
  /\ nextIndex \in 0 .. MaxMessages
  /\ assembler \in [messageIndex : NoMessage .. MaxMessages - 1,
                    fragmentCount : Nat, fragmentsReceived : Nat,
                    buffer : Seq(Nat)]
  /\ assembler.fragmentsReceived <= assembler.fragmentCount
  /\ sizes \in Seq(Sizes) /\ Len(sizes) <= MaxMessages
  /\ \A i \in DOMAIN channel : channel[i].content \in 1 .. Len(sizes)
  /\ dropped \in 0 .. Len(sizes)

\* Whatever connection a message went over, what the source gets is one of
\* the messages sent, whole, and they come in the order they were sent, none
\* twice (message-splitter.ts:11-48, MessageAssembler.cpp:11-68).
DeliveredInOrder == InOrder(delivered, sizes)

\* Every message sent since the connection was made gets there, but for empty
\* ones: those are cut into no fragment (message-splitter.ts:36).
NothingLost == channel = <<>> => AllFrom(dropped + 1, delivered, sizes)
=============================================================================
