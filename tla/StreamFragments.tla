--------------------------- MODULE StreamFragments ---------------------------
(***************************************************************************)
(* Messages from the stream source to the viewer: the native splitter      *)
(* (warp-drive/Messaging/MessageSplitter.cpp), a data channel, and the     *)
(* viewer's assembler (warpr-lib, infrastructure/message-assembler.ts).    *)
(*                                                                         *)
(* The aux channel is reliable and ordered.  The stream channel is created *)
(* unordered and with no retransmits (GatewayConfiguration.cs), so it may  *)
(* deliver the fragments in any order and lose some.                       *)
(***************************************************************************)
EXTENDS Fragments

CONSTANTS StreamBuilders,  \* _maxBuilderCount of the stream's assembler
          AuxBuilders      \* and of the aux channel's

ASSUME BuildersAssumption == {StreamBuilders, AuxBuilders} \subseteq Nat \ {0}

VARIABLES lossy,           \* whether the channel is the stream's
          sizes,           \* the sizes of the messages sent so far
          channel,         \* the fragments on their way
          builders,        \* _builders, in the Map's insertion order
          delivered        \* the messages the assembler has returned

vars == <<lossy, sizes, channel, builders, delivered>>

Builder == [id : Nat, received : Nat, buffer : Seq(Nat)]

MaxBuilderCount == IF lossy THEN StreamBuilders ELSE AuxBuilders

Init ==
  /\ lossy \in BOOLEAN
  /\ sizes = <<>>
  /\ channel = <<>>
  /\ builders = <<>>
  /\ delivered = <<>>

\* SplitMessage: the header starts from scratch in every call, so after its
\* increment MessageIndex is 1 for each message.
SplitMessage(size) ==
  /\ Len(sizes) < MaxMessages
  /\ sizes' = Append(sizes, size)
  /\ channel' = channel \o Split(1, size, Len(sizes) + 1)
  /\ UNCHANGED <<lossy, builders, delivered>>

NewBuilder(f) ==
  [id |-> f.index, received |-> 0, buffer |-> Zeros(f.size)]

Known(id) == \E i \in DOMAIN builders : builders[i].id = id

\* The builders with the fragment's among them, the oldest one evicted when
\* there are too many.
Opened(f) ==
  IF Known(f.index) THEN builders
  ELSE LET all == Append(builders, NewBuilder(f))
       IN  IF Len(all) > MaxBuilderCount THEN Tail(all) ELSE all

BuilderOf(f) ==
  LET i == CHOOSE n \in DOMAIN Opened(f) : Opened(f)[n].id = f.index
  IN  Opened(f)[i]

Complete(builder) == builder.received = FragmentCount(Len(builder.buffer))

Dropped(all, id) == RemoveAt(all, CHOOSE i \in DOMAIN all : all[i].id = id)

Replaced(all, builder) ==
  [i \in DOMAIN all |-> IF all[i].id = builder.id THEN builder ELSE all[i]]

\* Mutant: a finished builder stays in the map and ignores what comes.
PushMessage_KeepsBuilder(f) ==
  LET old == BuilderOf(f)
      added == IF Complete(old) \/ ~ FitsInto(old.buffer, f) THEN old
               ELSE [old EXCEPT !.received = @ + 1, !.buffer = Copied(@, f)]
  IN  /\ builders' = Replaced(Opened(f), added)
      /\ delivered' = IF Complete(added) THEN Append(delivered, added.buffer)
                                         ELSE delivered

\* Mutant: a finished builder is used again for the next message.
PushMessage_ReusesBuilder(f) ==
  LET added == [BuilderOf(f) EXCEPT !.received = @ + 1,
                                    !.buffer = Copied(@, f)]
  IN  IF ~ FitsInto(BuilderOf(f).buffer, f)
        THEN builders' = Opened(f) /\ UNCHANGED delivered
        ELSE IF Complete(added)
        THEN /\ builders' = Replaced(Opened(f), [added EXCEPT !.received = 0])
             /\ delivered' = Append(delivered, added.buffer)
        ELSE builders' = Replaced(Opened(f), added) /\ UNCHANGED delivered

\* PushMessage and AddFragment.  A fragment beyond the end of the buffer, or
\* for a builder already complete, raises a RangeError: it is not counted.
PushMessage(f) ==
  LET builder == BuilderOf(f)
      added == [builder EXCEPT !.received = @ + 1, !.buffer = Copied(@, f)]
  IN  \/ /\ Complete(builder) \/ ~ FitsInto(builder.buffer, f)
         /\ builders' = Opened(f)
         /\ UNCHANGED delivered
      \/ /\ ~ Complete(builder) /\ FitsInto(builder.buffer, f)
         /\ Complete(added)
         /\ builders' = Dropped(Opened(f), f.index)
         /\ delivered' = Append(delivered, added.buffer)
      \/ /\ ~ Complete(builder) /\ FitsInto(builder.buffer, f)
         /\ ~ Complete(added)
         /\ builders' = Replaced(Opened(f), added)
         /\ UNCHANGED delivered

Receive(i) ==
  /\ i = 1 \/ lossy
  /\ channel' = RemoveAt(channel, i)
  /\ PushMessage(channel[i])
  /\ UNCHANGED <<lossy, sizes>>

Lose(i) ==
  /\ lossy
  /\ channel' = RemoveAt(channel, i)
  /\ UNCHANGED <<lossy, sizes, builders, delivered>>

Next ==
  \/ \E size \in Sizes : SplitMessage(size)
  \/ \E i \in DOMAIN channel : Receive(i) \/ Lose(i)

Spec == Init /\ [][Next]_vars

-----------------------------------------------------------------------------
TypeOK ==
  /\ lossy \in BOOLEAN
  /\ sizes \in Seq(Sizes) /\ Len(sizes) <= MaxMessages
  /\ \A i \in DOMAIN channel : channel[i].content \in 1 .. Len(sizes)
  /\ Len(builders) <= MaxBuilderCount
  /\ \A i \in DOMAIN builders :
       builders[i] \in Builder /\ ~ Complete(builders[i])
  /\ delivered \in Seq(Seq(Nat))

\* Over the reliable channel messages come whole, byte for byte, and in the
\* order they were sent, although all carry the same index
\* (MessageSplitter.cpp:42-62, message-assembler.ts:49-76).
DeliveredInOrder == ~ lossy => InOrder(delivered, sizes)

\* Once the reliable channel is empty everything sent but empty messages has
\* been delivered, and the assembler is waiting for nothing.
NothingLost ==
  ~ lossy /\ channel = <<>> =>
    AllFrom(1, delivered, sizes) /\ builders = <<>>

\* readme.md:26 "The encoded video frames are sent to the web front-end":
\* each frame the assembler returns is one that was sent.
FramesIntact ==
  \A n \in DOMAIN delivered :
    \E m \in 1 .. Len(sizes) : IsMessage(delivered[n], sizes, m)

\* That does hold as long as all frames fit into one fragment each.
SmallFramesIntact ==
  (\A m \in DOMAIN sizes : sizes[m] <= FragmentSize) => FramesIntact
=============================================================================
