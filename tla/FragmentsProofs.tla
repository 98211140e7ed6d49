--------------------------- MODULE FragmentsProofs ---------------------------
(***************************************************************************)
(* Proofs about the fragments of messages in both directions, for any      *)
(* sizes of fragments and messages and any number of messages.             *)
(*                                                                         *)
(* The argument is about where the assembler is in the sequence of         *)
(* fragments.  On a reliable channel are all fragments from some place on  *)
(* (InSequence), so the first one on its way names the message and the     *)
(* fragment that are due (DueMessage, DueFragment): what the assembler     *)
(* holds, and what it has returned, are functions of these.                *)
(***************************************************************************)
EXTENDS MCFragments, SequenceTheorems, TLAPS

(***************************************************************************)
(* A fragment on its way is as its message was cut.                        *)
(***************************************************************************)
Fragments == [index : Nat, size : Nat \ {0}, fragment : Nat, length : Nat,
              content : Nat]

Cut(f) ==
  /\ f.content \in 1 .. Len(sizes)
  /\ f.size = sizes[f.content]
  /\ f.fragment \in 0 .. FragmentCount(f.size) - 1
  /\ f.length = SmallerOf(FragmentSize, f.size - f.fragment * FragmentSize)

LastOf(f) == f.fragment + 1 = FragmentCount(f.size)

\* The messages after the n-th and before the m-th have no fragments.
NoneBetween(n, m) == \A k \in n + 1 .. m - 1 : sizes[k] = 0

Follows(g, f) ==
  IF LastOf(f) THEN /\ g.fragment = 0 /\ g.content > f.content
                    /\ NoneBetween(f.content, g.content)
               ELSE g.content = f.content /\ g.fragment = f.fragment + 1

\* On a reliable channel are all fragments from some place on.
InSequence ==
  /\ \A i \in 1 .. Len(channel) - 1 : Follows(channel[i + 1], channel[i])
  /\ channel # <<>> =>
       /\ LastOf(channel[Len(channel)])
       /\ NoneBetween(channel[Len(channel)].content, Len(sizes) + 1)

\* The message and the fragment that are to arrive next.
DueMessage == IF channel = <<>> THEN Len(sizes) + 1 ELSE channel[1].content
DueFragment == IF channel = <<>> THEN 0 ELSE channel[1].fragment

\* A buffer that has got the first k fragments of the n-th message, and one
\* that has got all of it.
Partial(size, n, k) ==
  [i \in 1 .. size |-> IF i <= k * FragmentSize THEN n ELSE 0]

Whole(n) == [i \in 1 .. sizes[n] |-> n]

\* What has come, of the messages after the k-th all, and in which order.
ArrivedInOrder(k) ==
  /\ \A i \in 1 .. Len(delivered) :
       \E m \in 1 .. DueMessage - 1 : sizes[m] # 0 /\ delivered[i] = Whole(m)
  /\ \A i, j \in 1 .. Len(delivered) :
       i < j => delivered[i][1] < delivered[j][1]
  /\ \A m \in k + 1 .. DueMessage - 1 :
       sizes[m] # 0 => \E i \in 1 .. Len(delivered) : delivered[i] = Whole(m)

CommonTypes ==
  /\ lossy \in BOOLEAN
  /\ sizes \in Seq(Sizes) /\ Len(sizes) <= MaxMessages
  /\ channel \in Seq(Fragments)
  /\ \A i \in 1 .. Len(channel) : Cut(channel[i])
  /\ delivered \in Seq(Seq(Nat))

-----------------------------------------------------------------------------
(***************************************************************************)
(* To the viewer.  All messages have index 1, so the assembler never has   *)
(* more than one builder.  Over the reliable channel it is the one of the  *)
(* message that is due, and has got what was sent of it and is not on its  *)
(* way; if messages are of one fragment, there is none.                    *)
(***************************************************************************)
ViewerTypes ==
  /\ CommonTypes
  /\ \A i \in 1 .. Len(channel) : channel[i].index = 1
  /\ \/ builders = <<>>
     \/ \E b \in Builder : /\ builders = <<b>>
                           /\ b.id = 1 /\ ~ Complete(b)

BuilderDue ==
  builders = IF DueFragment = 0 THEN <<>>
             ELSE <<[id |-> 1, received |-> DueFragment,
                     buffer |-> Partial(sizes[DueMessage], DueMessage,
                                        DueFragment)]>>

ReliableInOrder == InSequence /\ BuilderDue /\ ArrivedInOrder(0)

Small == \A m \in 1 .. Len(sizes) : sizes[m] <= FragmentSize

Intact ==
  \A n \in 1 .. Len(delivered) :
    \E m \in 1 .. Len(sizes) : delivered[n] = Whole(m)

ViewerInv ==
  /\ ViewerTypes
  /\ ~ lossy => ReliableInOrder
  /\ Small => builders = <<>> /\ Intact

-----------------------------------------------------------------------------
(***************************************************************************)
(* To the source.  The index of a message is that of the splitter when it  *)
(* was cut, so messages of one connection have different ones and none has *)
(* that of a reset assembler.                                              *)
(***************************************************************************)
IndexOf(n) == n - 1 + nextIndex - Len(sizes)

SourceTypes ==
  /\ CommonTypes
  /\ nextIndex \in Nat /\ dropped \in 0 .. Len(sizes)
  /\ Len(sizes) - dropped <= nextIndex /\ nextIndex <= Len(sizes)
  /\ \A i \in 1 .. Len(channel) :
       channel[i].index = IndexOf(channel[i].content)
  /\ dropped < DueMessage

Assemblers == [messageIndex : Int, fragmentCount : Nat, fragmentsReceived : Nat,
               buffer : Seq(Nat)]

\* The assembler has the message that is due if part of it has come, or else
\* an earlier one of this connection, complete, or none.
AssemblerDue ==
  /\ assembler \in Assemblers
  /\ DueFragment # 0 =>
       /\ assembler.messageIndex = IndexOf(DueMessage)
       /\ assembler.fragmentCount = FragmentCount(sizes[DueMessage])
       /\ assembler.fragmentsReceived = DueFragment
       /\ assembler.buffer = Partial(sizes[DueMessage], DueMessage, DueFragment)
  /\ DueFragment = 0 =>
       /\ assembler.fragmentsReceived = assembler.fragmentCount
       /\ \/ assembler.messageIndex = Aux!NoMessage
          \/ \E m \in dropped + 1 .. DueMessage - 1 :
               assembler.messageIndex = IndexOf(m)

SourceInv ==
  SourceTypes /\ InSequence /\ AssemblerDue /\ ArrivedInOrder(dropped)

FragmentsInv ==
  /\ toViewer \in BOOLEAN
  /\ toViewer => ViewerInv
  /\ ~ toViewer => SourceInv

\* Fragments are of a positive size.
LEMMA SizesKnown ==
  /\ FragmentSize \in Nat /\ FragmentSize > 0
  /\ \A size \in Sizes : size \in Nat
BY SizesAssumption

\* All fragments but the last one of a message are full, and the last is not
\* empty.
LEMMA CountBounds ==
  ASSUME NEW size \in Nat, size > 0
  PROVE  /\ FragmentCount(size) \in Nat
         /\ FragmentCount(size) >= 1
         /\ (FragmentCount(size) - 1) * FragmentSize < size
         /\ size <= FragmentCount(size) * FragmentSize
<1> DEFINE sum == size + FragmentSize - 1
           q == sum \div FragmentSize
           r == sum % FragmentSize
<1>1. FragmentSize \in Nat /\ FragmentSize > 0
  BY SizesKnown
<1>2. sum \in Nat /\ q \in Int /\ r \in 0 .. FragmentSize - 1
  BY <1>1
<1>3. sum = FragmentSize * q + r
  BY <1>1, <1>2
<1>4. FragmentCount(size) = q
  BY DEF FragmentCount
<1> HIDE DEF q, r
<1>5. q >= 1
  <2>1. CASE q <= 0
    <3>1. FragmentSize * q <= 0
      BY <1>1, <1>2, <2>1
    <3> QED BY <1>1, <1>2, <1>3, <3>1
  <2> QED BY <1>2, <2>1
<1>6. (q - 1) * FragmentSize = FragmentSize * q - FragmentSize
  BY <1>1, <1>2
<1>7. q * FragmentSize = FragmentSize * q
  BY <1>1, <1>2
<1> QED BY <1>1, <1>2, <1>3, <1>4, <1>5, <1>6, <1>7

\* An empty message has no fragments.
LEMMA CountOfAny ==
  ASSUME NEW size \in Nat
  PROVE  /\ FragmentCount(size) \in Nat
         /\ size = 0 <=> FragmentCount(size) = 0
<1> DEFINE q == (FragmentSize - 1) \div FragmentSize
           r == (FragmentSize - 1) % FragmentSize
<1>1. CASE size > 0
  BY <1>1, CountBounds
<1>2. CASE size = 0
  <2>1. FragmentSize \in Nat /\ FragmentSize > 0
    BY SizesKnown
  <2>2. q \in Int /\ r \in 0 .. FragmentSize - 1
    BY <2>1
  <2>3. FragmentSize - 1 = FragmentSize * q + r
    BY <2>1, <2>2
  <2>4. FragmentCount(size) = q
    BY <1>2, <2>1 DEF FragmentCount
  <2> HIDE DEF q, r
  <2>5. CASE q <= -1
    <3>1. FragmentSize * q <= - FragmentSize
      BY <2>1, <2>2, <2>5
    <3> QED BY <2>1, <2>2, <2>3, <3>1
  <2>6. CASE q >= 1
    <3>1. FragmentSize * q >= FragmentSize
      BY <2>1, <2>2, <2>6
    <3> QED BY <2>1, <2>2, <2>3, <3>1
  <2> QED BY <1>2, <2>2, <2>4, <2>5, <2>6
<1> QED BY <1>1, <1>2

\* Fragments begin before the end of the message, and end by it.
LEMMA FragmentFits ==
  ASSUME NEW size \in Nat, size > 0,
         NEW k \in 0 .. FragmentCount(size) - 1
  PROVE  /\ k * FragmentSize \in Nat /\ k * FragmentSize < size
         /\ (k + 1) * FragmentSize = k * FragmentSize + FragmentSize
         /\ SmallerOf(FragmentSize, size - k * FragmentSize) \in Nat
         /\ k * FragmentSize + SmallerOf(FragmentSize, size - k * FragmentSize)
              <= size
<1>1. FragmentSize \in Nat /\ FragmentSize > 0 /\ k \in Nat
  BY SizesKnown, CountBounds
<1>2. k * FragmentSize \in Nat /\ (k + 1) * FragmentSize = k * FragmentSize + FragmentSize
  BY <1>1
<1>3. k * FragmentSize < size
  <2> DEFINE c == FragmentCount(size) - 1
  <2>1. c \in Nat /\ k <= c /\ c * FragmentSize < size
    BY CountBounds, <1>1
  <2> HIDE DEF c
  <2>2. k * FragmentSize <= c * FragmentSize
    BY <1>1, <2>1
  <2>3. c * FragmentSize \in Nat
    BY <1>1, <2>1
  <2> QED BY <1>2, <2>1, <2>2, <2>3
<1> QED BY <1>1, <1>2, <1>3 DEF SmallerOf

\* A message that is cut.
LEMMA SplitCut ==
  ASSUME NEW size \in Sizes, NEW index \in Nat, NEW n \in Nat
  PROVE  LET s == Split(index, size, n)
         IN  /\ s \in Seq(Fragments)
             /\ Len(s) = FragmentCount(size) /\ Len(s) \in Nat
             /\ \A i \in 1 .. Len(s) :
                  /\ s[i].index = index /\ s[i].size = size
                  /\ s[i].fragment = i - 1 /\ s[i].content = n
                  /\ s[i].length = SmallerOf(FragmentSize,
                                             size - (i - 1) * FragmentSize)
<1> DEFINE s == Split(index, size, n)
<1>1. size \in Nat /\ FragmentCount(size) \in Nat
  BY SizesKnown, CountOfAny
<1>3. ASSUME NEW i \in 1 .. FragmentCount(size)
      PROVE  Fragment(index, size, i - 1,
                      SmallerOf(FragmentSize, size - (i - 1) * FragmentSize), n)
               \in Fragments
  <2>1. i - 1 \in 0 .. FragmentCount(size) - 1 /\ i - 1 \in Nat
    BY <1>1
  <2>2. size > 0
    BY <1>1, CountOfAny
  <2>3. SmallerOf(FragmentSize, size - (i - 1) * FragmentSize) \in Nat
    BY <1>1, <2>1, <2>2, FragmentFits
  <2> QED BY <1>1, <2>1, <2>2, <2>3 DEF Fragment, Fragments
<1>4. s \in [1 .. FragmentCount(size) -> Fragments]
  BY <1>3 DEF Split
<1>5. s \in Seq(Fragments) /\ Len(s) = FragmentCount(size)
  BY <1>1, <1>4
<1> QED BY <1>1, <1>5 DEF Split, Fragment

\* What both splitters do.
Sends(size, index) ==
  /\ Len(sizes) < MaxMessages
  /\ sizes' = Append(sizes, size)
  /\ channel' = channel \o Split(index, size, Len(sizes) + 1)
  /\ UNCHANGED <<lossy, delivered>>

\* The sizes of the messages before stay, and the channel gets longer.
LEMMA SentKept ==
  ASSUME CommonTypes, NEW size \in Sizes, NEW index \in Nat,
         Sends(size, index)
  PROVE  /\ CommonTypes'
         /\ Len(sizes') = Len(sizes) + 1 /\ sizes'[Len(sizes) + 1] = size
         /\ \A n \in 1 .. Len(sizes) : sizes'[n] = sizes[n]
         /\ Len(channel') = Len(channel) + FragmentCount(size)
         /\ \A i \in 1 .. Len(channel) : channel'[i] = channel[i]
         /\ \A i \in 1 .. FragmentCount(size) :
              /\ Len(channel) + i \in 1 .. Len(channel')
              /\ channel'[Len(channel) + i].index = index
              /\ channel'[Len(channel) + i].size = size
              /\ channel'[Len(channel) + i].fragment = i - 1
              /\ channel'[Len(channel) + i].content = Len(sizes) + 1
<1>1. /\ Len(sizes) \in Nat /\ Len(channel) \in Nat /\ MaxMessages \in Nat
      /\ Len(sizes) + 1 \in Nat
  BY MessagesAssumption DEF CommonTypes
<1>2. PICK m \in Nat : m = Len(sizes) + 1
  BY <1>1
<1> DEFINE s == Split(index, size, m)
<1>4. /\ s \in Seq(Fragments)
      /\ Len(s) = FragmentCount(size) /\ Len(s) \in Nat
      /\ \A i \in 1 .. Len(s) :
           /\ s[i].index = index /\ s[i].size = size
           /\ s[i].fragment = i - 1 /\ s[i].content = m
           /\ s[i].length = SmallerOf(FragmentSize,
                                      size - (i - 1) * FragmentSize)
  <2>1. size \in Sizes /\ index \in Nat /\ m \in Nat
    BY <1>2
  <2> QED BY ONLY <2>1, SplitCut, SMTT(30)
<1>5. /\ sizes' \in Seq(Sizes) /\ Len(sizes') = Len(sizes) + 1
      /\ Len(sizes') <= MaxMessages /\ sizes'[Len(sizes) + 1] = size
      /\ \A n \in 1 .. Len(sizes) : sizes'[n] = sizes[n]
  <2>1. sizes \in Seq(Sizes) /\ Len(sizes) < MaxMessages
    BY DEF CommonTypes, Sends
  <2>2. sizes' = Append(sizes, size)
    BY DEF Sends
  <2> QED BY <1>1, <2>1, <2>2
<1>6. channel' = channel \o s
  BY <1>2 DEF Sends
<1> HIDE DEF s
<1>7. /\ channel' \in Seq(Fragments)
      /\ Len(channel') = Len(channel) + Len(s)
      /\ \A i \in 1 .. Len(channel) : channel'[i] = channel[i]
      /\ \A i \in 1 .. Len(s) : channel'[Len(channel) + i] = s[i]
  <2>1. channel \in Seq(Fragments) /\ s \in Seq(Fragments)
    BY <1>4 DEF CommonTypes
  <2>2. /\ channel' \in Seq(Fragments)
        /\ Len(channel') = Len(channel) + Len(s)
    BY <1>6, <2>1, ConcatProperties
  <2>3. \A i \in 1 .. Len(channel) : channel'[i] = channel[i]
    BY <1>6, <2>1
  <2>4. \A i \in 1 .. Len(s) : channel'[Len(channel) + i] = s[i]
    BY <1>6, <2>1
  <2> QED BY <2>2, <2>3, <2>4
<1>8. ASSUME NEW i \in 1 .. FragmentCount(size)
      PROVE  /\ Len(channel) + i \in 1 .. Len(channel')
             /\ channel'[Len(channel) + i].index = index
             /\ channel'[Len(channel) + i].size = size
             /\ channel'[Len(channel) + i].fragment = i - 1
             /\ channel'[Len(channel) + i].content = Len(sizes) + 1
             /\ channel'[Len(channel) + i].length
                   = SmallerOf(FragmentSize, size - (i - 1) * FragmentSize)
  <2>1. i \in 1 .. Len(s) /\ channel'[Len(channel) + i] = s[i]
    BY <1>4, <1>7
  <2> QED BY <1>1, <1>2, <1>4, <1>7, <2>1
<1>9. ASSUME NEW i \in 1 .. Len(channel') PROVE Cut(channel[i])'
  <2>1. CASE i \in 1 .. Len(channel)
    <3>1. Cut(channel[i]) /\ channel'[i] = channel[i]
      BY <1>7, <2>1 DEF CommonTypes
    <3>2. channel[i].content \in 1 .. Len(sizes)
      BY <3>1 DEF Cut
    <3>3. /\ channel[i].content \in 1 .. Len(sizes')
          /\ sizes'[channel[i].content] = sizes[channel[i].content]
      BY <1>1, <1>5, <3>2
    <3> QED BY <3>1, <3>3 DEF Cut
  <2>2. CASE i \notin 1 .. Len(channel)
    <3>1. PICK j \in 1 .. FragmentCount(size) : i = Len(channel) + j
      <4>1. /\ i - Len(channel) \in 1 .. FragmentCount(size)
            /\ i = Len(channel) + (i - Len(channel))
        BY <1>1, <1>4, <1>7, <2>2
      <4> QED BY <4>1
    <3>2. j \in Nat /\ j - 1 \in 0 .. FragmentCount(size) - 1
      BY <1>4
    <3>3. Len(sizes) + 1 \in 1 .. Len(sizes')
      BY <1>1, <1>5
    <3> QED BY <1>5, <1>8, <3>1, <3>2, <3>3 DEF Cut
  <2> QED BY <2>1, <2>2
<1>10. CommonTypes'
  <2>1. lossy' \in BOOLEAN /\ delivered' \in Seq(Seq(Nat))
    BY DEF CommonTypes, Sends
  <2> QED BY <1>5, <1>7, <1>9, <2>1 DEF CommonTypes
<1> QED BY <1>4, <1>5, <1>7, <1>8, <1>10

\* A fragment on its way is of a message that was sent.
LEMMA OnItsWay ==
  ASSUME CommonTypes, NEW i \in 1 .. Len(channel)
  PROVE  LET f == channel[i]
         IN  /\ f \in Fragments /\ Cut(f)
             /\ f.content \in 1 .. Len(sizes) /\ f.size = sizes[f.content]
             /\ f.size \in Sizes /\ f.size \in Nat /\ f.size > 0
             /\ f.fragment \in Nat /\ f.fragment < FragmentCount(f.size)
             /\ FragmentCount(f.size) \in Nat
<1>1. channel[i] \in Fragments /\ Cut(channel[i])
  BY DEF CommonTypes
<1>2. /\ channel[i].content \in 1 .. Len(sizes)
      /\ channel[i].size = sizes[channel[i].content]
      /\ channel[i].fragment \in 0 .. FragmentCount(channel[i].size) - 1
  BY <1>1 DEF Cut
<1>3. channel[i].size \in Sizes
  BY <1>2 DEF CommonTypes
<1>4. /\ channel[i].size \in Nat /\ channel[i].size > 0
      /\ FragmentCount(channel[i].size) \in Nat
  <2>1. channel[i].size \in Nat /\ FragmentCount(channel[i].size) \in Nat
    BY <1>3, SizesKnown, CountOfAny
  <2>2. FragmentCount(channel[i].size) # 0
    BY <1>2, <2>1
  <2>3. channel[i].size # 0
    BY <2>1, <2>2, CountOfAny
  <2> QED BY <2>1, <2>3
<1>5. channel[i].fragment \in Nat /\ channel[i].fragment < FragmentCount(channel[i].size)
  BY <1>2, <1>4
<1> QED BY <1>1, <1>2, <1>3, <1>4, <1>5

\* The message that is due is one that was sent, or the next to be.
LEMMA DueBounds ==
  ASSUME CommonTypes
  PROVE  /\ Len(sizes) \in Nat /\ DueMessage \in 1 .. Len(sizes) + 1
         /\ channel # <<>> => /\ 1 \in 1 .. Len(channel)
                              /\ DueMessage \in 1 .. Len(sizes)
         /\ channel = <<>> => DueFragment = 0 /\ DueMessage = Len(sizes) + 1
<1>1. Len(sizes) \in Nat /\ channel \in Seq(Fragments)
  BY DEF CommonTypes
<1>2. CASE channel = <<>>
  BY <1>1, <1>2 DEF DueMessage, DueFragment
<1>3. CASE channel # <<>>
  <2>1. 1 \in 1 .. Len(channel)
    BY <1>1, <1>3
  <2>2. channel[1].content \in 1 .. Len(sizes)
    BY <2>1, OnItsWay
  <2> QED BY <1>1, <1>3, <2>1, <2>2 DEF DueMessage
<1> QED BY <1>2, <1>3

\* What is sent comes after all that is on its way.  An empty message is no
\* longer due as soon as it is sent.
LEMMA SentInSequence ==
  ASSUME CommonTypes, InSequence, NEW size \in Sizes, NEW index \in Nat,
         Sends(size, index)
  PROVE  /\ InSequence'
         /\ DueFragment' = DueFragment
         /\ DueMessage' \in Nat /\ DueMessage' >= DueMessage
         /\ \A m \in DueMessage .. DueMessage' - 1 : sizes'[m] = 0
         /\ DueFragment # 0 => DueMessage' = DueMessage
<1> DEFINE c == FragmentCount(size)
           l == Len(channel)
           n == Len(sizes)
<1>1. /\ CommonTypes'
      /\ Len(sizes') = n + 1 /\ sizes'[n + 1] = size
      /\ \A m \in 1 .. n : sizes'[m] = sizes[m]
      /\ Len(channel') = l + c
      /\ \A i \in 1 .. l : channel'[i] = channel[i]
      /\ \A i \in 1 .. c :
           /\ channel'[l + i].size = size
           /\ channel'[l + i].fragment = i - 1
           /\ channel'[l + i].content = n + 1
  BY SentKept
<1>2. /\ c \in Nat /\ l \in Nat /\ n \in Nat
      /\ c = 0 => size = 0
      /\ channel \in Seq(Fragments) /\ channel' \in Seq(Fragments)
  <2>1. size \in Nat
    BY SizesKnown
  <2>2. c \in Nat /\ (c = 0 => size = 0)
    BY <2>1, CountOfAny
  <2> QED BY <1>1, <2>2 DEF CommonTypes
<1>3. \A i \in 1 .. l : channel[i].content \in 1 .. n
  BY OnItsWay
<1> HIDE DEF c, l, n
<1>4. ASSUME NEW i \in 1 .. l + c - 1
      PROVE  Follows(channel[i + 1], channel[i])'
  <2>1. CASE i < l
    <3>1. i \in 1 .. l /\ i + 1 \in 1 .. l /\ i \in 1 .. l - 1
      BY <1>2, <2>1
    <3>2. channel'[i] = channel[i] /\ channel'[i + 1] = channel[i + 1]
      BY <1>1, <3>1
    <3>3. Follows(channel[i + 1], channel[i])
      BY <3>1 DEF InSequence, l
    <3>4. channel[i].content \in 1 .. n /\ channel[i + 1].content \in 1 .. n
      BY <1>3, <3>1
    <3>5. \A k \in channel[i].content + 1 .. channel[i + 1].content - 1 :
            sizes'[k] = sizes[k]
      <4>1. PICK a \in 1 .. n : a = channel[i].content
        BY <3>4
      <4>2. PICK b \in 1 .. n : b = channel[i + 1].content
        BY <3>4
      <4>3. \A k \in a + 1 .. b - 1 : k \in 1 .. n
        BY <1>2
      <4> QED BY <1>1, <4>1, <4>2, <4>3
    <3> QED BY <3>2, <3>3, <3>5 DEF Follows, LastOf, NoneBetween
  <2>2. CASE i = l
    <3>1. /\ channel # <<>> /\ l \in 1 .. l /\ 1 \in 1 .. c
          /\ channel'[l] = channel[l]
      BY <1>1, <1>2, <2>2 DEF l
    <3>2. channel'[l + 1].fragment = 0 /\ channel'[l + 1].content = n + 1
      <4>1. channel'[l + 1].fragment = 1 - 1 /\ channel'[l + 1].content = n + 1
        BY ONLY <1>1, <3>1, Zenon
      <4> QED BY <4>1
    <3>3. LastOf(channel[l]) /\ NoneBetween(channel[l].content, n + 1)
      BY <3>1 DEF InSequence, l, n
    <3>4. channel[l].content \in 1 .. n
      BY <1>3, <3>1
    <3>5. \A k \in channel[l].content + 1 .. n : sizes'[k] = 0
      BY <1>1, <1>2, <3>3, <3>4 DEF NoneBetween
    <3>6. channel'[l + 1].content > channel[l].content /\ (n + 1) - 1 = n
      BY <1>2, <3>2, <3>4
    <3> QED BY <2>2, <3>1, <3>2, <3>3, <3>5, <3>6 DEF Follows, LastOf, NoneBetween
  <2>3. CASE i > l
    <3>1. PICK j \in 1 .. c - 1 : i = l + j
      <4>1. i - l \in 1 .. c - 1 /\ i = l + (i - l)
        BY <1>2, <2>3
      <4> QED BY <4>1
    <3>2. j \in 1 .. c /\ j + 1 \in 1 .. c /\ i + 1 = l + (j + 1)
      BY <1>2, <3>1
    <3>3. /\ channel'[i].size = size
          /\ channel'[i].fragment = j - 1
          /\ channel'[i].content = n + 1
          /\ channel'[i + 1].fragment = j
          /\ channel'[i + 1].content = n + 1
      BY <1>1, <3>1, <3>2
    <3> QED BY <1>2, <3>1, <3>3 DEF Follows, LastOf, c
  <2> QED BY <1>2, <2>1, <2>2, <2>3
<1>5. ASSUME channel' # <<>>
      PROVE  /\ LastOf(channel[Len(channel)])'
             /\ NoneBetween(channel[Len(channel)].content, Len(sizes) + 1)'
  <2>1. CASE c = 0
    <3>1. channel # <<>> /\ l \in 1 .. l /\ Len(channel') = l
      BY <1>1, <1>2, <1>5, <2>1 DEF l
    <3>2. LastOf(channel[l]) /\ NoneBetween(channel[l].content, n + 1)
      BY <3>1 DEF InSequence, l, n
    <3>3. channel'[l] = channel[l] /\ channel[l].content \in 1 .. n
      BY <1>1, <1>3, <3>1
    <3>4. \A k \in channel[l].content + 1 .. n + 1 : sizes'[k] = 0
      BY <1>1, <1>2, <2>1, <3>2, <3>3 DEF NoneBetween
    <3>5. channel'[Len(channel')] = channel[l]
      BY <3>1, <3>3
    <3>6. \A k \in channel[l].content + 1 .. (n + 1 + 1) - 1 : sizes'[k] = 0
      BY <1>2, <3>4
    <3> QED BY <1>1, <3>2, <3>5, <3>6 DEF LastOf, NoneBetween
  <2>2. CASE c # 0
    <3>1. c \in 1 .. c
      BY <1>2, <2>2
    <3>2. /\ channel'[l + c].size = size
          /\ channel'[l + c].fragment = c - 1
          /\ channel'[l + c].content = n + 1
      BY <1>1, <3>1
    <3> QED BY <1>1, <1>2, <3>2 DEF LastOf, NoneBetween, c
  <2> QED BY <2>1, <2>2
<1>6. InSequence'
  <2>1. Len(channel') = l + c
    BY <1>1, Zenon
  <2>2. \A i \in 1 .. Len(channel') - 1 : Follows(channel[i + 1], channel[i])'
    BY <1>2, <1>4, <2>1
  <2> QED BY <1>5, <2>2 DEF InSequence
<1>7. CASE channel # <<>>
  <2>1. 1 \in 1 .. l
    BY <1>2, <1>7 DEF l
  <2>2. channel'[1] = channel[1] /\ channel' # <<>>
    <3>1. Len(channel') # 0
      BY <1>1, <1>2, <2>1
    <3> QED BY <1>1, <1>2, <2>1, <3>1
  <2>3. DueMessage' = DueMessage /\ DueFragment' = DueFragment
    BY <1>7, <2>2 DEF DueMessage, DueFragment
  <2>4. DueMessage \in Nat
    BY <1>2, <1>3, <1>7, <2>1 DEF DueMessage
  <2> QED BY <1>6, <2>3, <2>4
<1>8. CASE channel = <<>>
  <2>1. l = 0 /\ DueMessage = n + 1 /\ DueFragment = 0
    BY <1>8 DEF l, n, DueMessage, DueFragment
  <2>2. CASE c = 0
    <3>1. channel' = <<>>
      BY <1>1, <1>2, <2>1, <2>2
    <3>2. DueMessage' = n + 1 + 1 /\ DueFragment' = 0
      BY <1>1, <3>1 DEF DueMessage, DueFragment
    <3> QED BY <1>1, <1>2, <1>6, <2>1, <2>2, <3>2
  <2>3. CASE c # 0
    <3>1. 1 \in 1 .. c /\ Len(channel') # 0
      BY <1>1, <1>2, <2>1, <2>3
    <3>2. channel' # <<>>
      BY <3>1
    <3>3. channel'[1].fragment = 0 /\ channel'[1].content = n + 1
      BY <1>1, <1>2, <2>1, <3>1
    <3>4. DueMessage' = n + 1 /\ DueFragment' = 0
      BY <3>2, <3>3 DEF DueMessage, DueFragment
    <3> QED BY <1>2, <1>6, <2>1, <3>4
  <2> QED BY <2>2, <2>3
<1> QED BY <1>7, <1>8

\* Any fragment may be taken from the channel.
LEMMA RemovedKept ==
  ASSUME CommonTypes, NEW i \in 1 .. Len(channel),
         channel' = RemoveAt(channel, i), UNCHANGED sizes
  PROVE  /\ channel' \in Seq(Fragments)
         /\ \A j \in 1 .. Len(channel') :
              \E k \in 1 .. Len(channel) : channel'[j] = channel[k]
         /\ \A j \in 1 .. Len(channel') : Cut(channel[j])'
<1> DEFINE before == SubSeq(channel, 1, i - 1)
           after == SubSeq(channel, i + 1, Len(channel))
<1>1. channel \in Seq(Fragments) /\ Len(channel) \in Nat /\ i \in Nat
  BY DEF CommonTypes
<1>2. /\ before \in Seq(Fragments) /\ Len(before) = i - 1
      /\ \A j \in 1 .. i - 1 : before[j] = channel[j]
  <2>1. \A j \in 1 .. i - 1 : channel[j] \in Fragments
    BY <1>1
  <2> QED BY <1>1, <2>1, SubSeqProperties
<1>3. /\ after \in Seq(Fragments) /\ Len(after) = Len(channel) - i
      /\ \A j \in 1 .. Len(channel) - i : after[j] = channel[i + j]
  <2>1. \A j \in i + 1 .. Len(channel) : channel[j] \in Fragments
    BY <1>1
  <2> QED BY <1>1, <2>1, SubSeqProperties
<1>4. channel' = before \o after
  BY DEF RemoveAt
<1> HIDE DEF before, after
<1>5. /\ channel' \in Seq(Fragments)
      /\ Len(channel') = Len(channel) - 1
      /\ \A j \in 1 .. Len(channel) - 1 :
           channel'[j] = IF j <= i - 1 THEN before[j] ELSE after[j - (i - 1)]
  <2>1. channel' \in Seq(Fragments) /\ Len(channel') = Len(before) + Len(after)
    BY <1>2, <1>3, <1>4, ConcatProperties
  <2>2. \A j \in 1 .. Len(before) + Len(after) :
          channel'[j] = IF j <= Len(before) THEN before[j]
                                            ELSE after[j - Len(before)]
    BY <1>2, <1>3, <1>4
  <2>3. Len(before) + Len(after) = Len(channel) - 1 /\ Len(before) = i - 1
    BY <1>1, <1>2, <1>3
  <2> QED BY <2>1, <2>2, <2>3
<1>6. ASSUME NEW j \in 1 .. Len(channel')
      PROVE  \E k \in 1 .. Len(channel) : channel'[j] = channel[k]
  <2>1. CASE j <= i - 1
    <3>1. j \in 1 .. i - 1 /\ j \in 1 .. Len(channel) - 1 /\ j \in 1 .. Len(channel)
      BY <1>1, <1>5, <2>1
    <3>2. channel'[j] = before[j] /\ before[j] = channel[j]
      BY <1>2, <1>5, <2>1, <3>1
    <3> QED BY <3>1, <3>2
  <2>2. CASE j > i - 1
    <3>1. j - (i - 1) \in 1 .. Len(channel) - i /\ i + (j - (i - 1)) = j + 1
      BY <1>1, <1>5, <2>2
    <3>2. channel'[j] = channel[j + 1] /\ j + 1 \in 1 .. Len(channel)
      BY <1>1, <1>3, <1>5, <2>2, <3>1
    <3> QED BY <3>2
  <2> QED BY <1>1, <1>5, <2>1, <2>2
<1>7. \A j \in 1 .. Len(channel') : Cut(channel[j])'
  BY <1>6 DEF CommonTypes, Cut
<1> QED BY <1>5, <1>6, <1>7

\* The first fragment taken from the channel leaves its tail.
LEMMA FirstTaken ==
  ASSUME CommonTypes, channel # <<>>
  PROVE  RemoveAt(channel, 1) = Tail(channel)
<1>1. channel \in Seq(Fragments) /\ Len(channel) \in Nat /\ Len(channel) >= 1
  BY DEF CommonTypes
<1>2. SubSeq(channel, 1, 1 - 1) = <<>>
  BY SubSeqEmpty
<1>3. Tail(channel) = SubSeq(channel, 1 + 1, Len(channel))
  BY <1>1, TailIsSubSeq
<1>4. Tail(channel) \in Seq(Fragments)
  BY <1>1
<1> QED BY <1>2, <1>3, <1>4, ConcatEmptySeq DEF RemoveAt

\* When the fragment that is due is taken, the one after it is.
LEMMA TakenInSequence ==
  ASSUME CommonTypes, InSequence, channel # <<>>,
         channel' = Tail(channel), UNCHANGED sizes
  PROVE  /\ channel' \in Seq(Fragments)
         /\ \A i \in 1 .. Len(channel') :
              i + 1 \in 1 .. Len(channel) /\ channel'[i] = channel[i + 1]
         /\ \A i \in 1 .. Len(channel') : Cut(channel[i])'
         /\ InSequence' /\ DueMessage' \in Nat
         /\ DueMessage = channel[1].content /\ DueFragment = channel[1].fragment
         /\ LastOf(channel[1]) =>
              /\ DueFragment' = 0 /\ DueMessage' > DueMessage
              /\ NoneBetween(DueMessage, DueMessage')
         /\ ~ LastOf(channel[1]) =>
              DueMessage' = DueMessage /\ DueFragment' = DueFragment + 1
<1> DEFINE l == Len(channel)
<1>1. channel \in Seq(Fragments) /\ l \in Nat /\ l >= 1
  BY DEF CommonTypes
<1>2. /\ channel' \in Seq(Fragments) /\ Len(channel') = l - 1
      /\ \A i \in 1 .. Len(channel') : channel'[i] = channel[i + 1]
  BY <1>1, HeadTailProperties
<1>3. \A i \in 1 .. Len(channel') : i + 1 \in 1 .. l
  BY <1>1, <1>2
<1>4. ASSUME NEW i \in 1 .. Len(channel') PROVE Cut(channel[i])'
  <2>1. Cut(channel[i + 1]) /\ channel'[i] = channel[i + 1]
    BY <1>2, <1>3 DEF CommonTypes
  <2> QED BY <2>1 DEF Cut
<1>5. DueMessage = channel[1].content /\ DueFragment = channel[1].fragment
  BY DEF DueMessage, DueFragment
<1>6. /\ \A i \in 1 .. l - 1 : Follows(channel[i + 1], channel[i])
      /\ LastOf(channel[l]) /\ NoneBetween(channel[l].content, Len(sizes) + 1)
  BY DEF InSequence
<1>7. InSequence'
  <2>1. ASSUME NEW i \in 1 .. Len(channel') - 1
        PROVE  Follows(channel[i + 1], channel[i])'
    <3>1. /\ i \in 1 .. Len(channel') /\ i + 1 \in 1 .. Len(channel')
          /\ i + 1 \in 1 .. l - 1
      BY <1>1, <1>2
    <3>2. channel'[i] = channel[i + 1] /\ channel'[i + 1] = channel[i + 1 + 1]
      BY <1>2, <3>1
    <3>3. Follows(channel[i + 1 + 1], channel[i + 1])
      BY <1>6, <3>1
    <3> QED BY <3>2, <3>3 DEF Follows, LastOf, NoneBetween
  <2>2. ASSUME channel' # <<>>
        PROVE  /\ LastOf(channel[Len(channel)])'
               /\ NoneBetween(channel[Len(channel)].content, Len(sizes) + 1)'
    <3>1. Len(channel') \in 1 .. Len(channel') /\ Len(channel') + 1 = l
      BY <1>1, <1>2, <2>2
    <3>2. channel'[Len(channel')] = channel[l]
      BY <1>2, <3>1
    <3> QED BY <1>6, <3>2 DEF LastOf, NoneBetween
  <2>3. \A i \in 1 .. Len(channel') - 1 : Follows(channel[i + 1], channel[i])'
    BY <2>1
  <2> QED BY <2>2, <2>3 DEF InSequence
<1>8. /\ LastOf(channel[1]) =>
           /\ DueFragment' = 0 /\ DueMessage' > DueMessage
           /\ NoneBetween(DueMessage, DueMessage')
      /\ ~ LastOf(channel[1]) =>
           DueMessage' = DueMessage /\ DueFragment' = DueFragment + 1
  <2>1. CASE channel' = <<>>
    <3>1. l = 1
      <4>1. Len(channel') = 0 /\ Len(channel') = l - 1
        BY <1>2, <2>1
      <4> QED BY <1>1, <4>1
    <3>2. LastOf(channel[1]) /\ NoneBetween(channel[1].content, Len(sizes) + 1)
      BY <1>6, <3>1
    <3>3. DueMessage' = Len(sizes) + 1 /\ DueFragment' = 0
      BY <2>1 DEF DueMessage, DueFragment
    <3>4. Len(sizes) \in Nat /\ channel[1].content \in 1 .. Len(sizes)
      BY <1>1, OnItsWay DEF CommonTypes
    <3> QED BY <1>5, <3>2, <3>3, <3>4
  <2>2. CASE channel' # <<>>
    <3>1. 1 \in 1 .. Len(channel') /\ 1 \in 1 .. l - 1
      BY <1>1, <1>2, <2>2
    <3>2. channel'[1] = channel[2] /\ Follows(channel[2], channel[1])
      BY <1>2, <1>6, <3>1
    <3>3. DueMessage' = channel'[1].content /\ DueFragment' = channel'[1].fragment
      BY <2>2 DEF DueMessage, DueFragment
    <3> QED BY <1>5, <3>2, <3>3 DEF Follows
  <2> QED BY <2>1, <2>2
<1>9. DueMessage' \in Nat
  <2>1. CASE channel' = <<>>
    BY <1>1, <2>1 DEF DueMessage, CommonTypes
  <2>2. CASE channel' # <<>>
    <3>1. 1 \in 1 .. Len(channel')
      BY <1>2, <2>2
    <3>2. channel'[1] \in Fragments
      BY <1>2, <3>1
    <3> QED BY <2>2, <3>2 DEF DueMessage, Fragments
  <2> QED BY <2>1, <2>2
<1> QED BY <1>2, <1>3, <1>4, <1>5, <1>7, <1>8, <1>9

-----------------------------------------------------------------------------
\* A buffer of any content takes a fragment and keeps its length.
LEMMA CopiedTypes ==
  ASSUME NEW buffer \in Seq(Nat), NEW f \in Fragments
  PROVE  Copied(buffer, f) \in Seq(Nat) /\ Len(Copied(buffer, f)) = Len(buffer)
<1>1. \A i \in 1 .. Len(buffer) :
        (IF /\ i > f.fragment * FragmentSize
            /\ i <= f.fragment * FragmentSize + f.length
           THEN f.content ELSE buffer[i]) \in Nat
  BY DEF Fragments
<1>2. Copied(buffer, f) \in [1 .. Len(buffer) -> Nat] /\ Len(buffer) \in Nat
  BY <1>1 DEF Copied
<1> QED BY <1>2

\* A buffer that has got the first fragments of a message.
LEMMA PartialTypes ==
  ASSUME NEW size \in Nat, NEW n \in Nat, NEW k \in Nat
  PROVE  /\ Partial(size, n, k) \in Seq(Nat)
         /\ Len(Partial(size, n, k)) = size
         /\ DOMAIN Partial(size, n, k) = 1 .. size
         /\ \A i \in 1 .. size : Partial(size, n, k)[i]
                                   = IF i <= k * FragmentSize THEN n ELSE 0
<1>1. Partial(size, n, k) \in [1 .. size -> Nat]
  BY DEF Partial
<1> QED BY <1>1 DEF Partial

\* A buffer that has got none of a message, and one that has got it all.
LEMMA PartialEnds ==
  ASSUME NEW size \in Nat, size > 0, NEW n \in Nat
  PROVE  /\ Partial(size, n, 0) = Zeros(size)
         /\ Partial(size, n, FragmentCount(size)) = [i \in 1 .. size |-> n]
<1>1. FragmentSize \in Nat
  BY SizesKnown
<1>2. ASSUME NEW i \in 1 .. size
      PROVE  ~ (i <= 0 * FragmentSize) /\ i <= FragmentCount(size) * FragmentSize
  <2> DEFINE all == FragmentCount(size) * FragmentSize
  <2>1. all \in Nat /\ size <= all
    BY <1>1, CountBounds
  <2> HIDE DEF all
  <2>2. i <= all
    BY <2>1
  <2> QED BY <1>1, <2>2 DEF all
<1> QED BY <1>2 DEF Partial, Zeros

\* The next fragment of a message fits, and makes the buffer have one more.
LEMMA PartialCopied ==
  ASSUME NEW size \in Nat, size > 0, NEW n \in Nat,
         NEW k \in 0 .. FragmentCount(size) - 1, NEW f,
         f.content = n, f.fragment = k,
         f.length = SmallerOf(FragmentSize, size - k * FragmentSize)
  PROVE  /\ FitsInto(Partial(size, n, k), f)
         /\ Copied(Partial(size, n, k), f) = Partial(size, n, k + 1)
<1> DEFINE x == k * FragmentSize
           y == (k + 1) * FragmentSize
           p == Partial(size, n, k)
<1>1. /\ FragmentSize \in Nat /\ FragmentSize > 0
      /\ FragmentCount(size) \in Nat /\ k \in Nat
  BY SizesKnown, CountBounds
<1>2. /\ x \in Nat /\ x < size /\ y = x + FragmentSize
      /\ f.length = (IF FragmentSize < size - x THEN FragmentSize ELSE size - x)
      /\ x + f.length <= size
  BY FragmentFits DEF SmallerOf
<1>3. /\ Len(p) = size
      /\ \A i \in 1 .. size : p[i] = IF i <= x THEN n ELSE 0
  <2>1. size \in Nat /\ n \in Nat /\ k \in Nat
    BY <1>1
  <2> QED BY ONLY <2>1, PartialTypes
<1>4. Partial(size, n, k + 1) = [i \in 1 .. size |-> IF i <= y THEN n ELSE 0]
  BY DEF Partial
<1>5. Copied(p, f) = [i \in 1 .. size |->
                        IF i > x /\ i <= x + f.length THEN n ELSE p[i]]
  BY <1>3 DEF Copied
<1>6. FitsInto(p, f)
  BY <1>2, <1>3 DEF FitsInto
<1> HIDE DEF x, y, p
<1>7. ASSUME NEW i \in 1 .. size
      PROVE  (IF i > x /\ i <= x + f.length THEN n ELSE p[i])
               = (IF i <= y THEN n ELSE 0)
  BY <1>1, <1>2, <1>3
<1>8. Copied(p, f) = Partial(size, n, k + 1)
  BY <1>4, <1>5, <1>7
<1> QED BY <1>6, <1>8 DEF p

\* What a fragment that is due does to the buffer of its message.
LEMMA DueCopied ==
  ASSUME CommonTypes, NEW j \in 1 .. Len(channel)
  PROVE  LET f == channel[j]
             p == Partial(f.size, f.content, f.fragment)
         IN  /\ p \in Seq(Nat) /\ Len(p) = f.size
             /\ FitsInto(p, f)
             /\ Copied(p, f) = Partial(f.size, f.content, f.fragment + 1)
             /\ f.fragment = 0 => p = Zeros(f.size)
             /\ LastOf(f) => Copied(p, f) = Whole(f.content)
<1> DEFINE f == channel[j]
           p == Partial(f.size, f.content, f.fragment)
<1>1. /\ f \in Fragments /\ Cut(f)
      /\ f.content \in 1 .. Len(sizes) /\ f.size = sizes[f.content]
      /\ f.size \in Nat /\ f.size > 0
      /\ f.fragment \in Nat
  BY OnItsWay
<1>2. f.content \in Nat /\ f.fragment \in 0 .. FragmentCount(f.size) - 1
  BY <1>1 DEF Cut, Fragments
<1>3. f.length = SmallerOf(FragmentSize, f.size - f.fragment * FragmentSize)
  BY <1>1 DEF Cut
<1> HIDE DEF f
<1>4. p \in Seq(Nat) /\ Len(p) = f.size
  BY <1>1, <1>2, PartialTypes
<1>5. FitsInto(p, f) /\ Copied(p, f) = Partial(f.size, f.content, f.fragment + 1)
  BY <1>1, <1>2, <1>3, PartialCopied
<1>6. f.fragment = 0 => p = Zeros(f.size)
  BY <1>1, <1>2, PartialEnds
<1>7. LastOf(f) => Copied(p, f) = Whole(f.content)
  <2>1. Partial(f.size, f.content, FragmentCount(f.size))
          = [i \in 1 .. f.size |-> f.content]
    BY <1>1, <1>2, PartialEnds
  <2> QED BY <1>1, <1>5, <2>1 DEF LastOf, Whole
<1> QED BY <1>4, <1>5, <1>6, <1>7 DEF f

-----------------------------------------------------------------------------
\* Whole messages stay so when the sizes of more messages are known.
LEMMA WholeStays ==
  ASSUME \A n \in 1 .. Len(sizes) : sizes'[n] = sizes[n],
         NEW n \in 1 .. Len(sizes)
  PROVE  Whole(n)' = Whole(n)
BY DEF Whole

\* The buffer of a message that was sent starts with the message's number.
LEMMA WholeTypes ==
  ASSUME CommonTypes, NEW n \in 1 .. Len(sizes), sizes[n] # 0
  PROVE  /\ sizes[n] \in Nat /\ sizes[n] >= 1 /\ n \in Nat
         /\ Whole(n) \in Seq(Nat) /\ Whole(n) # <<>> /\ Whole(n)[1] = n
<1>1. sizes[n] \in Sizes /\ n \in Nat
  BY DEF CommonTypes
<1>2. sizes[n] \in Nat /\ sizes[n] >= 1
  BY <1>1, SizesKnown
<1>3. Whole(n) \in [1 .. sizes[n] -> Nat] /\ 1 \in 1 .. sizes[n]
  BY <1>1, <1>2 DEF Whole
<1>4. Whole(n) \in Seq(Nat) /\ Len(Whole(n)) = sizes[n]
  BY <1>2, <1>3
<1>5. Whole(n) # <<>> /\ Whole(n)[1] = n
  BY <1>2, <1>3, <1>4 DEF Whole
<1> QED BY <1>1, <1>2, <1>4, <1>5

\* What has come stays when more is sent.
LEMMA ArrivedStays ==
  ASSUME CommonTypes, NEW k \in 0 .. Len(sizes), ArrivedInOrder(k),
         \A n \in 1 .. Len(sizes) : sizes'[n] = sizes[n],
         NEW e \in Nat, DueMessage' = e, e >= DueMessage,
         \A m \in DueMessage .. e - 1 : sizes'[m] = 0,
         UNCHANGED delivered
  PROVE  ArrivedInOrder(k)'
<1>1. Len(sizes) \in Nat /\ DueMessage \in 1 .. Len(sizes) + 1
  BY DueBounds
<1>2. PICK d \in 1 .. Len(sizes) + 1 : d = DueMessage
  BY <1>1
<1>3. \A m \in 1 .. d - 1 : m \in 1 .. Len(sizes) /\ m \in 1 .. e - 1
  BY <1>1, <1>2
<1>4. \A m \in 1 .. d - 1 : sizes'[m] = sizes[m] /\ Whole(m)' = Whole(m)
  BY <1>3, WholeStays
<1>5. ASSUME NEW i \in 1 .. Len(delivered)
      PROVE  \E m \in 1 .. e - 1 : sizes'[m] # 0 /\ delivered[i] = Whole(m)'
  <2>1. PICK m \in 1 .. d - 1 : sizes[m] # 0 /\ delivered[i] = Whole(m)
    BY <1>2 DEF ArrivedInOrder
  <2> QED BY <1>3, <1>4, <2>1
<1>6. ASSUME NEW m \in k + 1 .. e - 1, sizes'[m] # 0
      PROVE  \E i \in 1 .. Len(delivered) : delivered[i] = Whole(m)'
  <2>1. ~ (m \in d .. e - 1)
    BY <1>2, <1>6
  <2>2. m \in k + 1 .. d - 1 /\ m \in 1 .. d - 1
    BY <1>1, <1>2, <2>1
  <2>3. sizes[m] # 0 /\ Whole(m)' = Whole(m)
    BY <1>4, <1>6, <2>2
  <2> QED BY <1>2, <2>2, <2>3 DEF ArrivedInOrder
<1> QED BY <1>5, <1>6 DEF ArrivedInOrder

\* The message that is due comes: it is the next one.
LEMMA ArrivedNext ==
  ASSUME CommonTypes, NEW k \in 0 .. Len(sizes), ArrivedInOrder(k),
         DueMessage \in 1 .. Len(sizes), sizes[DueMessage] # 0,
         UNCHANGED sizes, NEW e \in Nat, DueMessage' = e, e > DueMessage,
         NoneBetween(DueMessage, e),
         delivered' = Append(delivered, Whole(DueMessage))
  PROVE  ArrivedInOrder(k)'
<1> DEFINE l == Len(delivered)
           w == Whole(DueMessage)
<1> PICK d \in 1 .. Len(sizes) : d = DueMessage
  OBVIOUS
<1>1. /\ d \in Nat /\ Len(sizes) \in Nat /\ d <= Len(sizes) /\ k \in Nat
      /\ d = DueMessage /\ d < e
  BY DEF CommonTypes
<1>2. w \in Seq(Nat) /\ w[1] = d
  BY <1>1, WholeTypes
<1>3. \A m : Whole(m)' = Whole(m)
  BY DEF Whole
<1>4. /\ l \in Nat /\ Len(delivered') = l + 1 /\ delivered'[l + 1] = w
      /\ \A i \in 1 .. l : delivered'[i] = delivered[i]
  <2> HIDE DEF w
  <2>1. delivered' = Append(delivered, w) /\ delivered \in Seq(Seq(Nat))
    BY DEF w, CommonTypes
  <2> QED BY <1>2, <2>1, AppendProperties
<1> HIDE DEF l, w
<1>5. ASSUME NEW i \in 1 .. l
      PROVE  \E m \in 1 .. d - 1 : /\ sizes[m] # 0 /\ delivered[i] = Whole(m)
                                   /\ delivered[i][1] = m
  <2>1. PICK m \in 1 .. d - 1 : sizes[m] # 0 /\ delivered[i] = Whole(m)
    BY <1>1 DEF ArrivedInOrder, l
  <2>2. m \in 1 .. Len(sizes)
    BY <1>1
  <2>3. Whole(m)[1] = m
    BY <2>1, <2>2, WholeTypes
  <2> QED BY <2>1, <2>3
<1>6. ASSUME NEW i \in 1 .. l + 1
      PROVE  \E m \in 1 .. e - 1 :
               sizes'[m] # 0 /\ delivered'[i] = Whole(m)'
  <2>1. \A m \in 1 .. d : m \in 1 .. e - 1
    BY <1>1
  <2>2. CASE i \in 1 .. l
    <3>1. PICK m \in 1 .. d - 1 : sizes[m] # 0 /\ delivered[i] = Whole(m)
      BY <1>5, <2>2
    <3>2. m \in 1 .. d
      BY <1>1
    <3> QED BY <1>3, <1>4, <2>1, <2>2, <3>1, <3>2
  <2>3. CASE i = l + 1
    <3>1. d \in 1 .. d
      BY <1>1
    <3>2. delivered'[i] = Whole(d)' /\ sizes'[d] # 0
      BY <1>1, <1>3, <1>4, <2>3 DEF w
    <3> QED BY <2>1, <3>1, <3>2
  <2> QED BY <1>4, <2>2, <2>3
<1>7. ASSUME NEW i \in 1 .. l + 1, NEW j \in 1 .. l + 1, i < j
      PROVE  delivered'[i][1] < delivered'[j][1]
  <2>1. i \in 1 .. l /\ delivered'[i] = delivered[i]
    BY <1>4, <1>7
  <2>2. CASE j \in 1 .. l
    BY <1>4, <1>7, <2>1, <2>2 DEF ArrivedInOrder, l
  <2>3. CASE j = l + 1
    <3>1. delivered'[j][1] = d
      BY <1>2, <1>4, <2>3
    <3>2. delivered[i][1] \in 1 .. d - 1
      BY <1>5, <2>1
    <3>3. \A x \in 1 .. d - 1 : x < d
      BY <1>1
    <3>4. delivered[i][1] < d
      BY <3>2, <3>3
    <3> QED BY <2>1, <3>1, <3>4
  <2> QED BY <1>4, <2>2, <2>3
<1>8. ASSUME NEW m \in k + 1 .. e - 1, sizes'[m] # 0
      PROVE  \E i \in 1 .. l + 1 : delivered'[i] = Whole(m)'
  <2>1. CASE m = d
    BY <1>1, <1>3, <1>4, <2>1 DEF w
  <2>2. CASE m < d
    <3>1. m \in k + 1 .. d - 1
      BY <1>1, <2>2
    <3>2. PICK i \in 1 .. l : delivered[i] = Whole(m)
      BY <1>1, <1>8, <3>1 DEF ArrivedInOrder, l
    <3> QED BY <1>3, <1>4, <3>2
  <2>3. CASE m > d
    <3>1. m \in d + 1 .. e - 1
      BY <1>1, <2>3
    <3> QED BY <1>1, <1>8, <3>1 DEF NoneBetween
  <2>4. m = d \/ m < d \/ m > d
    BY <1>1
  <2> QED BY ONLY <2>1, <2>2, <2>3, <2>4
<1>9. /\ \A i \in 1 .. Len(delivered') :
           \E m \in 1 .. e - 1 :
             sizes'[m] # 0 /\ delivered'[i] = Whole(m)'
      /\ \A m \in k + 1 .. e - 1 :
           sizes'[m] # 0 => \E i \in 1 .. Len(delivered') :
                              delivered'[i] = Whole(m)'
  BY <1>4, <1>6, <1>8
<1>10. \A i, j \in 1 .. Len(delivered') :
         i < j => delivered'[i][1] < delivered'[j][1]
  BY <1>4, <1>7
<1> QED BY <1>9, <1>10 DEF ArrivedInOrder

-----------------------------------------------------------------------------
(***************************************************************************)
(* The steps of the viewer's direction.                                    *)
(***************************************************************************)
\* What is sent to the viewer comes after what is on its way.
LEMMA ViewerSends ==
  ASSUME ViewerInv, NEW size \in Sizes, SplitMessage(size)
  PROVE  ViewerInv'
<1>1. CommonTypes /\ Sends(size, 1)
  BY DEF ViewerInv, ViewerTypes, SplitMessage, Sends
<1>2. /\ CommonTypes'
      /\ Len(sizes') = Len(sizes) + 1 /\ sizes'[Len(sizes) + 1] = size
      /\ \A n \in 1 .. Len(sizes) : sizes'[n] = sizes[n]
      /\ Len(channel') = Len(channel) + FragmentCount(size)
      /\ \A i \in 1 .. Len(channel) : channel'[i] = channel[i]
      /\ \A i \in 1 .. FragmentCount(size) : channel'[Len(channel) + i].index = 1
  BY <1>1, SentKept
<1>3. UNCHANGED <<lossy, builders, delivered>>
  BY DEF SplitMessage
<1>4. /\ Len(sizes) \in Nat /\ Len(channel) \in Nat
      /\ FragmentCount(size) \in Nat
  <2>1. FragmentCount(size) \in Nat
    BY SizesKnown, CountOfAny
  <2> QED BY <1>1, <2>1 DEF CommonTypes
<1>5. ViewerTypes'
  <2>1. ASSUME NEW i \in 1 .. Len(channel') PROVE channel'[i].index = 1
    <3>1. CASE i \in 1 .. Len(channel)
      BY <1>2, <3>1 DEF ViewerInv, ViewerTypes
    <3>2. CASE i \notin 1 .. Len(channel)
      <4>1. /\ i - Len(channel) \in 1 .. FragmentCount(size)
            /\ i = Len(channel) + (i - Len(channel))
        BY <1>2, <1>4, <3>2
      <4> QED BY <1>2, <4>1
    <3> QED BY <3>1, <3>2
  <2>2. \/ builders' = <<>>
        \/ \E b \in Builder : /\ builders' = <<b>>
                              /\ b.id = 1 /\ ~ Complete(b)
    BY <1>3 DEF ViewerInv, ViewerTypes
  <2> QED BY <1>2, <2>1, <2>2 DEF ViewerTypes, Complete
<1>6. ~ lossy' => ReliableInOrder'
  <2> SUFFICES ASSUME ~ lossy
               PROVE  ReliableInOrder'
    BY <1>3
  <2>1. ReliableInOrder /\ InSequence
    BY DEF ViewerInv, ReliableInOrder
  <2>2. PICK e \in Nat :
          /\ InSequence' /\ DueFragment' = DueFragment
          /\ DueMessage' = e /\ e >= DueMessage
          /\ \A m \in DueMessage .. e - 1 : sizes'[m] = 0
          /\ DueFragment # 0 => e = DueMessage
    BY <1>1, <2>1, SentInSequence
  <2>3. BuilderDue'
    <3>1. CASE DueFragment = 0
      BY <1>3, <2>1, <2>2, <3>1 DEF BuilderDue, ReliableInOrder
    <3>2. CASE DueFragment # 0
      <4>1. DueMessage \in 1 .. Len(sizes) /\ DueMessage' = DueMessage
        BY <1>1, <2>2, <3>2, DueBounds
      <4>2. sizes'[DueMessage] = sizes[DueMessage]
        BY <1>2, <4>1
      <4> QED BY <1>3, <2>1, <2>2, <4>1, <4>2 DEF BuilderDue, ReliableInOrder, Partial
    <3> QED BY <3>1, <3>2
  <2>4. ArrivedInOrder(0)'
    <3>1. 0 \in 0 .. Len(sizes) /\ ArrivedInOrder(0)
      BY <1>4, <2>1 DEF ReliableInOrder
    <3> QED BY <1>1, <1>2, <1>3, <2>2, <3>1, ArrivedStays
  <2> QED BY <2>2, <2>3, <2>4 DEF ReliableInOrder
<1>7. Small' => (builders = <<>> /\ Intact)'
  <2> SUFFICES ASSUME Small'
               PROVE  (builders = <<>> /\ Intact)'
    OBVIOUS
  <2>1. Small
    <3>1. ASSUME NEW n \in 1 .. Len(sizes) PROVE sizes[n] <= FragmentSize
      <4>1. n \in 1 .. Len(sizes') /\ sizes'[n] = sizes[n]
        BY <1>2, <1>4
      <4> QED BY <4>1 DEF Small
    <3> QED BY <3>1 DEF Small
  <2>2. builders = <<>> /\ Intact
    BY <2>1 DEF ViewerInv
  <2>3. ASSUME NEW n \in 1 .. Len(delivered')
        PROVE  \E m \in 1 .. Len(sizes') : delivered'[n] = Whole(m)'
    <3>1. PICK m \in 1 .. Len(sizes) : delivered[n] = Whole(m)
      BY <1>3, <2>2 DEF Intact
    <3>2. Whole(m)' = Whole(m)
      BY <1>2, WholeStays
    <3>3. m \in 1 .. Len(sizes')
      BY <1>2, <1>4
    <3> QED BY <1>3, <3>1, <3>2, <3>3
  <2> QED BY <1>3, <2>2, <2>3 DEF Intact
<1> QED BY <1>5, <1>6, <1>7 DEF ViewerInv

\* The builder a fragment is for, and what it is with the fragment.
OldBuilder(f) == IF builders = <<>> THEN NewBuilder(f) ELSE builders[1]

WithFragment(b, f) ==
  [b EXCEPT !.received = @ + 1, !.buffer = Copied(@, f)]

\* There is one builder at most, the one the fragment is for.
LEMMA Pushed ==
  ASSUME ViewerTypes, NEW i \in 1 .. Len(channel), PushMessage(channel[i])
  PROVE  LET f == channel[i]
             old == OldBuilder(f)
             added == WithFragment(old, f)
         IN  /\ old \in Builder /\ old.id = 1 /\ ~ Complete(old)
             /\ added \in Builder /\ added.id = 1
             /\ added.received = old.received + 1
             /\ added.buffer = Copied(old.buffer, f)
             /\ Len(added.buffer) = Len(old.buffer)
             /\ \/ /\ ~ FitsInto(old.buffer, f)
                   /\ builders' = <<old>> /\ delivered' = delivered
                \/ /\ FitsInto(old.buffer, f) /\ Complete(added)
                   /\ builders' = <<>>
                   /\ delivered' = Append(delivered, added.buffer)
                \/ /\ FitsInto(old.buffer, f) /\ ~ Complete(added)
                   /\ builders' = <<added>> /\ delivered' = delivered
<1> DEFINE f == channel[i]
           old == OldBuilder(f)
           added == WithFragment(old, f)
<1>1. /\ f \in Fragments /\ f.index = 1
      /\ f.size \in Nat /\ f.size > 0
      /\ FragmentCount(f.size) \in Nat /\ FragmentCount(f.size) >= 1
  <2>1. f \in Fragments /\ f.size \in Nat /\ f.size > 0
    BY OnItsWay DEF ViewerTypes
  <2>2. FragmentCount(f.size) \in Nat /\ FragmentCount(f.size) >= 1
    BY <2>1, CountBounds
  <2> QED BY <2>1, <2>2 DEF ViewerTypes
<1> HIDE DEF f
<1>2. old \in Builder /\ old.id = 1 /\ ~ Complete(old)
  <2>1. CASE builders = <<>>
    <3>1. Zeros(f.size) \in Seq(Nat) /\ Len(Zeros(f.size)) = f.size
      <4>1. Zeros(f.size) \in [1 .. f.size -> Nat]
        BY DEF Zeros
      <4> QED BY <1>1, <4>1
    <3>2. /\ NewBuilder(f).id = 1 /\ NewBuilder(f).received = 0
          /\ NewBuilder(f).buffer = Zeros(f.size)
          /\ NewBuilder(f) \in Builder
      BY <1>1, <3>1 DEF NewBuilder, Builder
    <3>3. old = NewBuilder(f)
      BY <2>1 DEF OldBuilder
    <3> QED BY <1>1, <3>1, <3>2, <3>3 DEF Complete
  <2>2. CASE builders # <<>>
    <3>1. PICK b \in Builder : builders = <<b>> /\ b.id = 1 /\ ~ Complete(b)
      BY <2>2 DEF ViewerTypes
    <3>2. old = b
      BY <2>2, <3>1 DEF OldBuilder
    <3> QED BY <3>1, <3>2
  <2> QED BY <2>1, <2>2
<1> HIDE DEF old
<1>3. /\ Copied(old.buffer, f) \in Seq(Nat)
      /\ Len(Copied(old.buffer, f)) = Len(old.buffer)
  BY <1>1, <1>2, CopiedTypes DEF Builder
<1>4. /\ added \in Builder /\ added.id = 1
      /\ added.received = old.received + 1
      /\ added.buffer = Copied(old.buffer, f)
      /\ Len(added.buffer) = Len(old.buffer)
  <2> DEFINE n == old.received + 1
             c == Copied(old.buffer, f)
  <2>1. added = [old EXCEPT !.received = n, !.buffer = c]
    BY DEF WithFragment
  <2>2. n \in Nat /\ c \in Seq(Nat)
    BY <1>2, <1>3 DEF Builder
  <2> HIDE DEF n, c, added
  <2>3. /\ added \in Builder /\ added.id = old.id
        /\ added.received = n /\ added.buffer = c
    BY <1>2, <2>1, <2>2 DEF Builder
  <2> QED BY <1>2, <1>3, <2>3 DEF n, c
<1>5. Opened(f) = <<old>>
  <2>1. CASE builders = <<>>
    <3>1. ~ Known(f.index)
      BY <2>1 DEF Known
    <3>2. Append(builders, NewBuilder(f)) = <<old>>
      BY <2>1 DEF OldBuilder, old
    <3>3. ~ (Len(<<old>>) > MaxBuilderCount)
      BY BuildersAssumption DEF MaxBuilderCount
    <3> QED BY <3>1, <3>2, <3>3 DEF Opened
  <2>2. CASE builders # <<>>
    <3>1. PICK b \in Builder : builders = <<b>> /\ b.id = 1
      BY <2>2 DEF ViewerTypes
    <3>2. old = b
      BY <2>2, <3>1 DEF OldBuilder, old
    <3>3. Known(f.index)
      BY <1>1, <3>1 DEF Known
    <3> QED BY <3>1, <3>2, <3>3 DEF Opened
  <2> QED BY <2>1, <2>2
<1>6. BuilderOf(f) = old
  <2>1. \A n \in DOMAIN <<old>> : n = 1 /\ <<old>>[n] = old
    OBVIOUS
  <2>2. 1 \in DOMAIN <<old>> /\ <<old>>[1].id = f.index
    BY <1>1, <1>2
  <2>3. (CHOOSE n \in DOMAIN <<old>> : <<old>>[n].id = f.index) = 1
    BY <2>1, <2>2
  <2> QED BY <1>5, <2>1, <2>2, <2>3 DEF BuilderOf
<1>7. Dropped(Opened(f), f.index) = <<>>
  <2>1. (CHOOSE n \in DOMAIN <<old>> : <<old>>[n].id = f.index) = 1
    BY <1>1, <1>2
  <2>2. Dropped(<<old>>, f.index) = RemoveAt(<<old>>, 1)
    BY <2>1 DEF Dropped
  <2>3. SubSeq(<<old>>, 1, 1 - 1) = <<>> /\ SubSeq(<<old>>, 1 + 1, 1) = <<>>
    BY SubSeqEmpty
  <2>4. <<>> \o <<>> = <<>>
    OBVIOUS
  <2>5. RemoveAt(<<old>>, 1) = <<>>
    BY <2>3, <2>4 DEF RemoveAt
  <2> QED BY <1>5, <2>2, <2>5
<1>8. Replaced(Opened(f), added) = <<added>>
  <2>1. DOMAIN <<old>> = 1 .. 1 /\ <<old>>[1].id = added.id
    BY <1>2, <1>4
  <2>2. Replaced(<<old>>, added) = [n \in 1 .. 1 |-> added]
    <3>1. \A n \in 1 .. 1 : <<old>>[n].id = added.id
      BY <2>1
    <3> QED BY <2>1, <3>1 DEF Replaced
  <2>3. [n \in 1 .. 1 |-> added] = <<added>>
    OBVIOUS
  <2> QED BY <1>5, <2>2, <2>3
<1>9. \/ /\ Complete(old) \/ ~ FitsInto(old.buffer, f)
         /\ builders' = <<old>> /\ delivered' = delivered
      \/ /\ ~ Complete(old) /\ FitsInto(old.buffer, f) /\ Complete(added)
         /\ builders' = <<>>
         /\ delivered' = Append(delivered, added.buffer)
      \/ /\ ~ Complete(old) /\ FitsInto(old.buffer, f) /\ ~ Complete(added)
         /\ builders' = <<added>> /\ delivered' = delivered
  <2>1. PushMessage(f)
    BY DEF f
  <2> QED BY <1>5, <1>6, <1>7, <1>8, <2>1 DEF PushMessage, WithFragment
<1> QED BY <1>2, <1>4, <1>9 DEF f, old

\* The fragment that comes is the next one for its builder.
LEMMA PushedDue ==
  ASSUME ViewerTypes, NEW i \in 1 .. Len(channel), PushMessage(channel[i]),
         OldBuilder(channel[i]).received = channel[i].fragment,
         OldBuilder(channel[i]).buffer
           = Partial(channel[i].size, channel[i].content, channel[i].fragment)
  PROVE  LET f == channel[i]
         IN  /\ LastOf(f) => /\ builders' = <<>>
                             /\ delivered' = Append(delivered, Whole(f.content))
             /\ ~ LastOf(f) =>
                  /\ builders' = <<[id |-> 1, received |-> f.fragment + 1,
                                    buffer |-> Partial(f.size, f.content,
                                                       f.fragment + 1)]>>
                  /\ delivered' = delivered
<1> DEFINE f == channel[i]
           old == OldBuilder(f)
           added == WithFragment(old, f)
           p == Partial(f.size, f.content, f.fragment)
           q == Partial(f.size, f.content, f.fragment + 1)
<1>1. /\ added \in Builder /\ added.id = 1
      /\ added.received = old.received + 1
      /\ added.buffer = Copied(old.buffer, f)
      /\ Len(added.buffer) = Len(old.buffer)
      /\ \/ /\ ~ FitsInto(old.buffer, f)
            /\ builders' = <<old>> /\ delivered' = delivered
         \/ /\ FitsInto(old.buffer, f) /\ Complete(added)
            /\ builders' = <<>>
            /\ delivered' = Append(delivered, added.buffer)
         \/ /\ FitsInto(old.buffer, f) /\ ~ Complete(added)
            /\ builders' = <<added>> /\ delivered' = delivered
  BY Pushed
<1>2. old.received = f.fragment /\ old.buffer = p
  OBVIOUS
<1>3. CommonTypes
  BY DEF ViewerTypes
<1>4. /\ Len(p) = f.size /\ FitsInto(p, f) /\ Copied(p, f) = q
      /\ LastOf(f) => Copied(p, f) = Whole(f.content)
  BY <1>3, DueCopied
<1> HIDE DEF f, old, added, p, q
<1>5. Complete(added) <=> LastOf(f)
  BY <1>1, <1>2, <1>4 DEF Complete, LastOf
<1>6. added = [id |-> 1, received |-> f.fragment + 1, buffer |-> q]
  BY <1>1, <1>2, <1>4 DEF Builder
<1>7. CASE LastOf(f)
  <2>1. /\ builders' = <<>> /\ delivered' = Append(delivered, Whole(f.content))
    BY <1>1, <1>2, <1>4, <1>5, <1>7
  <2> QED BY <1>7, <2>1 DEF f
<1>8. CASE ~ LastOf(f)
  <2>1. builders' = <<added>> /\ delivered' = delivered
    BY <1>1, <1>2, <1>4, <1>5, <1>8
  <2> QED BY <1>6, <1>8, <2>1 DEF f, q
<1> QED BY <1>7, <1>8

\* A fragment for which there is no builder is the next one of a new builder
\* when it is the first of its message.
LEMMA NewBuilderDue ==
  ASSUME ViewerTypes, NEW i \in 1 .. Len(channel), builders = <<>>,
         channel[i].fragment = 0
  PROVE  /\ OldBuilder(channel[i]).received = channel[i].fragment
         /\ OldBuilder(channel[i]).buffer
              = Partial(channel[i].size, channel[i].content, channel[i].fragment)
<1>1. Partial(channel[i].size, channel[i].content, channel[i].fragment)
        = Zeros(channel[i].size)
  BY DueCopied DEF ViewerTypes
<1> QED BY <1>1 DEF OldBuilder, NewBuilder

\* The viewer's assembler takes a fragment.
LEMMA ViewerReceives ==
  ASSUME ViewerInv, NEW i \in 1 .. Len(channel), Receive(i)
  PROVE  ViewerInv'
<1> DEFINE f == channel[i]
<1>1. /\ ViewerTypes /\ CommonTypes /\ PushMessage(f)
      /\ channel' = RemoveAt(channel, i) /\ UNCHANGED <<lossy, sizes>>
      /\ i = 1 \/ lossy
  BY DEF ViewerInv, ViewerTypes, Receive
<1>2. /\ f \in Fragments /\ Cut(f)
      /\ f.content \in 1 .. Len(sizes) /\ f.size = sizes[f.content]
      /\ f.size \in Nat /\ f.size > 0
      /\ f.fragment \in Nat /\ f.fragment < FragmentCount(f.size)
      /\ FragmentCount(f.size) \in Nat
  BY <1>1, OnItsWay
<1>3. Len(sizes) \in Nat /\ delivered \in Seq(Seq(Nat)) /\ Whole(f.content) \in Seq(Nat)
  <2>1. sizes[f.content] # 0
    BY <1>2
  <2> QED BY <1>1, <1>2, <2>1, WholeTypes DEF CommonTypes
<1>4. ViewerTypes'
  <2>1. /\ channel' \in Seq(Fragments)
        /\ \A j \in 1 .. Len(channel') :
             \E k \in 1 .. Len(channel) : channel'[j] = channel[k]
        /\ \A j \in 1 .. Len(channel') : Cut(channel[j])'
    BY <1>1, RemovedKept
  <2>2. \A j \in 1 .. Len(channel') : channel'[j].index = 1
    BY <1>1, <2>1 DEF ViewerTypes
  <2>3. PICK old \in Builder, added \in Builder :
          /\ old.id = 1 /\ ~ Complete(old) /\ added.id = 1
          /\ \/ builders' = <<old>> /\ delivered' = delivered
             \/ builders' = <<>> /\ delivered' = Append(delivered, added.buffer)
             \/ /\ ~ Complete(added)
                /\ builders' = <<added>> /\ delivered' = delivered
    BY <1>1, Pushed
  <2>4. delivered' \in Seq(Seq(Nat))
    <3>1. added.buffer \in Seq(Nat)
      BY <2>3 DEF Builder
    <3>2. Append(delivered, added.buffer) \in Seq(Seq(Nat))
      BY <1>3, <3>1, AppendProperties
    <3> QED BY <1>3, <2>3, <3>2
  <2>5. \/ builders' = <<>>
        \/ \E b \in Builder : /\ builders' = <<b>>
                              /\ b.id = 1 /\ ~ Complete(b)
    BY <2>3
  <2>6. CommonTypes'
    BY <1>1, <2>1, <2>4 DEF CommonTypes
  <2> QED BY <2>2, <2>5, <2>6 DEF ViewerTypes, Complete
<1>5. \A n \in 1 .. Len(sizes) : Whole(n)' = Whole(n)
  BY <1>1 DEF Whole
<1>6. ~ lossy' => ReliableInOrder'
  <2> SUFFICES ASSUME ~ lossy
               PROVE  ReliableInOrder'
    BY <1>1
  <2>1. /\ i = 1 /\ channel # <<>> /\ InSequence /\ BuilderDue
        /\ ArrivedInOrder(0)
    BY <1>1 DEF ViewerInv, ReliableInOrder
  <2>2. channel' = Tail(channel)
    BY <1>1, <2>1, FirstTaken
  <2>3. PICK e \in Nat :
          /\ InSequence' /\ DueMessage' = e
          /\ DueMessage = f.content /\ DueFragment = f.fragment
          /\ LastOf(f) => /\ DueFragment' = 0 /\ e > DueMessage
                          /\ NoneBetween(DueMessage, e)
          /\ ~ LastOf(f) => e = DueMessage /\ DueFragment' = DueFragment + 1
    <3>1. /\ InSequence' /\ DueMessage' \in Nat
          /\ DueMessage = f.content /\ DueFragment = f.fragment
          /\ LastOf(f) => /\ DueFragment' = 0 /\ DueMessage' > DueMessage
                          /\ NoneBetween(DueMessage, DueMessage')
          /\ ~ LastOf(f) =>
               DueMessage' = DueMessage /\ DueFragment' = DueFragment + 1
      BY <1>1, <2>1, <2>2, TakenInSequence
    <3> QED BY <3>1
  <2>4. /\ OldBuilder(f).received = f.fragment
        /\ OldBuilder(f).buffer = Partial(f.size, f.content, f.fragment)
    <3>1. CASE f.fragment = 0
      BY <1>1, <2>1, <2>3, <3>1, NewBuilderDue DEF BuilderDue
    <3>2. CASE f.fragment # 0
      BY <1>2, <2>1, <2>3, <3>2 DEF BuilderDue, OldBuilder
    <3> QED BY <3>1, <3>2
  <2>5. /\ LastOf(f) => /\ builders' = <<>>
                        /\ delivered' = Append(delivered, Whole(f.content))
        /\ ~ LastOf(f) =>
             /\ builders' = <<[id |-> 1, received |-> f.fragment + 1,
                               buffer |-> Partial(f.size, f.content,
                                                  f.fragment + 1)]>>
             /\ delivered' = delivered
    BY <1>1, <2>4, PushedDue
  <2> HIDE DEF f
  <2>6. CASE LastOf(f)
    <3>1. BuilderDue'
      BY <2>3, <2>5, <2>6 DEF BuilderDue
    <3>2. ArrivedInOrder(0)'
      <4>1. /\ 0 \in 0 .. Len(sizes) /\ DueMessage \in 1 .. Len(sizes)
            /\ sizes[DueMessage] # 0
        BY <1>2, <1>3, <2>3
      <4>2. delivered' = Append(delivered, Whole(DueMessage)) /\ e > DueMessage
        BY <2>3, <2>5, <2>6
      <4> QED BY <1>1, <2>1, <2>3, <2>6, <4>1, <4>2, ArrivedNext
    <3> QED BY <2>3, <3>1, <3>2 DEF ReliableInOrder
  <2>7. CASE ~ LastOf(f)
    <3>1. BuilderDue'
      <4>1. DueFragment' = f.fragment + 1 /\ DueFragment' # 0
        BY <1>2, <2>3, <2>7
      <4>2. DueMessage' = f.content /\ sizes'[f.content] = f.size
        BY <1>1, <1>2, <2>3, <2>7
      <4> QED BY <2>5, <2>7, <4>1, <4>2 DEF BuilderDue, Partial
    <3>2. ArrivedInOrder(0)'
      <4>1. DueMessage' = DueMessage /\ delivered' = delivered
        BY <2>3, <2>5, <2>7
      <4> QED BY <1>1, <1>5, <2>1, <4>1 DEF ArrivedInOrder, Whole
    <3> QED BY <2>3, <3>1, <3>2 DEF ReliableInOrder
  <2> QED BY <2>6, <2>7
<1>7. Small' => (builders = <<>> /\ Intact)'
  <2> SUFFICES ASSUME Small
               PROVE  (builders = <<>> /\ Intact)'
    BY <1>1 DEF Small
  <2>1. builders = <<>> /\ Intact
    BY DEF ViewerInv
  <2>2. f.fragment = 0 /\ LastOf(f)
    <3> DEFINE c == FragmentCount(f.size)
    <3>1. /\ c \in Nat /\ c >= 1 /\ (c - 1) * FragmentSize < f.size
          /\ FragmentSize \in Nat /\ FragmentSize > 0
      BY <1>2, CountBounds, SizesKnown
    <3>2. f.size <= FragmentSize
      BY <1>2 DEF Small
    <3> HIDE DEF c, f
    <3>3. c = 1
      <4>1. CASE c >= 2
        <5>1. (c - 1) * FragmentSize >= FragmentSize
          BY <3>1, <4>1
        <5>2. (c - 1) * FragmentSize \in Nat
          BY <3>1
        <5> QED BY <1>2, <3>1, <3>2, <5>1, <5>2
      <4> QED BY <3>1, <4>1
    <3> QED BY <1>2, <3>3 DEF LastOf, c
  <2>3. /\ builders' = <<>>
        /\ delivered' = Append(delivered, Whole(f.content))
    BY <1>1, <2>1, <2>2, NewBuilderDue, PushedDue
  <2> HIDE DEF f
  <2>4. ASSUME NEW n \in 1 .. Len(delivered')
        PROVE  \E m \in 1 .. Len(sizes') : delivered'[n] = Whole(m)'
    <3>1. /\ Len(delivered) \in Nat /\ Len(delivered') = Len(delivered) + 1
          /\ delivered'[Len(delivered) + 1] = Whole(f.content)
          /\ \A m \in 1 .. Len(delivered) : delivered'[m] = delivered[m]
      BY <1>3, <2>3, AppendProperties
    <3>2. CASE n \in 1 .. Len(delivered)
      <4>1. PICK m \in 1 .. Len(sizes) : delivered[n] = Whole(m)
        BY <2>1, <3>2 DEF Intact
      <4> QED BY <1>1, <1>5, <3>1, <3>2, <4>1
    <3>3. CASE n \notin 1 .. Len(delivered)
      <4>1. n = Len(delivered) + 1
        BY <3>1, <3>3
      <4> QED BY <1>1, <1>2, <1>5, <3>1, <4>1
    <3> QED BY <3>2, <3>3
  <2> QED BY <2>3, <2>4 DEF Intact
<1> QED BY <1>4, <1>6, <1>7 DEF ViewerInv

\* What is lost is lost on the lossy channel only.
LEMMA ViewerLoses ==
  ASSUME ViewerInv, NEW i \in 1 .. Len(channel), Lose(i)
  PROVE  ViewerInv'
<1>1. /\ ViewerTypes /\ CommonTypes /\ channel' = RemoveAt(channel, i)
      /\ lossy /\ UNCHANGED <<lossy, sizes, builders, delivered>>
  BY DEF ViewerInv, ViewerTypes, Lose
<1>2. /\ channel' \in Seq(Fragments)
      /\ \A j \in 1 .. Len(channel') :
           \E k \in 1 .. Len(channel) : channel'[j] = channel[k]
      /\ \A j \in 1 .. Len(channel') : Cut(channel[j])'
  BY <1>1, RemovedKept
<1>3. \A j \in 1 .. Len(channel') : channel'[j].index = 1
  BY <1>1, <1>2 DEF ViewerTypes
<1>4. CommonTypes'
  BY <1>1, <1>2 DEF CommonTypes
<1>5. ViewerTypes'
  BY <1>1, <1>3, <1>4 DEF ViewerTypes, Complete
<1>6. Small' => (builders = <<>> /\ Intact)'
  BY <1>1 DEF ViewerInv, Small, Intact, Whole
<1> QED BY <1>1, <1>5, <1>6 DEF ViewerInv

-----------------------------------------------------------------------------
(***************************************************************************)
(* The steps of the source's direction.  AuxFragments has Fragments'       *)
(* operators too.                                                          *)
(***************************************************************************)
\* Those are the same.
LEMMA SameOperators ==
  /\ \A size : Aux!FragmentCount(size) = FragmentCount(size)
  /\ \A size : Aux!Zeros(size) = Zeros(size)
  /\ \A buffer, f : Aux!FitsInto(buffer, f) <=> FitsInto(buffer, f)
  /\ \A buffer, f : Aux!Copied(buffer, f) = Copied(buffer, f)
  /\ \A buffer, n : Aux!IsMessage(buffer, sizes, n)
                      <=> IsMessage(buffer, sizes, n)
  /\ \A index, size, n : Aux!Split(index, size, n) = Split(index, size, n)
  /\ Aux!InOrder(delivered, sizes) <=> InOrder(delivered, sizes)
  /\ \A n : Aux!AllFrom(n, delivered, sizes) <=> AllFrom(n, delivered, sizes)
<1>1. \A size : Aux!FragmentCount(size) = FragmentCount(size)
  BY DEF FragmentCount, Aux!FragmentCount
<1>2. /\ \A size : Aux!Zeros(size) = Zeros(size)
      /\ \A buffer, f : Aux!FitsInto(buffer, f) <=> FitsInto(buffer, f)
  BY DEF Zeros, Aux!Zeros, FitsInto, Aux!FitsInto
<1>3. \A buffer, f : Aux!Copied(buffer, f) = Copied(buffer, f)
  BY DEF Copied, Aux!Copied
<1>4. \A buffer, n : Aux!IsMessage(buffer, sizes, n)
                       <=> IsMessage(buffer, sizes, n)
  BY DEF IsMessage, Aux!IsMessage
<1>5. \A index, size, n : Aux!Split(index, size, n) = Split(index, size, n)
  BY <1>1 DEF Split, Aux!Split, Fragment, Aux!Fragment, SmallerOf, Aux!SmallerOf
<1>6. /\ Aux!InOrder(delivered, sizes) <=> InOrder(delivered, sizes)
      /\ \A n : Aux!AllFrom(n, delivered, sizes) <=> AllFrom(n, delivered, sizes)
  BY <1>4 DEF InOrder, Aux!InOrder, AllFrom, Aux!AllFrom
<1> QED BY <1>1, <1>2, <1>3, <1>4, <1>5, <1>6

\* The indices of the messages sent over the present connection.
LEMMA Indices ==
  ASSUME SourceTypes
  PROVE  /\ \A n \in dropped + 1 .. Len(sizes) + 1 : IndexOf(n) \in Nat
         /\ \A n \in Int : IndexOf(n) \in Int /\ IndexOf(n + 1) = IndexOf(n) + 1
         /\ IndexOf(Len(sizes) + 1) = nextIndex
         /\ \A n \in Int : IndexOf(n) <= n - 1
BY DEF SourceTypes, CommonTypes, IndexOf

\* What is sent to the source comes after what is on its way.
LEMMA SourceSends ==
  ASSUME SourceInv, NEW size \in Sizes, Aux!SplitMessage(size), UNCHANGED lossy
  PROVE  SourceInv'
<1>1. CommonTypes /\ InSequence /\ SourceTypes /\ nextIndex \in Nat
  BY DEF SourceInv, SourceTypes
<1>2. /\ nextIndex' = nextIndex + 1 /\ UNCHANGED <<assembler, delivered, dropped>>
      /\ Sends(size, nextIndex)
  BY SameOperators DEF Aux!SplitMessage, Sends
<1>3. /\ CommonTypes'
      /\ Len(sizes') = Len(sizes) + 1 /\ sizes'[Len(sizes) + 1] = size
      /\ \A n \in 1 .. Len(sizes) : sizes'[n] = sizes[n]
      /\ Len(channel') = Len(channel) + FragmentCount(size)
      /\ \A i \in 1 .. Len(channel) : channel'[i] = channel[i]
      /\ \A i \in 1 .. FragmentCount(size) :
           /\ channel'[Len(channel) + i].index = nextIndex
           /\ channel'[Len(channel) + i].content = Len(sizes) + 1
  BY <1>1, <1>2, SentKept
<1>4. PICK e \in Nat :
        /\ InSequence' /\ DueFragment' = DueFragment
        /\ DueMessage' = e /\ e >= DueMessage
        /\ \A m \in DueMessage .. e - 1 : sizes'[m] = 0
        /\ DueFragment # 0 => e = DueMessage
  BY <1>1, <1>2, SentInSequence
<1>5. /\ Len(sizes) \in Nat /\ Len(channel) \in Nat
      /\ FragmentCount(size) \in Nat /\ dropped \in 0 .. Len(sizes)
  <2>1. FragmentCount(size) \in Nat
    BY SizesKnown, CountOfAny
  <2> QED BY <1>1, <2>1 DEF SourceTypes, CommonTypes
<1>6. \A n \in Int : IndexOf(n)' = IndexOf(n)
  BY <1>1, <1>2, <1>3, <1>5 DEF IndexOf
<1>7. SourceTypes'
  <2>1. ASSUME NEW i \in 1 .. Len(channel')
        PROVE  channel'[i].index = IndexOf(channel[i].content)'
    <3>1. CASE i \in 1 .. Len(channel)
      <4>1. channel'[i] = channel[i] /\ channel[i].content \in 1 .. Len(sizes)
        BY <1>1, <1>3, <3>1, OnItsWay
      <4>2. channel[i].index = IndexOf(channel[i].content)
        BY <1>1, <3>1 DEF SourceTypes
      <4> QED BY <1>6, <4>1, <4>2
    <3>2. CASE i \notin 1 .. Len(channel)
      <4>1. /\ i - Len(channel) \in 1 .. FragmentCount(size)
            /\ i = Len(channel) + (i - Len(channel))
        BY <1>3, <1>5, <3>2
      <4>2. channel'[i].index = nextIndex /\ channel'[i].content = Len(sizes) + 1
        BY <1>3, <4>1
      <4>3. IndexOf(Len(sizes) + 1) = nextIndex
        BY <1>1, Indices
      <4> QED BY <1>5, <1>6, <4>2, <4>3
    <3> QED BY <3>1, <3>2
  <2>2. /\ nextIndex' \in Nat /\ dropped' \in 0 .. Len(sizes')
        /\ Len(sizes') - dropped' <= nextIndex' /\ nextIndex' <= Len(sizes')
        /\ dropped' < DueMessage'
    <3>1. DueMessage \in Int /\ dropped < DueMessage
      BY <1>1, <1>5, DueBounds DEF SourceTypes
    <3> QED BY <1>1, <1>2, <1>3, <1>4, <1>5, <3>1 DEF SourceTypes
  <2> QED BY <1>3, <2>1, <2>2 DEF SourceTypes
<1>8. /\ DueMessage \in 1 .. Len(sizes) + 1 /\ DueMessage \in Int
      /\ DueFragment # 0 => DueMessage \in 1 .. Len(sizes)
  BY <1>1, <1>5, DueBounds
<1>9. AssemblerDue'
  <2>1. AssemblerDue
    BY DEF SourceInv
  <2>2. CASE DueFragment # 0
    <3>1. DueMessage' = DueMessage
      BY <1>4, <2>2
    <3>2. IndexOf(DueMessage)' = IndexOf(DueMessage)
      BY <1>6, <1>8, <3>1
    <3>3. sizes'[DueMessage] = sizes[DueMessage]
      BY <1>3, <1>8, <2>2
    <3> QED BY <1>2, <1>4, <2>1, <2>2, <3>1, <3>2, <3>3 DEF AssemblerDue, Partial
  <2>3. CASE DueFragment = 0
    <3>1. \A m \in dropped + 1 .. DueMessage - 1 :
            m \in dropped' + 1 .. DueMessage' - 1 /\ IndexOf(m)' = IndexOf(m)
      <4>1. \A m \in dropped + 1 .. DueMessage - 1 : m \in dropped + 1 .. e - 1
        BY <1>4, <1>5, <1>8
      <4> QED BY <1>2, <1>4, <1>5, <1>6, <1>8, <4>1
    <3> QED BY <1>2, <1>4, <2>1, <2>3, <3>1 DEF AssemblerDue, Aux!NoMessage
  <2> QED BY <2>2, <2>3
<1>10. ArrivedInOrder(dropped)'
  <2>1. dropped \in 0 .. Len(sizes) /\ ArrivedInOrder(dropped)
    BY <1>5 DEF SourceInv
  <2>2. PICK k \in 0 .. Len(sizes) : k = dropped
    BY <2>1
  <2>3. ArrivedInOrder(k)'
    BY <1>1, <1>2, <1>3, <1>4, <2>1, <2>2, ArrivedStays
  <2> QED BY <1>2, <2>2, <2>3 DEF ArrivedInOrder
<1> QED BY <1>4, <1>7, <1>9, <1>10 DEF SourceInv

\* A new connection: nothing is on its way, and the assembler is reset.
LEMMA SourceNewPeer ==
  ASSUME SourceInv, NEW paired \in BOOLEAN, Aux!NewPeer(paired), UNCHANGED lossy
  PROVE  SourceInv'
<1>1. CommonTypes /\ SourceTypes
  BY DEF SourceInv, SourceTypes
<1>2. /\ channel' = <<>> /\ dropped' = Len(sizes)
      /\ nextIndex' = 0 \/ nextIndex' = nextIndex
      /\ assembler' = Aux!ResetAssembler
      /\ UNCHANGED <<sizes, delivered, lossy>>
  BY DEF Aux!NewPeer
<1>3. /\ Len(sizes) \in Nat /\ DueMessage \in 1 .. Len(sizes) + 1
      /\ nextIndex \in Nat /\ nextIndex <= Len(sizes)
  BY <1>1, DueBounds DEF SourceTypes
<1>4. CommonTypes'
  <2>1. /\ lossy' \in BOOLEAN /\ delivered' \in Seq(Seq(Nat))
        /\ sizes' \in Seq(Sizes) /\ Len(sizes') <= MaxMessages
    BY <1>1, <1>2 DEF CommonTypes
  <2>2. channel' \in Seq(Fragments) /\ Len(channel') = 0
    BY <1>2
  <2> QED BY <2>1, <2>2 DEF CommonTypes
<1>5. DueMessage' = Len(sizes) + 1 /\ DueFragment' = 0
  BY <1>2 DEF DueMessage, DueFragment
<1>6. SourceTypes'
  BY <1>2, <1>3, <1>4, <1>5 DEF SourceTypes
<1>7. InSequence'
  BY <1>2 DEF InSequence
<1>8. AssemblerDue'
  BY <1>2, <1>3, <1>5 DEF AssemblerDue, Assemblers, Aux!ResetAssembler,
                          Aux!NoMessage
<1>9. ArrivedInOrder(dropped)'
  <2>1. ArrivedInOrder(dropped)
    BY DEF SourceInv
  <2>2. \A m \in 1 .. DueMessage - 1 : m \in 1 .. Len(sizes)
    BY <1>3
  <2>3. \A m : Whole(m)' = Whole(m)
    BY <1>2 DEF Whole
  <2>4. ~ \E m : m \in dropped' + 1 .. DueMessage' - 1
    BY <1>2, <1>3, <1>5
  <2>5. DueMessage' - 1 = Len(sizes)
    BY <1>3, <1>5
  <2> QED BY <1>2, <2>1, <2>2, <2>3, <2>4, <2>5 DEF ArrivedInOrder
<1> QED BY <1>6, <1>7, <1>8, <1>9 DEF SourceInv

\* The assembler's fields when the next fragment has been put into them.
LEMMA SourceFilled ==
  ASSUME SourceInv, channel # <<>>
  PROVE  LET f == channel[1]
             a == Aux!Filled(Aux!Begun(f), f)
         IN  /\ a \in Assemblers /\ a.messageIndex = IndexOf(f.content)
             /\ a.fragmentCount = FragmentCount(f.size)
             /\ a.fragmentsReceived = f.fragment + 1
             /\ a.buffer = Partial(f.size, f.content, f.fragment + 1)
             /\ LastOf(f) => a.buffer = Whole(f.content)
<1> DEFINE f == channel[1]
           begun == Aux!Begun(f)
           a == Aux!Filled(begun, f)
           p == Partial(f.size, f.content, f.fragment)
           q == Partial(f.size, f.content, f.fragment + 1)
<1>1. CommonTypes /\ SourceTypes /\ 1 \in 1 .. Len(channel)
  BY DueBounds DEF SourceInv, SourceTypes
<1>2. /\ f \in Fragments
      /\ f.content \in 1 .. Len(sizes) /\ f.size = sizes[f.content]
      /\ f.size \in Nat /\ f.size > 0
      /\ f.fragment \in Nat /\ f.fragment < FragmentCount(f.size)
      /\ FragmentCount(f.size) \in Nat
  BY <1>1, OnItsWay
<1>3. /\ p \in Seq(Nat) /\ Len(p) = f.size /\ FitsInto(p, f)
      /\ Copied(p, f) = q
      /\ f.fragment = 0 => p = Zeros(f.size)
      /\ LastOf(f) => Copied(p, f) = Whole(f.content)
  BY <1>1, DueCopied
<1>4. DueMessage = f.content /\ DueFragment = f.fragment
  BY DEF DueMessage, DueFragment
<1>5. f.index = IndexOf(f.content) /\ dropped < f.content
  BY <1>1, <1>4 DEF SourceTypes
<1>6. /\ f.content \in Int /\ Len(sizes) \in Nat /\ dropped \in Nat
      /\ f.index \in Int /\ f.index >= 0
      /\ \A m \in dropped + 1 .. f.content - 1 : IndexOf(m) # IndexOf(f.content)
  <2>1. /\ f.content \in Int /\ Len(sizes) \in Nat /\ dropped \in Nat
        /\ nextIndex \in Nat
    BY <1>1, <1>2 DEF SourceTypes, CommonTypes
  <2>2. f.content \in dropped + 1 .. Len(sizes) + 1
    BY <1>2, <1>5, <2>1
  <2>3. IndexOf(f.content) \in Nat
    BY <1>1, <2>2, Indices
  <2>4. \A m \in dropped + 1 .. f.content - 1 : IndexOf(m) # IndexOf(f.content)
    BY <2>1 DEF IndexOf
  <2> QED BY <1>5, <2>1, <2>3, <2>4
<1>7. assembler \in Assemblers /\ AssemblerDue
  BY DEF SourceInv, AssemblerDue
<1> HIDE DEF f, p, q
<1>8. /\ begun \in Assemblers /\ begun.messageIndex = f.index
      /\ begun.fragmentCount = FragmentCount(f.size)
      /\ begun.fragmentsReceived = f.fragment
      /\ begun.buffer = p
  <2>1. CASE f.fragment # 0
    <3>1. /\ assembler.messageIndex = f.index
          /\ assembler.fragmentCount = FragmentCount(f.size)
          /\ assembler.fragmentsReceived = f.fragment
          /\ assembler.buffer = p
      BY <1>2, <1>4, <1>5, <1>7, <2>1 DEF AssemblerDue, p
    <3>2. begun = assembler
      BY <3>1 DEF Aux!Begun
    <3> QED BY <1>7, <3>1, <3>2
  <2>2. CASE f.fragment = 0
    <3>1. f.index # assembler.messageIndex
      <4>1. CASE assembler.messageIndex = Aux!NoMessage
        BY <1>6, <4>1 DEF Aux!NoMessage
      <4>2. CASE assembler.messageIndex # Aux!NoMessage
        <5>1. PICK m \in dropped + 1 .. f.content - 1 :
                assembler.messageIndex = IndexOf(m)
          BY <1>4, <1>7, <2>2, <4>2 DEF AssemblerDue
        <5> QED BY <1>5, <1>6, <5>1
      <4> QED BY <4>1, <4>2
    <3>2. begun = [messageIndex |-> f.index,
                   fragmentCount |-> FragmentCount(f.size),
                   fragmentsReceived |-> 0, buffer |-> p]
      BY <1>3, <2>2, <3>1, SameOperators DEF Aux!Begun
    <3> HIDE DEF begun
    <3> QED BY <1>2, <1>3, <1>6, <2>2, <3>2 DEF Assemblers
  <2> QED BY <2>1, <2>2
<1> HIDE DEF begun
<1>9. q \in Seq(Nat)
  <2>1. Copied(p, f) \in Seq(Nat)
    BY <1>2, <1>3, CopiedTypes
  <2> QED BY <1>3, <2>1
<1>10. /\ a \in Assemblers /\ a.messageIndex = f.index
       /\ a.fragmentCount = FragmentCount(f.size)
       /\ a.fragmentsReceived = f.fragment + 1
       /\ a.buffer = q
  <2> DEFINE n == begun.fragmentsReceived + 1
  <2>1. Aux!FitsInto(begun.buffer, f) /\ Aux!Copied(begun.buffer, f) = q
    BY <1>3, <1>8, SameOperators
  <2>2. a = [begun EXCEPT !.fragmentsReceived = n, !.buffer = q]
    BY <2>1 DEF Aux!Filled
  <2>3. n = f.fragment + 1 /\ n \in Nat
    BY <1>2, <1>8
  <2> HIDE DEF n, a
  <2>4. /\ a \in Assemblers /\ a.messageIndex = begun.messageIndex
        /\ a.fragmentCount = begun.fragmentCount
        /\ a.fragmentsReceived = n
        /\ a.buffer = q
    BY <1>8, <1>9, <2>2, <2>3 DEF Assemblers
  <2> QED BY <1>8, <2>3, <2>4
<1>11. a \in Assemblers /\ a.messageIndex = IndexOf(f.content)
  BY <1>5, <1>10
<1>12. LastOf(f) => a.buffer = Whole(f.content)
  BY <1>3, <1>10
<1> QED BY <1>10, <1>11, <1>12 DEF f, q, begun

\* The source's assembler takes the next fragment.
LEMMA SourceReceives ==
  ASSUME SourceInv, Aux!Receive, UNCHANGED lossy
  PROVE  SourceInv'
<1> DEFINE f == channel[1]
           a == Aux!Filled(Aux!Begun(f), f)
<1>1. /\ CommonTypes /\ SourceTypes /\ InSequence /\ channel # <<>>
      /\ channel' = Tail(channel) /\ UNCHANGED <<lossy, nextIndex, sizes, dropped>>
  BY DEF SourceInv, SourceTypes, Aux!Receive
<1>2. PICK text \in BOOLEAN : Aux!PushMessage(f, text)
  <2>1. Head(channel) = channel[1]
    BY <1>1 DEF CommonTypes
  <2> QED BY <2>1 DEF Aux!Receive
<1>3. /\ channel' \in Seq(Fragments)
      /\ \A i \in 1 .. Len(channel') :
           i + 1 \in 1 .. Len(channel) /\ channel'[i] = channel[i + 1]
      /\ \A i \in 1 .. Len(channel') : Cut(channel[i])'
      /\ InSequence' /\ DueMessage' \in Nat
      /\ DueMessage = f.content /\ DueFragment = f.fragment
      /\ LastOf(f) => /\ DueFragment' = 0 /\ DueMessage' > DueMessage
                      /\ NoneBetween(DueMessage, DueMessage')
      /\ ~ LastOf(f) => DueMessage' = DueMessage /\ DueFragment' = DueFragment + 1
  BY <1>1, TakenInSequence
<1>4. /\ a \in Assemblers /\ a.messageIndex = IndexOf(f.content)
      /\ a.fragmentCount = FragmentCount(f.size)
      /\ a.fragmentsReceived = f.fragment + 1
      /\ a.buffer = Partial(f.size, f.content, f.fragment + 1)
      /\ LastOf(f) => a.buffer = Whole(f.content)
  BY <1>1, SourceFilled
<1>5. /\ f.content \in 1 .. Len(sizes) /\ f.size = sizes[f.content]
      /\ f.fragment \in Nat /\ Len(sizes) \in Nat /\ dropped \in Nat
      /\ dropped < f.content
      /\ delivered \in Seq(Seq(Nat))
      /\ Whole(f.content) \in Seq(Nat) /\ sizes[f.content] # 0
  <2>1. 1 \in 1 .. Len(channel)
    BY <1>1, DueBounds
  <2>2. /\ f.content \in 1 .. Len(sizes) /\ f.size = sizes[f.content]
        /\ f.fragment \in Nat /\ sizes[f.content] # 0
    BY <1>1, <2>1, OnItsWay
  <2>3. Whole(f.content) \in Seq(Nat)
    BY <1>1, <2>2, WholeTypes
  <2> QED BY <1>1, <1>3, <2>2, <2>3 DEF SourceTypes, CommonTypes
<1>6. IF LastOf(f)
        THEN /\ delivered' = Append(delivered, Whole(f.content))
             /\ assembler' = a \/ assembler' = [a EXCEPT !.buffer = <<>>]
        ELSE delivered' = delivered /\ assembler' = a
  <2> HIDE DEF a, f
  <2>1. a.fragmentsReceived = a.fragmentCount <=> LastOf(f)
    BY <1>4 DEF LastOf
  <2> QED BY <1>2, <1>4, <2>1 DEF Aux!PushMessage, a
<1> HIDE DEF f, a
<1>7. delivered' \in Seq(Seq(Nat))
  <2>1. Append(delivered, Whole(f.content)) \in Seq(Seq(Nat))
    BY <1>5, AppendProperties
  <2> QED BY <1>5, <1>6, <2>1
<1>8. CommonTypes'
  BY <1>1, <1>3, <1>7 DEF CommonTypes
<1>9. /\ \A n \in Int : IndexOf(n)' = IndexOf(n)
      /\ \A n : Whole(n)' = Whole(n)
  BY <1>1 DEF IndexOf, Whole
<1>10. PICK e \in Nat :
         /\ DueMessage' = e /\ e >= DueMessage
         /\ DueMessage = f.content /\ f.content \in Int
         /\ LastOf(f) => e > DueMessage /\ NoneBetween(DueMessage, e)
  BY <1>3, <1>5
<1>11. SourceTypes'
  <2>1. \A i \in 1 .. Len(channel') :
          channel'[i].index = IndexOf(channel[i].content)'
    <3>1. ASSUME NEW i \in 1 .. Len(channel')
          PROVE  channel'[i].index = IndexOf(channel[i].content)'
      <4>1. i + 1 \in 1 .. Len(channel) /\ channel'[i] = channel[i + 1]
        BY <1>3
      <4>2. channel[i + 1].content \in 1 .. Len(sizes)
        BY <1>1, <4>1, OnItsWay
      <4>3. channel[i + 1].index = IndexOf(channel[i + 1].content)
        BY <1>1, <4>1 DEF SourceTypes
      <4> QED BY <1>9, <4>1, <4>2, <4>3
    <3> QED BY <3>1
  <2>2. dropped' < DueMessage'
    BY <1>1, <1>5, <1>10
  <2> QED BY <1>1, <1>8, <2>1, <2>2 DEF SourceTypes
<1>12. AssemblerDue'
  <2>1. CASE LastOf(f)
    <3>1. /\ assembler' \in Assemblers
          /\ assembler'.messageIndex = a.messageIndex
          /\ assembler'.fragmentsReceived = a.fragmentsReceived
          /\ assembler'.fragmentCount = a.fragmentCount
      <4>1. assembler' = a \/ assembler' = [a EXCEPT !.buffer = <<>>]
        BY <1>6, <2>1
      <4>2. <<>> \in Seq(Nat)
        OBVIOUS
      <4> QED BY <1>4, <4>1, <4>2 DEF Assemblers
    <3>2. a.fragmentsReceived = a.fragmentCount
      BY <1>4, <2>1 DEF LastOf
    <3>3. PICK m \in dropped + 1 .. e - 1 : m = f.content
      BY <1>5, <1>10, <2>1
    <3>4. /\ m \in dropped' + 1 .. DueMessage' - 1
          /\ assembler'.messageIndex = IndexOf(m)'
      BY <1>1, <1>4, <1>10, <3>1, <3>3 DEF IndexOf
    <3>5. DueFragment' = 0
      BY <1>3, <2>1
    <3> QED BY <3>1, <3>2, <3>4, <3>5 DEF AssemblerDue
  <2>2. CASE ~ LastOf(f)
    <3>1. assembler' = a
      BY <1>6, <2>2
    <3>2. /\ DueMessage' = f.content /\ DueFragment' = f.fragment + 1
          /\ DueFragment' # 0 /\ sizes'[f.content] = f.size
      BY <1>1, <1>3, <1>5, <2>2
    <3>3. assembler'.messageIndex = IndexOf(DueMessage)'
      BY <1>4, <1>5, <1>9, <3>1, <3>2
    <3> QED BY <1>4, <3>1, <3>2, <3>3 DEF AssemblerDue, Partial
  <2> QED BY <2>1, <2>2
<1>13. ArrivedInOrder(dropped)'
  <2>1. PICK k \in 0 .. Len(sizes) : k = dropped
    BY <1>1 DEF SourceTypes
  <2>2. ArrivedInOrder(k)
    BY <2>1 DEF SourceInv
  <2>3. CASE LastOf(f)
    <3>1. /\ DueMessage \in 1 .. Len(sizes) /\ sizes[DueMessage] # 0
          /\ delivered' = Append(delivered, Whole(DueMessage))
      BY <1>5, <1>6, <1>10, <2>3
    <3>2. ArrivedInOrder(k)'
      BY <1>1, <1>10, <2>2, <2>3, <3>1, ArrivedNext
    <3> QED BY <1>1, <2>1, <3>2 DEF ArrivedInOrder
  <2>4. CASE ~ LastOf(f)
    <3>1. DueMessage' = DueMessage /\ delivered' = delivered
      BY <1>3, <1>6, <2>4
    <3> QED BY <1>1, <1>9, <2>1, <2>2, <3>1 DEF ArrivedInOrder
  <2> QED BY <2>3, <2>4
<1> QED BY <1>3, <1>11, <1>12, <1>13 DEF SourceInv

-----------------------------------------------------------------------------
eitherVars == <<vars, auxVars, toViewer>>

\* Nothing has been sent at the start.
LEMMA FragmentsInit == EitherInit => FragmentsInv
<1> SUFFICES ASSUME EitherInit
             PROVE  FragmentsInv
  OBVIOUS
<1>1. /\ lossy \in BOOLEAN /\ toViewer \in BOOLEAN
      /\ sizes = <<>> /\ channel = <<>> /\ builders = <<>> /\ delivered = <<>>
      /\ nextIndex = 0 /\ dropped = 0 /\ assembler = Aux!ResetAssembler
  BY DEF EitherInit, Init, Aux!Init
<1>2. Len(sizes) = 0 /\ Len(channel) = 0 /\ Len(delivered) = 0
  BY <1>1
<1>3. CommonTypes
  BY <1>1, <1>2, MessagesAssumption DEF CommonTypes
<1>4. DueMessage = 1 /\ DueFragment = 0
  BY <1>1, <1>2 DEF DueMessage, DueFragment
<1>5. InSequence
  BY <1>1, <1>2 DEF InSequence
<1>6. ViewerInv
  <2>1. ViewerTypes
    BY <1>1, <1>2, <1>3 DEF ViewerTypes
  <2>2. ReliableInOrder
    BY <1>1, <1>2, <1>4, <1>5 DEF ReliableInOrder, BuilderDue, ArrivedInOrder
  <2>3. Intact
    BY <1>2 DEF Intact
  <2> QED BY <1>1, <2>1, <2>2, <2>3 DEF ViewerInv
<1>7. SourceInv
  <2>1. SourceTypes
    BY <1>1, <1>2, <1>3, <1>4 DEF SourceTypes
  <2>2. AssemblerDue
    BY <1>1, <1>4 DEF AssemblerDue, Assemblers, Aux!ResetAssembler, Aux!NoMessage
  <2>3. ArrivedInOrder(dropped)
    BY <1>1, <1>2, <1>4 DEF ArrivedInOrder
  <2> QED BY <1>5, <2>1, <2>2, <2>3 DEF SourceInv
<1> QED BY <1>1, <1>6, <1>7 DEF FragmentsInv

\* A stutter keeps the invariant.
LEMMA FragmentsUnchanged ==
  FragmentsInv /\ UNCHANGED eitherVars => FragmentsInv'
<1> SUFFICES ASSUME FragmentsInv, UNCHANGED eitherVars
             PROVE  FragmentsInv'
  OBVIOUS
<1>1. UNCHANGED <<lossy, sizes, channel, builders, delivered, nextIndex,
                  assembler, dropped, toViewer>>
  BY DEF eitherVars, vars, auxVars
<1>2. /\ CommonTypes' <=> CommonTypes
      /\ DueMessage' = DueMessage /\ DueFragment' = DueFragment
      /\ InSequence' <=> InSequence
  BY <1>1 DEF CommonTypes, DueMessage, DueFragment, InSequence, Follows, LastOf,
              NoneBetween, Cut
<1>3. ViewerInv => ViewerInv'
  BY <1>1, <1>2 DEF ViewerInv, ViewerTypes, ReliableInOrder, ArrivedInOrder,
                    BuilderDue, Small, Intact, Whole, Partial, Complete
<1>4. SourceInv => SourceInv'
  BY <1>1, <1>2 DEF SourceInv, SourceTypes, AssemblerDue, ArrivedInOrder, IndexOf,
                    Whole, Partial, Aux!NoMessage
<1> QED BY <1>1, <1>3, <1>4 DEF FragmentsInv

\* So does every step, of one direction or the other.
LEMMA FragmentsStep ==
  FragmentsInv /\ [ToViewer \/ ToSource]_eitherVars => FragmentsInv'
<1> SUFFICES ASSUME FragmentsInv, [ToViewer \/ ToSource]_eitherVars
             PROVE  FragmentsInv'
  OBVIOUS
<1>1. CASE ToViewer
  <2>1. toViewer /\ toViewer' = toViewer /\ Next /\ ViewerInv
    BY <1>1 DEF ToViewer, FragmentsInv
  <2>2. CASE \E size \in Sizes : SplitMessage(size)
    BY <2>1, <2>2, ViewerSends DEF FragmentsInv
  <2>3. CASE \E i \in DOMAIN channel : Receive(i) \/ Lose(i)
    <3>1. DOMAIN channel = 1 .. Len(channel)
      BY <2>1 DEF ViewerInv, ViewerTypes, CommonTypes
    <3> QED BY <2>1, <2>3, <3>1, ViewerReceives, ViewerLoses DEF FragmentsInv
  <2> QED BY <2>1, <2>2, <2>3 DEF Next
<1>2. CASE ToSource
  <2>1. /\ ~ toViewer /\ toViewer' = toViewer /\ UNCHANGED lossy
        /\ Aux!Next /\ SourceInv
    BY <1>2 DEF ToSource, FragmentsInv
  <2>2. CASE \E size \in Sizes : Aux!SplitMessage(size)
    BY <2>1, <2>2, SourceSends DEF FragmentsInv
  <2>3. CASE Aux!Receive
    BY <2>1, <2>3, SourceReceives DEF FragmentsInv
  <2>4. CASE \E paired \in BOOLEAN : Aux!NewPeer(paired)
    BY <2>1, <2>4, SourceNewPeer DEF FragmentsInv
  <2> QED BY <2>1, <2>2, <2>3, <2>4 DEF Aux!Next
<1>3. CASE UNCHANGED eitherVars
  BY <1>3, FragmentsUnchanged
<1> QED BY <1>1, <1>2, <1>3

\* The inductive invariant of both directions (MessageSplitter.cpp:28-62,
\* message-splitter.ts:11-48, MessageAssembler.cpp:11-68,
\* message-assembler.ts:5-76): where the assembler is in the sequence of
\* fragments follows from the first one on its way.
THEOREM FragmentsInvariant == EitherSpec => []FragmentsInv
<1>1. EitherInit => FragmentsInv
  BY FragmentsInit
<1>2. FragmentsInv /\ [ToViewer \/ ToSource]_eitherVars => FragmentsInv'
  BY FragmentsStep
<1> QED BY <1>1, <1>2, PTL DEF EitherSpec, eitherVars

-----------------------------------------------------------------------------
\* The index of the message in the assembler is one of a message of this
\* connection, or none.
LEMMA SourceTypeOK == SourceInv => Aux!TypeOK
<1> SUFFICES ASSUME SourceInv
             PROVE  Aux!TypeOK
  OBVIOUS
<1>1. /\ CommonTypes /\ SourceTypes /\ AssemblerDue /\ assembler \in Assemblers
      /\ Len(sizes) \in Nat /\ MaxMessages \in Nat /\ Len(sizes) <= MaxMessages
      /\ dropped \in 0 .. Len(sizes) /\ dropped < DueMessage
      /\ nextIndex \in Nat /\ nextIndex <= Len(sizes)
  <2>1. /\ CommonTypes /\ SourceTypes /\ AssemblerDue
        /\ assembler \in Assemblers
    BY DEF SourceInv, SourceTypes, AssemblerDue
  <2>2. /\ Len(sizes) \in Nat /\ MaxMessages \in Nat
        /\ Len(sizes) <= MaxMessages
    BY <2>1, MessagesAssumption DEF CommonTypes
  <2> QED BY <2>1, <2>2 DEF SourceTypes
<1>2. /\ DueMessage \in 1 .. Len(sizes) + 1
      /\ DueFragment # 0 => DueMessage \in 1 .. Len(sizes)
  BY <1>1, DueBounds
<1>3. /\ assembler.messageIndex \in -1 .. MaxMessages - 1
      /\ assembler.fragmentsReceived <= assembler.fragmentCount
  <2>1. CASE DueFragment # 0
    <3>1. /\ assembler.messageIndex = IndexOf(DueMessage)
          /\ assembler.fragmentCount = FragmentCount(sizes[DueMessage])
          /\ assembler.fragmentsReceived = DueFragment
      BY <1>1, <2>1 DEF AssemblerDue
    <3>2. IndexOf(DueMessage) \in -1 .. MaxMessages - 1
      <4>1. DueMessage \in dropped + 1 .. Len(sizes) + 1 /\ DueMessage \in Int
        BY <1>1, <1>2
      <4>2. IndexOf(DueMessage) \in Nat /\ IndexOf(DueMessage) <= DueMessage - 1
        BY <1>1, <4>1, Indices
      <4> QED BY <1>1, <1>2, <2>1, <4>2
    <3>3. DueFragment < FragmentCount(sizes[DueMessage])
      <4>1. channel # <<>> /\ 1 \in 1 .. Len(channel)
        BY <1>1, <2>1, DueBounds
      <4>2. /\ channel[1].size = sizes[channel[1].content]
            /\ channel[1].fragment < FragmentCount(channel[1].size)
        BY <1>1, <4>1, OnItsWay
      <4> QED BY <4>1, <4>2 DEF DueMessage, DueFragment
    <3>4. assembler.fragmentsReceived \in Nat /\ assembler.fragmentCount \in Nat
      BY <1>1 DEF Assemblers
    <3> QED BY <3>1, <3>2, <3>3, <3>4
  <2>2. CASE DueFragment = 0
    <3>1. assembler.fragmentsReceived = assembler.fragmentCount
      BY <1>1, <2>2 DEF AssemblerDue
    <3>2. assembler.fragmentCount \in Nat
      BY <1>1 DEF Assemblers
    <3>3. CASE assembler.messageIndex = Aux!NoMessage
      BY <1>1, <3>1, <3>2, <3>3 DEF Aux!NoMessage
    <3>4. CASE assembler.messageIndex # Aux!NoMessage
      <4>1. PICK m \in dropped + 1 .. DueMessage - 1 :
              assembler.messageIndex = IndexOf(m)
        BY <1>1, <2>2, <3>4 DEF AssemblerDue
      <4>2. m \in dropped + 1 .. Len(sizes) + 1 /\ m \in Int /\ m <= Len(sizes)
        BY <1>1, <1>2
      <4>3. IndexOf(m) \in Nat /\ IndexOf(m) <= m - 1
        BY <1>1, <4>2, Indices
      <4> QED BY <1>1, <3>1, <3>2, <4>1, <4>2, <4>3
    <3> QED BY <3>3, <3>4
  <2> QED BY <2>1, <2>2
<1>4. assembler \in [messageIndex : -1 .. MaxMessages - 1, fragmentCount : Nat,
                     fragmentsReceived : Nat, buffer : Seq(Nat)]
  BY <1>1, <1>3 DEF Assemblers
<1>5. \A i \in DOMAIN channel : channel[i].content \in 1 .. Len(sizes)
  <2>1. DOMAIN channel = 1 .. Len(channel)
    BY <1>1 DEF CommonTypes
  <2> QED BY <1>1, <2>1, OnItsWay
<1>6. sizes \in Seq(Sizes) /\ nextIndex \in 0 .. MaxMessages
  BY <1>1 DEF CommonTypes
<1> QED BY <1>1, <1>3, <1>4, <1>5, <1>6 DEF Aux!TypeOK, Aux!NoMessage

\* The viewer's assembler has one builder at most.
LEMMA ViewerTypeOK == ViewerTypes => TypeOK
<1> SUFFICES ASSUME ViewerTypes
             PROVE  TypeOK
  OBVIOUS
<1>1. CommonTypes
  BY DEF ViewerTypes
<1>2. \A i \in DOMAIN channel : channel[i].content \in 1 .. Len(sizes)
  <2>1. DOMAIN channel = 1 .. Len(channel)
    BY <1>1 DEF CommonTypes
  <2> QED BY <1>1, <2>1, OnItsWay
<1>3. /\ Len(builders) <= MaxBuilderCount
      /\ \A i \in DOMAIN builders :
           builders[i] \in Builder /\ ~ Complete(builders[i])
  <2>1. MaxBuilderCount \in Nat /\ MaxBuilderCount >= 1
    BY BuildersAssumption DEF MaxBuilderCount
  <2>2. CASE builders = <<>>
    BY <2>1, <2>2
  <2>3. CASE builders # <<>>
    <3>1. PICK b \in Builder : builders = <<b>> /\ ~ Complete(b)
      BY <2>3 DEF ViewerTypes
    <3>2. Len(builders) = 1 /\ DOMAIN builders = 1 .. 1 /\ builders[1] = b
      BY <3>1
    <3> QED BY <2>1, <3>1, <3>2
  <2> QED BY <2>2, <2>3
<1> QED BY <1>1, <1>2, <1>3 DEF TypeOK, CommonTypes

\* Neither assembler ever holds more than it may, nor a message that is
\* complete (MessageAssembler.cpp:11-60, message-assembler.ts:49-76).
THEOREM AssemblersBounded == EitherSpec => []AssemblersOK
<1>1. FragmentsInv => AssemblersOK
  BY SourceTypeOK, ViewerTypeOK DEF FragmentsInv, ViewerInv, AssemblersOK
<1> QED BY <1>1, FragmentsInvariant, PTL

\* What has come is messages that were sent, whole and in order, and once
\* nothing is on its way all have come that are not empty.
LEMMA Arrived ==
  ASSUME CommonTypes, NEW k \in 0 .. Len(sizes), ArrivedInOrder(k)
  PROVE  /\ InOrder(delivered, sizes)
         /\ \A i \in DOMAIN delivered :
              \E m \in 1 .. Len(sizes) : IsMessage(delivered[i], sizes, m)
         /\ channel = <<>> => AllFrom(k + 1, delivered, sizes)
<1>1. /\ DOMAIN delivered = 1 .. Len(delivered) /\ Len(sizes) \in Nat
      /\ DueMessage \in 1 .. Len(sizes) + 1
  BY DueBounds DEF CommonTypes
<1>2. ASSUME NEW i \in 1 .. Len(delivered)
      PROVE  \E m \in 1 .. Len(sizes) :
               /\ delivered[i] # <<>> /\ delivered[i][1] = m
               /\ IsMessage(delivered[i], sizes, m)
  <2>1. PICK m \in 1 .. DueMessage - 1 : sizes[m] # 0 /\ delivered[i] = Whole(m)
    BY DEF ArrivedInOrder
  <2>2. m \in 1 .. Len(sizes)
    BY <1>1
  <2>3. Whole(m) # <<>> /\ Whole(m)[1] = m
    BY <2>1, <2>2, WholeTypes
  <2> QED BY <2>1, <2>2, <2>3 DEF IsMessage, Whole
<1>3. InOrder(delivered, sizes)
  BY <1>1, <1>2 DEF InOrder, ArrivedInOrder
<1>4. ASSUME channel = <<>>, NEW m \in k + 1 .. Len(sizes), sizes[m] # 0
      PROVE  \E i \in DOMAIN delivered : IsMessage(delivered[i], sizes, m)
  <2>1. DueMessage = Len(sizes) + 1
    BY <1>4 DEF DueMessage
  <2>2. m \in k + 1 .. DueMessage - 1 /\ m \in 1 .. Len(sizes)
    BY <1>1, <2>1
  <2>3. PICK i \in 1 .. Len(delivered) : delivered[i] = Whole(m)
    BY <1>4, <2>2 DEF ArrivedInOrder
  <2> QED BY <1>1, <2>2, <2>3 DEF IsMessage, Whole
<1> QED BY <1>1, <1>2, <1>3, <1>4 DEF AllFrom

\* Over a reliable channel messages come whole and in the order they were
\* sent, in both directions, whatever their sizes and however many there are
\* (MessageSplitter.cpp:42-62, message-splitter.ts:11-48,
\* message-assembler.ts:49-76, MessageAssembler.cpp:11-68).
THEOREM MessagesInOrder == EitherSpec => []WholeInOrder
<1>1. FragmentsInv => WholeInOrder
  <2> SUFFICES ASSUME FragmentsInv
               PROVE  WholeInOrder
    OBVIOUS
  <2>1. CASE toViewer
    <3> SUFFICES ASSUME ~ lossy
                 PROVE  InOrder(delivered, sizes)
      BY <2>1 DEF WholeInOrder, DeliveredInOrder
    <3>1. CommonTypes /\ ArrivedInOrder(0) /\ 0 \in 0 .. Len(sizes)
      BY <2>1 DEF FragmentsInv, ViewerInv, ViewerTypes, ReliableInOrder, CommonTypes
    <3> QED BY <3>1, Arrived
  <2>2. CASE ~ toViewer
    <3>1. /\ CommonTypes /\ ArrivedInOrder(dropped)
          /\ dropped \in 0 .. Len(sizes)
      BY <2>2 DEF FragmentsInv, SourceInv, SourceTypes
    <3>2. Aux!InOrder(delivered, sizes)
      BY <3>1, Arrived, SameOperators
    <3> QED BY <2>2, <3>2 DEF WholeInOrder, Aux!DeliveredInOrder
  <2> QED BY <2>1, <2>2
<1> QED BY <1>1, FragmentsInvariant, PTL

\* When a reliable channel is empty the assembler has returned all that was
\* sent over it but empty messages, which no fragment is sent of
\* (MessageSplitter.cpp:50, message-splitter.ts:36,
\* message-assembler.ts:49-76, MessageAssembler.cpp:11-68).
THEOREM NothingStaysBehind == EitherSpec => []AllArrive
<1>1. FragmentsInv => AllArrive
  <2> SUFFICES ASSUME FragmentsInv, channel = <<>>
               PROVE  AllArrive
    BY DEF AllArrive, NothingLost, Aux!NothingLost
  <2>1. CASE toViewer
    <3> SUFFICES ASSUME ~ lossy
                 PROVE  AllFrom(1, delivered, sizes) /\ builders = <<>>
      BY <2>1 DEF AllArrive, NothingLost
    <3>1. /\ CommonTypes /\ BuilderDue
          /\ ArrivedInOrder(0) /\ 0 \in 0 .. Len(sizes)
      BY <2>1 DEF FragmentsInv, ViewerInv, ViewerTypes, ReliableInOrder, CommonTypes
    <3>2. AllFrom(0 + 1, delivered, sizes)
      BY <3>1, Arrived
    <3>3. builders = <<>>
      BY <3>1 DEF BuilderDue, DueFragment
    <3> QED BY <3>2, <3>3
  <2>2. CASE ~ toViewer
    <3>1. /\ CommonTypes /\ ArrivedInOrder(dropped)
          /\ dropped \in 0 .. Len(sizes)
      BY <2>2 DEF FragmentsInv, SourceInv, SourceTypes
    <3>2. Aux!AllFrom(dropped + 1, delivered, sizes)
      BY <3>1, Arrived, SameOperators
    <3> QED BY <2>2, <3>2 DEF AllArrive, Aux!NothingLost
  <2> QED BY <2>1, <2>2
<1> QED BY <1>1, FragmentsInvariant, PTL

\* Frames of one fragment are intact even when the channel loses some and
\* changes their order (MessageSplitter.cpp:42-62, message-assembler.ts:5-76).
THEOREM SmallFramesWhole == EitherSpec => []SmallFramesIntact
<1>1. FragmentsInv => SmallFramesIntact
  <2> SUFFICES ASSUME FragmentsInv, \A m \in DOMAIN sizes : sizes[m] <= FragmentSize,
                      NEW n \in DOMAIN delivered
               PROVE  \E m \in 1 .. Len(sizes) : IsMessage(delivered[n], sizes, m)
    BY DEF SmallFramesIntact, FramesIntact
  <2>1. CommonTypes
    BY DEF FragmentsInv, ViewerInv, ViewerTypes, SourceInv, SourceTypes
  <2>2. DOMAIN sizes = 1 .. Len(sizes) /\ DOMAIN delivered = 1 .. Len(delivered)
    BY <2>1 DEF CommonTypes
  <2>3. CASE toViewer
    <3>1. Intact
      BY <2>2, <2>3 DEF FragmentsInv, ViewerInv, Small
    <3>2. PICK m \in 1 .. Len(sizes) : delivered[n] = Whole(m)
      BY <2>2, <3>1 DEF Intact
    <3> QED BY <3>2 DEF IsMessage, Whole
  <2>4. CASE ~ toViewer
    <3>1. /\ CommonTypes /\ ArrivedInOrder(dropped)
          /\ dropped \in 0 .. Len(sizes)
      BY <2>4 DEF FragmentsInv, SourceInv, SourceTypes
    <3> QED BY <3>1, Arrived
  <2> QED BY <2>3, <2>4
<1> QED BY <1>1, FragmentsInvariant, PTL
=============================================================================
