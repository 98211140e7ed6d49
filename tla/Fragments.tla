------------------------------ MODULE Fragments ------------------------------
(***************************************************************************)
(* What the two message splitters and the two message assemblers have in   *)
(* common: a message is cut into fragments of a fixed size, each with a    *)
(* header that names the message by an index (MessageSplitter.cpp,         *)
(* message-splitter.ts, MessageFragmentHeader.cpp, messages.ts).           *)
(*                                                                         *)
(* The bytes of the n-th message sent all have the value n, so that it can *)
(* be seen in a buffer which message a byte came from.  A fresh buffer     *)
(* holds zeros.  An empty message is cut into no fragment at all, so it    *)
(* never arrives: neither splitter sends a header for it.                  *)
(***************************************************************************)
EXTENDS Integers, Sequences, SequencesExt, FiniteSets

CONSTANTS FragmentSize,    \* MaxMessageSize less the header
          Sizes,           \* the sizes of the messages
          MaxMessages      \* bound: how many are sent

ASSUME SizesAssumption == FragmentSize \in Nat \ {0} /\ Sizes \subseteq Nat
ASSUME MessagesAssumption == MaxMessages \in Nat

SmallerOf(a, b) == IF a < b THEN a ELSE b

\* Mutant: floor division.
FragmentCount_Floor(size) == size \div FragmentSize

\* Ceiling division, as both assemblers compute it from the header.
FragmentCount(size) == (size + FragmentSize - 1) \div FragmentSize

\* A header, and the bytes behind it.
Fragment(index, size, fragment, length, content) ==
  [index |-> index, size |-> size, fragment |-> fragment,
   length |-> length, content |-> content]

\* The fragments of a message, in the order they are sent.
Split(index, size, number) ==
  [i \in 1 .. FragmentCount(size) |->
     Fragment(index, size, i - 1,
              SmallerOf(FragmentSize, size - (i - 1) * FragmentSize), number)]

Zeros(size) == [i \in 1 .. size |-> 0]

FitsInto(buffer, f) == f.fragment * FragmentSize + f.length <= Len(buffer)

\* The buffer with the fragment copied to its place.
Copied(buffer, f) ==
  [i \in 1 .. Len(buffer) |->
     IF /\ i > f.fragment * FragmentSize
        /\ i <= f.fragment * FragmentSize + f.length
       THEN f.content
       ELSE buffer[i]]

\* The buffer holds the n-th message sent and nothing else.
IsMessage(buffer, sizes, n) ==
  /\ n \in 1 .. Len(sizes)
  /\ buffer = [i \in 1 .. sizes[n] |-> n]

\* What was delivered is messages sent, whole and in the order they were sent,
\* and none twice.
InOrder(buffers, sizes) ==
  /\ \A n \in DOMAIN buffers :
       buffers[n] # <<>> /\ IsMessage(buffers[n], sizes, buffers[n][1])
  /\ \A n, m \in DOMAIN buffers : n < m => buffers[n][1] < buffers[m][1]

\* All messages sent from the n-th on were delivered, but for empty ones.
AllFrom(n, buffers, sizes) ==
  \A m \in n .. Len(sizes) :
    sizes[m] # 0 => \E i \in DOMAIN buffers : IsMessage(buffers[i], sizes, m)
=============================================================================
