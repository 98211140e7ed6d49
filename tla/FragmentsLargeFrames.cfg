SPECIFICATION Spec

CONSTANTS
  FragmentSize = 2
  Sizes = {0, 1, 2, 3, 5}
  MaxMessages = 3
  StreamBuilders = 3
  AuxBuilders = 1

INVARIANT
  FramesIntact

\* The model stops when all messages are sent and received or lost.
CHECK_DEADLOCK FALSE
