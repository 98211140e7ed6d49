SPECIFICATION EitherSpec

CONSTANTS
  FragmentSize = 2
  Sizes = {0, 1, 2, 3, 5}
  MaxMessages = 3
  StreamBuilders = 3
  AuxBuilders = 1

INVARIANTS
  AssemblersOK
  WholeInOrder
  AllArrive
  SmallFramesIntact

\* The viewer's direction stops when all messages have come or are lost.
CHECK_DEADLOCK FALSE
