SPECIFICATION FairSpec

CONSTANT
  MaxMessages = 6

PROPERTIES
  InOrder
  AwaitsEnd

\* All messages may be sent.
CHECK_DEADLOCK FALSE
