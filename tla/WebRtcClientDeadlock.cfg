SPECIFICATION FairSpec

CONSTANTS
  frames = frames  controls = controls
  Senders = {frames, controls}
  FrameThread = frames
  Nobody = Nobody

PROPERTY
  RetryFollows

\* The deadlock between a pairing and the connection thread is reached.
CHECK_DEADLOCK FALSE
