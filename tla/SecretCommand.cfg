\* A payload of two writes into a pipe that holds one, a child that prints
\* more than its pipes hold and more than is captured.
SPECIFICATION FairSpec
CONSTANTS
  MacOs = TRUE
  Payload = 2
  PipeCap = 1
  Capture = 2
  MaxOut = 3
INVARIANT SecretWhole
INVARIANT FailsClosed
INVARIANT ChildReaped
PROPERTY PollEnds
CHECK_DEADLOCK FALSE
