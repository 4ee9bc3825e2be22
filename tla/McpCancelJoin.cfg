\* Tools may hang for ever: cancelling while the threads are joined.
SPECIFICATION FairSpec
CONSTANTS
  Main = Main
  Workers = {w1}
  QueueCapacity = 1
  MaxInput = 3
  None = None
PROPERTY CancelReturns
CHECK_DEADLOCK FALSE
