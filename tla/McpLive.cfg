\* Tools may hang for ever, and three messages fill the worker, the queue and the loop.
SPECIFICATION FairSpec
CONSTANTS
  Main = Main
  Workers = {w1}
  QueueCapacity = 1
  MaxInput = 3
  None = None
PROPERTY EveryRequestAnswered
PROPERTY CancelEndsServing
CHECK_DEADLOCK FALSE
