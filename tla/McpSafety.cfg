\* Two workers behind a queue of one: four messages fill every place.
SPECIFICATION Spec
CONSTANTS
  Main = Main
  Workers = {w1, w2}
  QueueCapacity = 1
  MaxInput = 4
  None = None
SYMMETRY Symmetry
INVARIANT AtMostOneAnswer
INVARIANT PendingExact
INVARIANT ParseErrorInOrder
INVARIANT LateWriteAtMostOne
INVARIANT AnsweredOnReturn
CHECK_DEADLOCK FALSE
